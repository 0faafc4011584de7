------------------------- MODULE AddressSpacesProofs -------------------------
(***************************************************************************)
(* Every address space shows the same kernel memory, no page a program or  *)
(* the kernel can reach is a page table, neither panic of map_page and     *)
(* unmap_page comes, and the trees of tables implement AddressMap: for     *)
(* every size of the tables and of memory.                                 *)
(*                                                                         *)
(* The invariant gives each frame that was handed out a home, its place in *)
(* the forest of tables: whose space it is in (nobody's, for the tables    *)
(* behind the kernel's half), how deep, and the indices that lead to it.   *)
(* An entry leads to a frame whose home is the next one down its way, so   *)
(* two walks meet in a frame only when they are walks of the same page in  *)
(* the same half, and writing an entry changes the walks of one page.      *)
(*                                                                         *)
(* In order: entries, the indices of a page, the forest, what a write and  *)
(* a new table do to it, map_page, allocate_pages, allocate_process,       *)
(* unmap_page, the invariant, the theorems.                                *)
(***************************************************************************)
EXTENDS AddressSpaces, DataFacts

-----------------------------------------------------------------------------
(* The setters of a page table entry change their own field only, whatever *)
(* was in the entry before, so what map_page writes is what the processor, *)
(* unmap_page and the next map_page read.                                  *)

(* A bit that an int can select reads as it is.                            *)
LEMMA FlagBits ==
  ASSUME NEW e
  PROVE  /\ IsPresent(e) = (0 \in e) /\ IsWritable(e) = (1 \in e)
         /\ IsUser(e) = (2 \in e) /\ IsPs(e) = (7 \in e)
  <1>1. \A idx \in {0, 1, 2, 7} : IntBit(idx) = {idx}
    BY DEF IntBit
  <1>2. \A idx \in {0, 1, 2, 7} : GetBit(e, idx) = (idx \in e)
    BY <1>1 DEF GetBit
  <1> QED BY <1>2 DEF IsPresent, IsWritable, IsUser, IsPs

(* Setting such a bit, or clearing any, touches no other bit.              *)
LEMMA SetBitKeepsOthers ==
  ASSUME NEW e \in SUBSET Bit, NEW idx \in Bit, NEW value \in BOOLEAN, idx < 31 \/ ~value
  PROVE  /\ SetBit(e, idx, value) \in SUBSET Bit
         /\ (idx \in SetBit(e, idx, value)) = value
         /\ \A b \in Bit \ {idx} : b \in SetBit(e, idx, value) <=> b \in e
  BY DEF SetBit, IntBit, Bit

(* The available bits that are set are those that are read, but for the    *)
(* lowest, and the address and the other flags stay.                       *)
LEMMA AvailableReadsBack ==
  ASSUME NEW e \in SUBSET Bit, NEW value \in SUBSET (0 .. 15)
  PROVE  /\ SetAvailable(e, value) \in SUBSET Bit
         /\ GetAvailable(SetAvailable(e, value)) = value \ {0}
         /\ \A b \in Bit \ ((8 .. 11) \cup (52 .. 62)) : b \in SetAvailable(e, value) <=> b \in e
  <1> DEFINE new == SetAvailable(e, value)
  <1>1. \A b \in Bit : b \in new <=>
          \/ b \in 8 .. 11 /\ b - 7 \in value
          \/ b \in 52 .. 62 /\ b - 47 \in value
          \/ b \notin (8 .. 11) \cup (52 .. 62) /\ b \in e
    BY DEF SetAvailable, Bit
  <1>2. new \in SUBSET Bit
    <2>1. \A b \in new : b \in e \/ b \in 8 .. 11 \/ b \in 52 .. 62
      BY DEF SetAvailable
    <2> HIDE DEF new
    <2>2. \A b \in (8 .. 11) \cup (52 .. 62) : b \in Bit
      BY DEF Bit
    <2> QED BY <2>1, <2>2
  <1> HIDE DEF new
  <1>3. GetAvailable(new) = value \ {0}
    <2>1. ASSUME NEW b \in 1 .. 4
          PROVE  b + 7 \in new <=> b \in value
      <3>1. b + 7 \in 8 .. 11 /\ b + 7 \in Bit /\ (b + 7) - 7 = b
        BY DEF Bit
      <3>2. b + 7 \notin 52 .. 62
        OBVIOUS
      <3> QED BY <1>1, <3>1, <3>2
    <2>2. ASSUME NEW b \in 5 .. 15
          PROVE  b + 47 \in new <=> b \in value
      <3>1. b + 47 \in 52 .. 62 /\ b + 47 \in Bit /\ (b + 47) - 47 = b
        BY DEF Bit
      <3>2. b + 47 \notin 8 .. 11
        OBVIOUS
      <3> QED BY <1>1, <3>1, <3>2
    <2>3. ASSUME NEW b \in GetAvailable(new)
          PROVE  b \in value \ {0}
      BY <2>1, <2>2 DEF GetAvailable
    <2>4. ASSUME NEW b \in value \ {0}
          PROVE  b \in GetAvailable(new)
      <3>1. b \in 1 .. 4 \/ b \in 5 .. 15
        OBVIOUS
      <3> QED BY <3>1, <2>1, <2>2 DEF GetAvailable
    <2> QED BY <2>3, <2>4
  <1>4. \A b \in Bit \ ((8 .. 11) \cup (52 .. 62)) : b \in new <=> b \in e
    BY <1>1
  <1> QED BY <1>2, <1>3, <1>4 DEF new

(* An address that is set reads back if its bits are those of a page below *)
(* 2^48 and no higher address was there; all that is no address stays.     *)
LEMMA AddrReadsBack ==
  ASSUME NEW e \in SUBSET Bit, e \cap (48 .. 51) = {}, NEW addr \in SUBSET (12 .. 47)
  PROVE  /\ SetAddr(e, addr) \in SUBSET Bit
         /\ Addr(SetAddr(e, addr)) = addr
         /\ \A b \in Bit \ (12 .. 47) : b \in SetAddr(e, addr) <=> b \in e
  <1>1. \A b : b \in SetAddr(e, addr) <=> b \in addr \/ (b \in e /\ b \notin 12 .. 47)
    BY DEF SetAddr
  <1>2. ASSUME NEW b \in Addr(SetAddr(e, addr))
        PROVE  b \in addr
    <2>1. b \in 12 .. 51 /\ (b \in addr \/ (b \in e /\ b \notin 12 .. 47))
      BY <1>1 DEF Addr
    <2>2. CASE b \in e /\ b \notin 12 .. 47
      <3>1. b \in 48 .. 51
        BY <2>1, <2>2
      <3> QED BY <3>1, <2>2
    <2> QED BY <2>1, <2>2
  <1>3. ASSUME NEW b \in addr
        PROVE  b \in Addr(SetAddr(e, addr))
    <2>1. b \in 12 .. 51
      OBVIOUS
    <2> QED BY <1>1, <2>1 DEF Addr
  <1>4. ASSUME NEW b \in SetAddr(e, addr)
        PROVE  b \in Bit
    <2>1. \A x \in 12 .. 47 : x \in Bit
      BY DEF Bit
    <2> QED BY <1>1, <2>1
  <1>5. ASSUME NEW b \in Bit \ (12 .. 47)
        PROVE  b \in SetAddr(e, addr) <=> b \in e
    BY <1>1
  <1> QED BY <1>2, <1>3, <1>4, <1>5

(* Entries that agree on the available bits read the same there. *)
LEMMA SameAvailable ==
  ASSUME NEW e \in SUBSET Bit, NEW f \in SUBSET Bit,
         \A b \in (8 .. 11) \cup (52 .. 62) : b \in e <=> b \in f
  PROVE  GetAvailable(e) = GetAvailable(f)
  <1>1. \A b \in 1 .. 4 : b + 7 \in 8 .. 11
    OBVIOUS
  <1>2. \A b \in 5 .. 15 : b + 47 \in 52 .. 62
    OBVIOUS
  <1> QED BY <1>1, <1>2 DEF GetAvailable

(* An address that is set last: the available bits are those of the entry  *)
(* before the flags were set, and the flags stay.                          *)
LEMMA AddrOverFlags ==
  ASSUME NEW a \in SUBSET Bit, NEW x \in SUBSET Bit, NEW page \in SUBSET (12 .. 47),
         a \cap (48 .. 51) = {},
         \A b \in Bit \ {0, 1, 2, 7, 63} : b \in x <=> b \in a
  PROVE  /\ Addr(SetAddr(x, page)) = page
         /\ GetAvailable(SetAddr(x, page)) = GetAvailable(a)
         /\ \A b \in {0, 1, 2, 7} : b \in SetAddr(x, page) <=> b \in x
  <1> DEFINE new == SetAddr(x, page)
  <1>1. x \cap (48 .. 51) = {}
    <2>1. \A b \in 48 .. 51 : b \in Bit \ {0, 1, 2, 7, 63}
      BY DEF Bit
    <2> QED BY <2>1
  <1>2. /\ new \in SUBSET Bit
        /\ Addr(new) = page
        /\ \A b \in Bit \ (12 .. 47) : b \in new <=> b \in x
    BY <1>1, AddrReadsBack
  <1> HIDE DEF new
  <1>3. GetAvailable(new) = GetAvailable(a)
    <2>1. ASSUME NEW b \in (8 .. 11) \cup (52 .. 62)
          PROVE  b \in new <=> b \in a
      <3>1. b \in Bit \ (12 .. 47) /\ b \in Bit \ {0, 1, 2, 7, 63}
        BY DEF Bit
      <3> QED BY <3>1, <1>2
    <2> QED BY <2>1, <1>2, SameAvailable
  <1>4. \A b \in {0, 1, 2, 7} : b \in Bit \ (12 .. 47)
    BY DEF Bit
  <1> QED BY <1>2, <1>3, <1>4 DEF new

(* The available bits leave the bits above the address as they are.        *)
LEMMA AvailableKeepsHigh ==
  ASSUME NEW e \in SUBSET Bit, e \cap (48 .. 51) = {}, NEW value \in SUBSET (0 .. 15)
  PROVE  SetAvailable(e, value) \cap (48 .. 51) = {}
  <1>1. \A b \in 48 .. 51 : b \in Bit \ ((8 .. 11) \cup (52 .. 62))
    BY DEF Bit
  <1> QED BY <1>1, AvailableReadsBack

(* What map_page writes over any entry is read by get_entry_at, unmap_page *)
(* and the next map_page as a page that is present, at that address and    *)
(* ours: mapping it twice panics, unmapping it does not. User programs may *)
(* use it.                                                                 *)
THEOREM MappedReadsBack ==
  ASSUME NEW e \in SUBSET Bit, e \cap (48 .. 51) = {}, NEW page \in SUBSET (12 .. 47)
  PROVE  LET new == MappedEntry(e, page)
         IN  /\ IsPresent(new) /\ IsWritable(new) /\ IsUser(new)
             /\ Addr(new) = page
             /\ GetAvailable(new) = MAT_MAPPED_MAGIC
             /\ IsPs(new) = IsPs(e)
  <1> DEFINE a == SetAvailable(e, MAT_MAPPED_MAGIC)
             p == SetBit(a, 0, TRUE)
             w == SetBit(p, 1, TRUE)
             u == SetBit(w, 2, TRUE)
             x == SetBit(u, 63, FALSE)
             new == SetAddr(x, page)
  <1>0. new = MappedEntry(e, page)
    BY DEF MappedEntry, SetPresent, SetWritable, SetUser, SetExecutionDisabled
  <1>1. MAT_MAPPED_MAGIC \in SUBSET (0 .. 15) /\ MAT_MAPPED_MAGIC \ {0} = MAT_MAPPED_MAGIC
    BY DEF MAT_MAPPED_MAGIC
  <1>2. /\ a \in SUBSET Bit
        /\ GetAvailable(a) = MAT_MAPPED_MAGIC
        /\ \A b \in Bit \ ((8 .. 11) \cup (52 .. 62)) : b \in a <=> b \in e
    BY <1>1, AvailableReadsBack
  <1>3. x \in SUBSET Bit /\ \A b \in 0 .. 2 : b \in x
    BY <1>2 DEF SetBit, IntBit, Bit
  <1>4. \A b \in Bit \ {0, 1, 2, 63} : b \in x <=> b \in a
    BY <1>2 DEF SetBit, IntBit, Bit
  <1>5. a \cap (48 .. 51) = {}
    BY <1>1, AvailableKeepsHigh
  <1> HIDE DEF a, x
  <1>6. /\ Addr(new) = page
        /\ GetAvailable(new) = GetAvailable(a)
        /\ \A b \in {0, 1, 2, 7} : b \in new <=> b \in x
    BY <1>2, <1>3, <1>4, <1>5, AddrOverFlags
  <1> HIDE DEF new
  <1>7. 0 \in new /\ 1 \in new /\ 2 \in new
    BY <1>3, <1>6
  <1>8. 7 \in new <=> 7 \in e
    <2>1. 7 \in Bit \ {0, 1, 2, 63} /\ 7 \in Bit \ ((8 .. 11) \cup (52 .. 62))
      BY DEF Bit
    <2> QED BY <2>1, <1>2, <1>4, <1>6
  <1>9. IsPresent(new) /\ IsWritable(new) /\ IsUser(new)
    BY <1>7, FlagBits
  <1>10. IsPs(new) = IsPs(e)
    BY <1>8, FlagBits
  <1> QED BY <1>0, <1>2, <1>6, <1>9, <1>10

(* What allocate_entry_and_follow writes over any entry, a big page of the *)
(* boot loader too, leads every later walk to the new table, and no walk   *)
(* takes it for a page that map_page has mapped.                           *)
THEOREM TableReadsBack ==
  ASSUME NEW e \in SUBSET Bit, e \cap (48 .. 51) = {}, NEW page \in SUBSET (12 .. 47)
  PROVE  LET new == TableEntry(e, page)
         IN  /\ IsPresent(new) /\ IsWritable(new) /\ IsUser(new) /\ ~IsPs(new)
             /\ Addr(new) = page
             /\ GetAvailable(new) = MAT_TABLE_MAGIC
             /\ GetAvailable(new) # MAT_MAPPED_MAGIC
  <1> DEFINE a == SetAvailable(e, MAT_TABLE_MAGIC)
             p == SetBit(a, 0, TRUE)
             w == SetBit(p, 1, TRUE)
             u == SetBit(w, 2, TRUE)
             s == SetBit(u, 7, FALSE)
             x == SetBit(s, 63, FALSE)
             new == SetAddr(x, page)
  <1>0. new = TableEntry(e, page)
    BY DEF TableEntry, SetPresent, SetWritable, SetUser, SetPs, SetExecutionDisabled
  <1>1. /\ MAT_TABLE_MAGIC \in SUBSET (0 .. 15) /\ MAT_TABLE_MAGIC \ {0} = MAT_TABLE_MAGIC
        /\ 2 \in MAT_TABLE_MAGIC /\ 2 \notin MAT_MAPPED_MAGIC
    BY DEF MAT_TABLE_MAGIC, MAT_MAPPED_MAGIC
  <1>2. /\ a \in SUBSET Bit
        /\ GetAvailable(a) = MAT_TABLE_MAGIC
        /\ \A b \in Bit \ ((8 .. 11) \cup (52 .. 62)) : b \in a <=> b \in e
    BY <1>1, AvailableReadsBack
  <1>3. x \in SUBSET Bit /\ (\A b \in 0 .. 2 : b \in x) /\ 7 \notin x
    BY <1>2 DEF SetBit, IntBit, Bit
  <1>4. \A b \in Bit \ {0, 1, 2, 7, 63} : b \in x <=> b \in a
    BY <1>2 DEF SetBit, IntBit, Bit
  <1>5. a \cap (48 .. 51) = {}
    BY <1>1, AvailableKeepsHigh
  <1> HIDE DEF a, x
  <1>6. /\ Addr(new) = page
        /\ GetAvailable(new) = GetAvailable(a)
        /\ \A b \in {0, 1, 2, 7} : b \in new <=> b \in x
    BY <1>2, <1>3, <1>4, <1>5, AddrOverFlags
  <1> HIDE DEF new
  <1>7. 0 \in new /\ 1 \in new /\ 2 \in new /\ 7 \notin new
    BY <1>3, <1>6
  <1>8. IsPresent(new) /\ IsWritable(new) /\ IsUser(new) /\ ~IsPs(new)
    BY <1>7, FlagBits
  <1> QED BY <1>0, <1>1, <1>2, <1>6, <1>8

(* What update_page makes of a present entry, bit by bit.                  *)
LEMMA UpdatedBits ==
  ASSUME NEW e \in SUBSET Bit, NEW options \in PageOptions, IsPresent(e)
  PROVE  LET new == UpdatedEntry(e, options)
         IN  /\ new \in SUBSET Bit
             /\ (1 \in new) = options.writable /\ (2 \in new) = options.user
             /\ \A b \in Bit \ {1, 2} :
                  b \in new <=> (b \in e /\ b # 63) \/ (~options.executable /\ b \in Overshift)
  <1> DEFINE x == SetBit(e, 63, ~options.executable)
             w == SetBit(x, 1, options.writable)
             new == SetBit(w, 2, options.user)
  <1>0. new = UpdatedEntry(e, options)
    BY DEF UpdatedEntry, SetWritable, SetUser, SetExecutionDisabled
  <1>1. options.executable \in BOOLEAN /\ options.writable \in BOOLEAN /\ options.user \in BOOLEAN
    BY DEF PageOptions
  <1>2. Overshift \in SUBSET Bit
    BY OvershiftAssumption DEF Bit
  <1>3. x \in SUBSET Bit
    BY <1>2 DEF SetBit, IntBit, Bit
  <1>4. \A b \in Bit : b \in x <=> (b \in e /\ b # 63) \/ (~options.executable /\ b \in Overshift)
    BY DEF SetBit, IntBit
  <1> HIDE DEF x
  <1>5. 1 \in Bit /\ 1 < 31 /\ 2 \in Bit /\ 2 < 31
    BY DEF Bit
  <1>6. /\ w \in SUBSET Bit /\ (1 \in w) = options.writable
        /\ \A b \in Bit \ {1} : b \in w <=> b \in x
    BY <1>1, <1>3, <1>5, SetBitKeepsOthers
  <1> HIDE DEF w
  <1>7. /\ new \in SUBSET Bit /\ (2 \in new) = options.user
        /\ \A b \in Bit \ {2} : b \in new <=> b \in w
    BY <1>1, <1>5, <1>6, SetBitKeepsOthers
  <1> HIDE DEF new
  <1>8. (1 \in new) = options.writable
    BY <1>5, <1>6, <1>7
  <1> QED BY <1>0, <1>4, <1>6, <1>7, <1>8

(* update_page makes a page writable and open to user programs as it is    *)
(* told, whatever the options and the build. Where the page is and whose   *)
(* it is stay if it is to be executable; otherwise only in a build that    *)
(* drops the shift of set_execution_disabled(true).                        *)
THEOREM UpdateKeepsMapping ==
  ASSUME NEW e \in SUBSET Bit, NEW options \in PageOptions
  PROVE  LET new == UpdatedEntry(e, options)
         IN  /\ IsPresent(new) = IsPresent(e) /\ IsPs(new) = IsPs(e)
             /\ IsPresent(e) => /\ IsWritable(new) = options.writable
                               /\ IsUser(new) = options.user
             /\ options.executable \/ Overshift = {} =>
                  Addr(new) = Addr(e) /\ GetAvailable(new) = GetAvailable(e)
  <1> DEFINE new == UpdatedEntry(e, options)
  <1>1. CASE ~IsPresent(e)
    BY <1>1 DEF UpdatedEntry
  <1>2. CASE IsPresent(e)
    <2>1. /\ new \in SUBSET Bit
          /\ (1 \in new) = options.writable /\ (2 \in new) = options.user
          /\ \A b \in Bit \ {1, 2} :
               b \in new <=> (b \in e /\ b # 63) \/ (~options.executable /\ b \in Overshift)
      BY <1>2, UpdatedBits
    <2> HIDE DEF new
    <2>2. 0 \in new <=> 0 \in e
      BY <2>1, OvershiftAssumption DEF Bit
    <2>3. 7 \in new <=> 7 \in e
      BY <2>1, OvershiftAssumption DEF Bit
    <2>4. ASSUME options.executable \/ Overshift = {}
          PROVE  Addr(new) = Addr(e) /\ GetAvailable(new) = GetAvailable(e)
      <3>1. \A b \in 8 .. 62 : b \in new <=> b \in e
        BY <2>1, <2>4 DEF Bit
      <3>2. Addr(new) = Addr(e)
        BY <3>1 DEF Addr
      <3>3. \A b \in (8 .. 11) \cup (52 .. 62) : b \in new <=> b \in e
        BY <3>1
      <3> QED BY <2>1, <3>2, <3>3, SameAvailable
    <2> QED BY <2>1, <2>2, <2>3, <2>4, FlagBits DEF new
  <1> QED BY <1>1, <1>2

(* update_page cannot forbid to execute a page, which PageOptions asks for *)
(* unless told otherwise: either the processor's bit 63 stays clear and is *)
(* read as clear, or the page of ours that was mapped below 2^48 is lost:  *)
(* the entry has another address, and unmap_page would panic over it.      *)
THEOREM UpdateNeverForbids ==
  ASSUME NEW e \in SUBSET Bit, e \cap (48 .. 51) = {}, IsPresent(e),
         NEW options \in PageOptions, ~options.executable
  PROVE  LET new == UpdatedEntry(e, options)
         IN  \/ 63 \notin new /\ ~IsExecutionDisabled(new)
             \/ /\ Addr(new) = Addr(e) \cup (31 .. 51) /\ Addr(new) # Addr(e)
                /\ GetAvailable(new) # MAT_MAPPED_MAGIC
  <1> DEFINE new == UpdatedEntry(e, options)
  <1>1. /\ new \in SUBSET Bit
        /\ \A b \in Bit \ {1, 2} : b \in new <=> (b \in e /\ b # 63) \/ b \in Overshift
    BY UpdatedBits
  <1> HIDE DEF new
  <1>2. CASE Overshift = {}
    <2>1. 63 \notin new
      BY <1>1, <1>2 DEF Bit
    <2>2. ~IsExecutionDisabled(new)
      BY <1>2 DEF IsExecutionDisabled, GetBit, IntBit
    <2> QED BY <2>1, <2>2 DEF new
  <1>3. CASE Overshift = 31 .. 63
    <2>1. \A b \in 12 .. 51 : b \in new <=> b \in e \/ b \in 31 .. 51
      BY <1>1, <1>3 DEF Bit
    <2>2. Addr(new) = Addr(e) \cup (31 .. 51)
      BY <2>1 DEF Addr
    <2>3. 48 \in Addr(new) /\ 48 \notin Addr(e)
      BY <2>2 DEF Addr
    <2>4. 57 \in new
      BY <1>1, <1>3 DEF Bit
    <2>5. 10 \in GetAvailable(new)
      BY <2>4 DEF GetAvailable
    <2>6. 10 \notin MAT_MAPPED_MAGIC
      BY DEF MAT_MAPPED_MAGIC
    <2> QED BY <2>2, <2>3, <2>5, <2>6 DEF new
  <1> QED BY <1>2, <1>3, OvershiftAssumption

-----------------------------------------------------------------------------
(* The address of a frame is read back as that frame.                      *)

LEMMA PowersOfTwo ==
  /\ 2^0 = 1 /\ 2^1 = 2 /\ 2^2 = 4 /\ 2^3 = 8 /\ 2^4 = 16 /\ 2^5 = 32 /\ 2^6 = 64 /\ 2^7 = 128
  /\ 2^8 = 256 /\ 2^9 = 512 /\ 2^10 = 1024 /\ 2^11 = 2048 /\ 2^12 = 4096 /\ 2^13 = 8192
  /\ 2^14 = 16384 /\ 2^15 = 32768 /\ 2^16 = 65536
  OBVIOUS

LEMMA Doubling ==
  ASSUME NEW k \in 0 .. 15
  PROVE  2^k \in Nat \ {0} /\ 2^(k + 1) = 2^k * 2
  <1>1. CASE k = 0 /\ k + 1 = 1
    BY <1>1, PowersOfTwo
  <1>2. CASE k = 1 /\ k + 1 = 2
    BY <1>2, PowersOfTwo
  <1>3. CASE k = 2 /\ k + 1 = 3
    BY <1>3, PowersOfTwo
  <1>4. CASE k = 3 /\ k + 1 = 4
    BY <1>4, PowersOfTwo
  <1>5. CASE k = 4 /\ k + 1 = 5
    BY <1>5, PowersOfTwo
  <1>6. CASE k = 5 /\ k + 1 = 6
    BY <1>6, PowersOfTwo
  <1>7. CASE k = 6 /\ k + 1 = 7
    BY <1>7, PowersOfTwo
  <1>8. CASE k = 7 /\ k + 1 = 8
    BY <1>8, PowersOfTwo
  <1>9. CASE k = 8 /\ k + 1 = 9
    BY <1>9, PowersOfTwo
  <1>10. CASE k = 9 /\ k + 1 = 10
    BY <1>10, PowersOfTwo
  <1>11. CASE k = 10 /\ k + 1 = 11
    BY <1>11, PowersOfTwo
  <1>12. CASE k = 11 /\ k + 1 = 12
    BY <1>12, PowersOfTwo
  <1>13. CASE k = 12 /\ k + 1 = 13
    BY <1>13, PowersOfTwo
  <1>14. CASE k = 13 /\ k + 1 = 14
    BY <1>14, PowersOfTwo
  <1>15. CASE k = 14 /\ k + 1 = 15
    BY <1>15, PowersOfTwo
  <1>16. CASE k = 15 /\ k + 1 = 16
    BY <1>16, PowersOfTwo
  <1> QED
    BY <1>1, <1>2, <1>3, <1>4, <1>5, <1>6, <1>7, <1>8, <1>9,
       <1>10, <1>11, <1>12, <1>13, <1>14, <1>15, <1>16

(* Below 2^16 a number is its sixteen lowest bits.                         *)
LEMMA BitsAreTheNumber ==
  ASSUME NEW f \in Nat, NEW g \in Nat, f < 2^16, g < 2^16, FrameAddress(f) = FrameAddress(g)
  PROVE  f = g
  <1> DEFINE Same == {j \in Nat : j <= 16 => f \div 2^(16 - j) = g \div 2^(16 - j)}
  <1>1. 0 \in Same
    <2>1. f \div 65536 = 0 /\ g \div 65536 = 0
      BY PowersOfTwo
    <2> QED
      BY <2>1, PowersOfTwo
  <1>2. ASSUME NEW j \in Nat, j \in Same PROVE j + 1 \in Same
    <2> SUFFICES ASSUME j + 1 <= 16
                 PROVE  f \div 2^(16 - (j + 1)) = g \div 2^(16 - (j + 1))
      OBVIOUS
    <2> DEFINE k == 16 - (j + 1)
               p == 2^k
    <2>1. k \in 0 .. 15 /\ 16 - j = k + 1 /\ k + 12 \in 12 .. 27 /\ (k + 12) - 12 = k
      OBVIOUS
    <2>2. p \in Nat \ {0} /\ 2^(k + 1) = p * 2
      BY <2>1, Doubling
    <2>3. f \div (p * 2) = g \div (p * 2)
      BY <1>2, <2>1, <2>2
    <2>4. k + 12 \in FrameAddress(f) <=> (f \div p) % 2 = 1
      BY <2>1 DEF FrameAddress
    <2>5. k + 12 \in FrameAddress(g) <=> (g \div p) % 2 = 1
      BY <2>1 DEF FrameAddress
    <2> HIDE DEF p, k
    <2>6. (f \div p) \div 2 = (g \div p) \div 2
      BY <2>2, <2>3, DivideTwice
    <2>7. f \div p \in Nat /\ g \div p \in Nat
      BY <2>2, DivMod
    <2>8. f \div p = g \div p
      BY <2>4, <2>5, <2>6, <2>7
    <2> QED
      BY <2>8 DEF p, k
  <1> HIDE DEF Same
  <1>3. 16 \in Same
    BY <1>1, <1>2, SetInduction
  <1> QED
    BY <1>3, PowersOfTwo DEF Same

LEMMA FramesAreLow == ASSUME NEW f \in Frames \cup {0} PROVE f \in Nat /\ f < 2^16
  <1>1. FrameCount \in Nat /\ Excess \in Nat /\ FrameCount + Excess < 65536
    BY PowersOfTwo, SizeAssumption
  <1>2. f \in Nat /\ f < 65536
    BY <1>1 DEF Frames
  <1> QED
    BY <1>2, PowersOfTwo

LEMMA NumberOfAddress == ASSUME NEW f \in Frames \cup {0} PROVE FrameNumber(FrameAddress(f)) = f
  <1>1. \A g \in Frames \cup {0} : FrameAddress(g) = FrameAddress(f) => g = f
    BY FramesAreLow, BitsAreTheNumber
  <1> QED
    BY <1>1, Zenon DEF FrameNumber

LEMMA AddressIsAPage == ASSUME NEW f PROVE FrameAddress(f) \in SUBSET (12 .. 47)
  BY DEF FrameAddress

(* What a walk reads of the entries that are written, and of the big pages *)
(* of the boot loader.                                                     *)
LEMMA WrittenEntries ==
  ASSUME NEW f \in Frames
  PROVE  /\ ToTable(f) = Entry("table", f, 0, FALSE)
         /\ ToPage(f) = Entry("page", f, 1, TRUE)
  <1>1. {} \in SUBSET Bit /\ {} \cap (48 .. 51) = {}
    OBVIOUS
  <1> DEFINE table == TableEntry({}, FrameAddress(f))
             page == MappedEntry({}, FrameAddress(f))
  <1>2. IsPresent(table) /\ ~IsPs(table) /\ Addr(table) = FrameAddress(f)
    BY <1>1, AddressIsAPage, TableReadsBack
  <1>3. IsPresent(page) /\ Addr(page) = FrameAddress(f) /\ GetAvailable(page) = MAT_MAPPED_MAGIC
    BY <1>1, AddressIsAPage, MappedReadsBack
  <1>4. ToTable(f) = Meaning(table, FALSE) /\ ToPage(f) = Meaning(page, TRUE)
    BY DEF ToTable, ToPage, TableMeaning, PageMeaning
  <1> HIDE DEF table, page
  <1> QED
    BY <1>2, <1>3, <1>4, NumberOfAddress DEF Meaning

LEMMA BigPageEntry == ToGibPage(0) = Entry("page", 0, Reach * Reach, FALSE)
  <1>1. \A b \in 12 .. 27 : (0 \div 2^(b - 12)) % 2 # 1
    <2> TAKE b \in 12 .. 27
    <2>1. b - 12 \in 0 .. 15
      OBVIOUS
    <2>2. 2^(b - 12) \in Nat \ {0}
      BY <2>1, Doubling
    <2> QED
      BY <2>2
  <1>2. FrameAddress(0) = {}
    BY <1>1 DEF FrameAddress
  <1>3. BigPage(0) = {0, 1, 7}
    BY <1>2 DEF BigPage
  <1>4. Addr(BigPage(0)) = FrameAddress(0)
    BY <1>2, <1>3 DEF Addr
  <1>5. FrameNumber(Addr(BigPage(0))) = 0
    BY <1>4, NumberOfAddress
  <1>6. GetAvailable(BigPage(0)) # MAT_MAPPED_MAGIC
    <2>1. 4 \in MAT_MAPPED_MAGIC /\ 4 + 7 \notin {0, 1, 7} /\ 4 \notin 5 .. 15
      BY DEF MAT_MAPPED_MAGIC
    <2>2. 4 \notin GetAvailable(BigPage(0))
      BY <1>3, <2>1 DEF GetAvailable
    <2> QED
      BY <2>1, <2>2
  <1> QED
    BY <1>3, <1>5, <1>6, FlagBits DEF ToGibPage, Meaning

-----------------------------------------------------------------------------
(* The indices of a page. *)

LEMMA Sizes ==
  /\ Fanout \in Nat \ {0} /\ Half \in Nat \ {0} /\ Half < Fanout /\ Fanout = 2 * Half
  /\ Reach \in Nat \ {0} /\ Reach <= Fanout
  /\ Reach * Reach \in Nat \ {0} /\ Reach * Reach * Reach \in Nat \ {0}
  /\ Index = 0 .. Fanout - 1
  <1>1. Reach \in Nat \ {0} /\ Reach <= Fanout
    BY SizeAssumption
  <1>2. Fanout \in Nat \ {0} /\ Half \in Nat \ {0} /\ Half < Fanout /\ Fanout = 2 * Half
    BY SizeAssumption DEF Half
  <1>3. Reach * Reach \in Nat \ {0}
    BY <1>1
  <1>4. Reach * Reach * Reach \in Nat \ {0}
    BY <1>1, <1>3
  <1> QED
    BY <1>1, <1>2, <1>3, <1>4 DEF Index

(* The quotients by the powers of Reach.                                   *)
LEMMA Quotients ==
  ASSUME NEW v \in Nat
  PROVE  /\ v = (v \div Reach) * Reach + IndexPt(v)
         /\ v \div Reach = (v \div (Reach * Reach)) * Reach + IndexPd(v)
         /\ v \div (Reach * Reach) = IndexPml4(v) * Reach + IndexPdp(v)
         /\ v \div Reach \in Nat /\ v \div (Reach * Reach) \in Nat /\ IndexPml4(v) \in Nat
         /\ IndexPt(v) \in 0 .. Reach - 1 /\ IndexPd(v) \in 0 .. Reach - 1
         /\ IndexPdp(v) \in 0 .. Reach - 1
  <1> DEFINE a == v \div Reach
             b == a \div Reach
             c == b \div Reach
  <1>1. v \div (Reach * Reach) = b
    BY Sizes, DivideTwice
  <1>2. IndexPml4(v) = c
    <2> DEFINE n == Reach * Reach
    <2>1. n \in Nat \ {0} /\ IndexPml4(v) = v \div (n * Reach)
      BY Sizes DEF IndexPml4
    <2> HIDE DEF n
    <2>2. v \div (n * Reach) = (v \div n) \div Reach
      BY <2>1, Sizes, DivideTwice, ZenonT(30)
    <2> QED
      BY <1>1, <2>1, <2>2 DEF n
  <1>3. a \in Nat /\ v % Reach \in 0 .. Reach - 1 /\ v = a * Reach + (v % Reach)
    BY Sizes, DivMod
  <1> HIDE DEF a
  <1>4. b \in Nat /\ a % Reach \in 0 .. Reach - 1 /\ a = b * Reach + (a % Reach)
    BY <1>3, Sizes, DivMod
  <1> HIDE DEF b
  <1>5. c \in Nat /\ b % Reach \in 0 .. Reach - 1 /\ b = c * Reach + (b % Reach)
    BY <1>4, Sizes, DivMod
  <1>6. IndexPt(v) = v % Reach /\ IndexPd(v) = a % Reach /\ IndexPdp(v) = b % Reach
    BY <1>1 DEF IndexPt, IndexPd, IndexPdp, a
  <1> HIDE DEF c
  <1> QED
    BY <1>1, <1>2, <1>3, <1>4, <1>5, <1>6 DEF a

LEMMA Later ==
  ASSUME NEW x \in Nat, NEW y \in Nat, x < y, NEW t \in 0 .. Reach - 1
  PROVE  x * Reach + (Reach - 1) < y * Reach + t
  <1>1. (x * Reach) + Reach <= y * Reach /\ x * Reach \in Nat /\ y * Reach \in Nat
    BY Products, Sizes
  <1> QED
    BY <1>1, Sizes

(* A page has its place in four tables, and no other page has that place.  *)
LEMMA PlaceOfPage ==
  ASSUME NEW v \in VirtualPages
  PROVE  /\ v \in Nat
         /\ IndexPml4(v) \in Index /\ IndexPdp(v) \in Index
         /\ IndexPd(v) \in Index /\ IndexPt(v) \in Index
         /\ v \in KernelPages <=> IndexPml4(v) >= Half
  <1> DEFINE x == (Fanout - 1) * Reach + (Reach - 1)
             y == x * Reach + (Reach - 1)
  <1>1. Fanout - 1 \in Nat /\ Reach - 1 \in Nat /\ (Fanout - 1) * Reach \in Nat /\ x \in Nat
    BY Sizes, SMT
  <1>2. y \in Nat /\ y * Reach \in Nat /\ v \in Nat /\ v <= y * Reach + (Reach - 1)
    <2>1. PageAt(Fanout - 1, Reach - 1, Reach - 1, Reach - 1) = y * Reach + (Reach - 1)
      BY DEF PageAt
    <2> HIDE DEF x
    <2>2. y \in Nat
      BY <1>1, Sizes
    <2> HIDE DEF y
    <2>3. y * Reach \in Nat
      BY <2>2, Sizes
    <2> QED
      BY <1>1, <2>1, <2>2, <2>3, Sizes DEF VirtualPages
  <1>3. IndexPml4(v) <= Fanout - 1
    <2> SUFFICES ASSUME Fanout - 1 < IndexPml4(v) PROVE FALSE
      BY <1>1, <1>2, Quotients
    <2>1. x < v \div (Reach * Reach)
      <3>1. IndexPml4(v) \in Nat /\ IndexPdp(v) \in 0 .. Reach - 1
        BY <1>2, Quotients
      <3>2. x < IndexPml4(v) * Reach + IndexPdp(v)
        BY <1>1, <3>1, Later
      <3> QED
        BY <1>2, <3>2, Quotients
    <2> HIDE DEF x
    <2>2. y < v \div Reach
      <3>1. v \div (Reach * Reach) \in Nat /\ IndexPd(v) \in 0 .. Reach - 1
        BY <1>2, Quotients
      <3>2. y < (v \div (Reach * Reach)) * Reach + IndexPd(v)
        BY <1>1, <2>1, <3>1, Later
      <3> QED
        BY <1>2, <3>2, Quotients
    <2> HIDE DEF y
    <2>3. y * Reach + (Reach - 1) < v
      <3>1. v \div Reach \in Nat /\ IndexPt(v) \in 0 .. Reach - 1
        BY <1>2, Quotients
      <3>2. y * Reach + (Reach - 1) < (v \div Reach) * Reach + IndexPt(v)
        BY <1>2, <2>2, <3>1, Later
      <3> QED
        BY <1>2, <3>2, Quotients
    <2> QED
      BY <1>1, <1>2, <2>3
  <1>4. /\ IndexPml4(v) \in Nat /\ IndexPt(v) \in 0 .. Reach - 1
        /\ IndexPd(v) \in 0 .. Reach - 1 /\ IndexPdp(v) \in 0 .. Reach - 1
    BY <1>2, Quotients
  <1>5. \A i \in 0 .. Reach - 1 : i \in Index
    BY Sizes
  <1>6. IndexPml4(v) \in Index
    BY <1>3, <1>4, Sizes
  <1>7. v \in KernelPages <=> IndexPml4(v) >= Half
    BY DEF KernelPages, Half
  <1> QED
    BY <1>2, <1>4, <1>5, <1>6, <1>7

LEMMA PlacesDiffer ==
  ASSUME NEW v \in Nat, NEW w \in Nat,
         IndexPml4(v) = IndexPml4(w), IndexPdp(v) = IndexPdp(w),
         IndexPd(v) = IndexPd(w), IndexPt(v) = IndexPt(w)
  PROVE  v = w
  <1>1. /\ v = (v \div Reach) * Reach + IndexPt(v)
        /\ v \div Reach = (v \div (Reach * Reach)) * Reach + IndexPd(v)
        /\ v \div (Reach * Reach) = IndexPml4(v) * Reach + IndexPdp(v)
    BY Quotients, Zenon
  <1>2. /\ w = (w \div Reach) * Reach + IndexPt(w)
        /\ w \div Reach = (w \div (Reach * Reach)) * Reach + IndexPd(w)
        /\ w \div (Reach * Reach) = IndexPml4(w) * Reach + IndexPdp(w)
    BY Quotients, Zenon
  <1>3. v \div (Reach * Reach) = w \div (Reach * Reach)
    BY <1>1, <1>2, Zenon
  <1>4. v \div Reach = w \div Reach
    BY <1>1, <1>2, <1>3, Zenon
  <1> QED
    BY <1>1, <1>2, <1>4, Zenon

-----------------------------------------------------------------------------
(* The tree of tables. A home says where in the tree a frame is: whose     *)
(* tables it belongs to (0 for those of the kernel, which every space      *)
(* shows), how deep it lies and the indices on the way there. Frames that  *)
(* hold data are at depth 4.                                               *)

Home == [owner : Nat, depth : 0 .. 4, a : Index, b : Index, c : Index]

DataHome == [owner |-> 0, depth |-> 4, a |-> 0, b |-> 0, c |-> 0]

ChildHome(home, i) ==
  [owner |-> IF home.depth = 0 /\ i >= Half THEN 0 ELSE home.owner,
   depth |-> home.depth + 1,
   a |-> IF home.depth = 0 THEN i ELSE home.a,
   b |-> IF home.depth = 1 THEN i ELSE home.b,
   c |-> IF home.depth = 2 THEN i ELSE home.c]

IsTable(e) == e.leads = "table"

TableIn(h, n, home, i, e) ==
  /\ e = Entry("table", e.frame, 0, FALSE) /\ e.frame \in 1 .. n - 1
  /\ home.depth <= 2 /\ h[e.frame] = ChildHome(home, i)

MapsData(h, n, e) ==
  e = Entry("page", e.frame, 1, TRUE) /\ e.frame \in 1 .. n - 1 /\ h[e.frame].depth = 4

EntryOK(h, n, home, i, e) ==
  \/ e = Absent
  \/ TableIn(h, n, home, i, e)
  \/ MapsData(h, n, e) /\ home.depth = 3
  \/ e = Entry("page", 0, Reach * Reach, FALSE) /\ home.depth = 1

MemoryType == [Frames -> [Index -> EntryType]]

Entries(h, m, n) ==
  \A f \in 1 .. n - 1 : h[f].depth < 4 => \A i \in Index : EntryOK(h, n, h[f], i, m[f][i])

Shared(m, S) == \A r \in S : \A i \in Half .. Fanout - 1 : m[r][i] = m[BootRoot][i]

(* The tables of the spaces S, in memory m of which the frames below n are *)
(* given out.                                                              *)
Tree(h, m, n, S) ==
  /\ m \in MemoryType
  /\ n \in 4 .. FrameCount + Excess + 1
  /\ h \in [1 .. n - 1 -> Home]
  /\ S \subseteq 1 .. n - 1 /\ BootRoot \in S
  /\ \A r \in S : h[r].depth = 0 /\ h[r].owner = r /\ h[r].b = 0 /\ h[r].c = 0
  /\ Entries(h, m, n)
  /\ Shared(m, S)

-----------------------------------------------------------------------------
(* The entries that the walk of a page reads. *)

First(m, r, v) == m[r][IndexPml4(v)]
Second(m, r, v) == m[First(m, r, v).frame][IndexPdp(v)]
Third(m, r, v) == m[Second(m, r, v).frame][IndexPd(v)]
Fourth(m, r, v) == m[Third(m, r, v).frame][IndexPt(v)]

LEMMA EndOfWalkIs ==
  ASSUME NEW m, NEW r, NEW v
  PROVE  /\ ~IsTable(First(m, r, v)) => EndOfWalk(m, r, v) = First(m, r, v)
         /\ IsTable(First(m, r, v)) /\ ~IsTable(Second(m, r, v)) =>
              EndOfWalk(m, r, v) = Second(m, r, v)
         /\ IsTable(First(m, r, v)) /\ IsTable(Second(m, r, v)) /\ ~IsTable(Third(m, r, v)) =>
              EndOfWalk(m, r, v) = Third(m, r, v)
         /\ IsTable(First(m, r, v)) /\ IsTable(Second(m, r, v)) /\ IsTable(Third(m, r, v)) =>
              EndOfWalk(m, r, v) = Fourth(m, r, v)
  BY Zenon DEF EndOfWalk, IsTable, First, Second, Third, Fourth

OwnerOf(r, v) == IF v \in KernelPages THEN 0 ELSE r

(* The table of home is on the way of page v in space r.                   *)
OnWay(home, r, v) ==
  /\ home.owner = OwnerOf(r, v)
  /\ home.a = IndexPml4(v)
  /\ home.depth >= 2 => home.b = IndexPdp(v)
  /\ home.depth >= 3 => home.c = IndexPd(v)

LEMMA EntryLeads ==
  ASSUME NEW h, NEW n, NEW home, NEW i, NEW e, EntryOK(h, n, home, i, e)
  PROVE  /\ IsTable(e) => TableIn(h, n, home, i, e)
         /\ e.leads = "nowhere" => e = Absent
  BY DEF EntryOK, IsTable, TableIn, MapsData, Entry, Absent

LEMMA WalkStarts ==
  ASSUME NEW h, NEW m, NEW n, NEW S, Tree(h, m, n, S), NEW r \in S, NEW v \in VirtualPages,
         IsTable(First(m, r, v))
  PROVE  LET g == First(m, r, v).frame
         IN  g \in 1 .. n - 1 /\ h[g].depth = 1 /\ OnWay(h[g], r, v)
  <1> DEFINE g == First(m, r, v).frame
             i == IndexPml4(v)
  <1>1. r \in 1 .. n - 1 /\ h[r].depth = 0 /\ h[r].owner = r /\ i \in Index
    BY PlaceOfPage DEF Tree
  <1>2. TableIn(h, n, h[r], i, First(m, r, v))
    <2>1. EntryOK(h, n, h[r], i, First(m, r, v))
      BY <1>1 DEF Tree, Entries, First
    <2> QED
      BY <2>1, EntryLeads
  <1>3. g \in 1 .. n - 1 /\ h[g] = ChildHome(h[r], i)
    BY <1>2 DEF TableIn
  <1>4. h[g].depth = 1 /\ h[g].a = i /\ h[g].owner = IF i >= Half THEN 0 ELSE r
    BY <1>1, <1>3 DEF ChildHome
  <1>5. h[g].owner = OwnerOf(r, v)
    BY <1>4, PlaceOfPage DEF OwnerOf
  <1> HIDE DEF g
  <1>6. OnWay(h[g], r, v)
    BY <1>4, <1>5 DEF OnWay
  <1> QED
    BY <1>3, <1>4, <1>6 DEF g

(* The next table on the way, from a table that is on the way.             *)
LEMMA WalkGoesOn ==
  ASSUME NEW h, NEW m, NEW n, NEW S, Tree(h, m, n, S), NEW r, NEW v \in VirtualPages,
         NEW f \in 1 .. n - 1, NEW i, h[f].depth \in 1 .. 2, OnWay(h[f], r, v),
         i = IF h[f].depth = 1 THEN IndexPdp(v) ELSE IndexPd(v),
         IsTable(m[f][i])
  PROVE  LET g == m[f][i].frame
         IN  g \in 1 .. n - 1 /\ h[g].depth = h[f].depth + 1 /\ OnWay(h[g], r, v)
  <1> DEFINE g == m[f][i].frame
  <1>1. i \in Index
    BY PlaceOfPage
  <1>2. TableIn(h, n, h[f], i, m[f][i])
    <2>1. EntryOK(h, n, h[f], i, m[f][i])
      BY <1>1 DEF Tree, Entries
    <2> QED
      BY <2>1, EntryLeads
  <1>3. g \in 1 .. n - 1 /\ h[g] = ChildHome(h[f], i)
    BY <1>2 DEF TableIn
  <1> HIDE DEF g
  <1>4. /\ h[g].depth = h[f].depth + 1 /\ h[g].owner = h[f].owner /\ h[g].a = h[f].a
        /\ h[f].depth = 1 => h[g].b = i
        /\ h[f].depth = 2 => h[g].b = h[f].b /\ h[g].c = i
    BY <1>3 DEF ChildHome
  <1>5. OnWay(h[g], r, v)
    BY <1>4 DEF OnWay
  <1> QED
    BY <1>3, <1>4, <1>5 DEF g

LEMMA WalkHomes ==
  ASSUME NEW h, NEW m, NEW n, NEW S, Tree(h, m, n, S), NEW r \in S, NEW v \in VirtualPages
  PROVE  LET one == First(m, r, v).frame
             two == Second(m, r, v).frame
             three == Third(m, r, v).frame
         IN  IsTable(First(m, r, v)) =>
               /\ one \in 1 .. n - 1 /\ h[one].depth = 1 /\ OnWay(h[one], r, v)
               /\ IsTable(Second(m, r, v)) =>
                    /\ two \in 1 .. n - 1 /\ h[two].depth = 2 /\ OnWay(h[two], r, v)
                    /\ IsTable(Third(m, r, v)) =>
                         three \in 1 .. n - 1 /\ h[three].depth = 3 /\ OnWay(h[three], r, v)
  <1> DEFINE one == First(m, r, v).frame
             two == Second(m, r, v).frame
             three == Third(m, r, v).frame
  <1>1. ASSUME IsTable(First(m, r, v))
        PROVE  one \in 1 .. n - 1 /\ h[one].depth = 1 /\ OnWay(h[one], r, v)
    BY <1>1, WalkStarts
  <1>2. ASSUME IsTable(First(m, r, v)), IsTable(Second(m, r, v))
        PROVE  two \in 1 .. n - 1 /\ h[two].depth = 2 /\ OnWay(h[two], r, v)
    <2>1. m[one][IndexPdp(v)] = Second(m, r, v)
      BY DEF Second
    <2> HIDE DEF one
    <2> QED
      BY <1>1, <1>2, <2>1, WalkGoesOn
  <1>3. ASSUME IsTable(First(m, r, v)), IsTable(Second(m, r, v)), IsTable(Third(m, r, v))
        PROVE  three \in 1 .. n - 1 /\ h[three].depth = 3 /\ OnWay(h[three], r, v)
    <2>1. m[two][IndexPd(v)] = Third(m, r, v)
      BY DEF Third
    <2> HIDE DEF two
    <2> QED
      BY <1>2, <1>3, <2>1, WalkGoesOn
  <1> QED
    BY <1>1, <1>2, <1>3

-----------------------------------------------------------------------------
(* Writing an entry. *)

Written(m, f, i, e) == [m EXCEPT ![f][i] = e]

LEMMA UpdateEntry ==
  ASSUME NEW m \in MemoryType, NEW f \in Frames, NEW i \in Index, NEW e \in EntryType
  PROVE  /\ Written(m, f, i, e) \in MemoryType
         /\ Written(m, f, i, e)[f][i] = e
         /\ \A g \in Frames : \A j \in Index :
              ~(g = f /\ j = i) => Written(m, f, i, e)[g][j] = m[g][j]
  BY DEF MemoryType, Written

LEMMA GivenFrames ==
  ASSUME NEW h, NEW m, NEW n, NEW S, Tree(h, m, n, S)
  PROVE  /\ m \in MemoryType /\ n \in Nat \ {0} /\ n >= 4 /\ n \notin 1 .. n - 1
         /\ 1 .. n - 1 \subseteq Frames /\ S \subseteq Frames
         /\ \A f \in 1 .. n - 1 : f \in Frames /\ f # n
         /\ \A r \in S : r \in 1 .. n - 1
  <1>1. n \in 4 .. FrameCount + Excess + 1 /\ m \in MemoryType /\ S \subseteq 1 .. n - 1
    BY DEF Tree
  <1>2. \A f \in 1 .. n - 1 : f \in Frames /\ f # n
    BY <1>1, SizeAssumption DEF Frames
  <1>3. n \in Nat \ {0} /\ n >= 4 /\ n \notin 1 .. n - 1
    BY <1>1, SizeAssumption
  <1> QED
    BY <1>1, <1>2, <1>3

Reaches(m, r, v, f) ==
  IsTable(First(m, r, v)) /\ IsTable(Second(m, r, v)) /\ IsTable(Third(m, r, v))
  /\ Third(m, r, v).frame = f

(* An entry of a page table is written: the walks that end there see it,   *)
(* and no others do.                                                       *)
LEMMA LeafWalks ==
  ASSUME NEW h, NEW m, NEW n, NEW S, Tree(h, m, n, S),
         NEW f \in 1 .. n - 1, h[f].depth = 3, NEW i \in Index, NEW e \in EntryType,
         NEW m2, m2 = Written(m, f, i, e),
         NEW r \in S, NEW v \in VirtualPages
  PROVE  /\ First(m2, r, v) = First(m, r, v)
         /\ EndOfWalk(m2, r, v) =
              IF Reaches(m, r, v, f) /\ IndexPt(v) = i THEN e ELSE EndOfWalk(m, r, v)
  <1>1. /\ IndexPml4(v) \in Index /\ IndexPdp(v) \in Index
        /\ IndexPd(v) \in Index /\ IndexPt(v) \in Index
    BY PlaceOfPage
  <1>2. \A g \in 1 .. n - 1 : \A j \in Index : m2[g][j] = IF g = f /\ j = i THEN e ELSE m[g][j]
    BY GivenFrames, UpdateEntry
  <1>3. r \in 1 .. n - 1 /\ r # f
    BY DEF Tree
  <1>4. First(m2, r, v) = First(m, r, v)
    BY <1>1, <1>2, <1>3 DEF First
  <1>5. CASE ~IsTable(First(m, r, v))
    BY <1>4, <1>5, EndOfWalkIs DEF Reaches
  <1>6. CASE IsTable(First(m, r, v))
    <2> DEFINE one == First(m, r, v).frame
    <2>1. one \in 1 .. n - 1 /\ one # f
      BY <1>6, WalkHomes
    <2> HIDE DEF one
    <2>2. Second(m2, r, v) = Second(m, r, v)
      <3>1. Second(m2, r, v) = m2[one][IndexPdp(v)] /\ Second(m, r, v) = m[one][IndexPdp(v)]
        BY <1>4 DEF Second, one
      <3> QED
        BY <1>1, <1>2, <2>1, <3>1
    <2>3. CASE ~IsTable(Second(m, r, v))
      BY <1>4, <1>6, <2>2, <2>3, EndOfWalkIs DEF Reaches
    <2>4. CASE IsTable(Second(m, r, v))
      <3> DEFINE two == Second(m, r, v).frame
      <3>1. two \in 1 .. n - 1 /\ two # f
        BY <1>6, <2>4, WalkHomes
      <3> HIDE DEF two
      <3>2. Third(m2, r, v) = Third(m, r, v)
        <4>1. Third(m2, r, v) = m2[two][IndexPd(v)] /\ Third(m, r, v) = m[two][IndexPd(v)]
          BY <2>2 DEF Third, two
        <4> QED
          BY <1>1, <1>2, <3>1, <4>1
      <3>3. CASE ~IsTable(Third(m, r, v))
        BY <1>4, <1>6, <2>2, <2>4, <3>2, <3>3, EndOfWalkIs DEF Reaches
      <3>4. CASE IsTable(Third(m, r, v))
        <4> DEFINE three == Third(m, r, v).frame
        <4>1. three \in 1 .. n - 1
          BY <1>6, <2>4, <3>4, WalkHomes
        <4> HIDE DEF three
        <4>2. /\ Fourth(m2, r, v) = m2[three][IndexPt(v)]
              /\ Fourth(m, r, v) = m[three][IndexPt(v)]
          BY <3>2 DEF Fourth, three
        <4>3. Fourth(m2, r, v) = IF three = f /\ IndexPt(v) = i THEN e ELSE Fourth(m, r, v)
          BY <1>1, <1>2, <4>1, <4>2
        <4>4. Reaches(m, r, v, f) <=> three = f
          BY <1>6, <2>4, <3>4 DEF Reaches, three
        <4>5. EndOfWalk(m2, r, v) = Fourth(m2, r, v) /\ EndOfWalk(m, r, v) = Fourth(m, r, v)
          BY <1>4, <1>6, <2>2, <2>4, <3>2, <3>4, EndOfWalkIs
        <4> QED
          BY <1>4, <4>3, <4>4, <4>5
      <3> QED
        BY <3>3, <3>4
    <2> QED
      BY <2>3, <2>4
  <1> QED
    BY <1>5, <1>6

LEMMA LeafTree ==
  ASSUME NEW h, NEW m, NEW n, NEW S, Tree(h, m, n, S),
         NEW f \in 1 .. n - 1, h[f].depth = 3, NEW i \in Index, NEW e \in EntryType,
         NEW m2, m2 = Written(m, f, i, e),
         e = Absent \/ MapsData(h, n, e)
  PROVE  Tree(h, m2, n, S)
  <1>1. /\ m2 \in MemoryType
        /\ \A g \in 1 .. n - 1 : \A j \in Index : m2[g][j] = IF g = f /\ j = i THEN e ELSE m[g][j]
    <2>1. m \in MemoryType /\ f \in Frames /\ 1 .. n - 1 \subseteq Frames
      BY GivenFrames
    <2>2. m2 \in MemoryType
      BY <2>1, UpdateEntry
    <2>3. \A g \in Frames : \A j \in Index : m2[g][j] = IF g = f /\ j = i THEN e ELSE m[g][j]
      BY <2>1, UpdateEntry
    <2> QED
      BY <2>1, <2>2, <2>3
  <1>2. Entries(h, m2, n)
    <2> SUFFICES ASSUME NEW g \in 1 .. n - 1, h[g].depth < 4, NEW j \in Index
                 PROVE  EntryOK(h, n, h[g], j, m2[g][j])
      BY DEF Entries
    <2>1. CASE g = f /\ j = i
      BY <1>1, <2>1 DEF EntryOK
    <2>2. CASE ~(g = f /\ j = i)
      <3>1. m2[g][j] = m[g][j]
        BY <1>1, <2>2
      <3> QED
        BY <3>1 DEF Tree, Entries
    <2> QED
      BY <2>1, <2>2
  <1>3. Shared(m2, S)
    <2> SUFFICES ASSUME NEW r \in S, NEW j \in Half .. Fanout - 1 PROVE m2[r][j] = m2[BootRoot][j]
      BY DEF Shared
    <2>1. j \in Index
      BY Sizes
    <2>2. r \in 1 .. n - 1 /\ r # f /\ BootRoot \in 1 .. n - 1 /\ BootRoot # f
      BY DEF Tree
    <2>3. m[r][j] = m[BootRoot][j]
      BY DEF Tree, Shared
    <2> QED
      BY <1>1, <2>1, <2>2, <2>3
  <1> QED
    BY <1>1, <1>2, <1>3 DEF Tree

(* The walk of another page, or of the same page in another space unless   *)
(* the page is the kernel's, ends in another entry.                        *)
LEMMA SameEntry ==
  ASSUME NEW h, NEW m, NEW n, NEW S, Tree(h, m, n, S), NEW f, NEW r \in S, NEW q \in S,
         NEW v \in VirtualPages, NEW w \in VirtualPages, Reaches(m, r, v, f)
  PROVE  Reaches(m, q, w, f) /\ IndexPt(w) = IndexPt(v) <=>
           w = v /\ OwnerOf(q, w) = OwnerOf(r, v)
  <1>1. h[f].depth = 3 /\ OnWay(h[f], r, v)
    BY WalkHomes DEF Reaches
  <1>2. ASSUME Reaches(m, q, w, f), IndexPt(w) = IndexPt(v)
        PROVE  w = v /\ OwnerOf(q, w) = OwnerOf(r, v)
    <2>1. OnWay(h[f], q, w)
      BY <1>2, WalkHomes DEF Reaches
    <2>2. /\ IndexPml4(w) = IndexPml4(v) /\ IndexPdp(w) = IndexPdp(v) /\ IndexPd(w) = IndexPd(v)
          /\ OwnerOf(q, w) = OwnerOf(r, v)
      <3> DEFINE x == h[f]
                 o == OwnerOf(r, v)
                 p == OwnerOf(q, w)
      <3>1. x.depth = 3 /\ OnWay(x, r, v) /\ OnWay(x, q, w)
        BY <1>1, <2>1
      <3>2. /\ x.owner = o /\ x.a = IndexPml4(v) /\ x.b = IndexPdp(v) /\ x.c = IndexPd(v)
            /\ x.owner = p /\ x.a = IndexPml4(w) /\ x.b = IndexPdp(w) /\ x.c = IndexPd(w)
        <4> HIDE DEF x, o, p
        <4> QED
          BY <3>1 DEF OnWay, o, p
      <3> QED
        BY <3>2, Zenon
    <2> QED
      BY <1>2, <2>2, PlaceOfPage, PlacesDiffer
  <1>3. ASSUME w = v, OwnerOf(q, w) = OwnerOf(r, v)
        PROVE  Reaches(m, q, w, f)
    <2>1. First(m, q, v) = First(m, r, v)
      <3>1. CASE v \in KernelPages
        <4>1. IndexPml4(v) \in Half .. Fanout - 1
          BY <3>1, PlaceOfPage, Sizes
        <4> QED
          BY <4>1 DEF First, Tree, Shared
      <3>2. CASE v \notin KernelPages
        BY <1>3, <3>2 DEF OwnerOf
      <3> QED
        BY <3>1, <3>2
    <2> QED
      BY <1>3, <2>1, Zenon DEF Reaches, Second, Third
  <1> QED
    BY <1>2, <1>3

-----------------------------------------------------------------------------
(* A new table behind an entry that leads nowhere: no walk ends elsewhere. *)

NewTable(m, n, f, i) ==
  Written([m EXCEPT ![n] = BlankTable], f, i, ToTable(n))

LEMMA EntryTypes ==
  /\ Absent \in EntryType
  /\ \A f \in Frames : /\ Entry("table", f, 0, FALSE) \in EntryType
                       /\ Entry("page", f, 1, TRUE) \in EntryType
  /\ Entry("page", 0, Reach * Reach, FALSE) \in EntryType
  BY DEF Absent, Entry, EntryType

LEMMA BlankTableIs ==
  /\ BlankTable \in [Index -> EntryType]
  /\ \A j \in Index : BlankTable[j] = Absent
  BY EntryTypes DEF BlankTable

LEMMA NewTableEntries ==
  ASSUME NEW m \in MemoryType, NEW n \in Frames, NEW f \in Frames, NEW i \in Index, f # n
  PROVE  /\ NewTable(m, n, f, i) \in MemoryType
         /\ \A j \in Index : NewTable(m, n, f, i)[n][j] = Absent
         /\ NewTable(m, n, f, i)[f][i] = ToTable(n)
         /\ \A g \in Frames : \A j \in Index :
              g # n /\ ~(g = f /\ j = i) => NewTable(m, n, f, i)[g][j] = m[g][j]
  <1> DEFINE blank == [m EXCEPT ![n] = BlankTable]
             e == ToTable(n)
             m2 == NewTable(m, n, f, i)
  <1>1. /\ blank \in MemoryType
        /\ blank[n] = BlankTable
        /\ \A g \in Frames : g # n => blank[g] = m[g]
    BY BlankTableIs DEF MemoryType
  <1>2. e \in EntryType
    BY EntryTypes, WrittenEntries
  <1>3. m2 = Written(blank, f, i, e)
    BY DEF NewTable
  <1> HIDE DEF blank, e, m2
  <1>4. /\ m2 \in MemoryType /\ m2[f][i] = e
        /\ \A g \in Frames : \A j \in Index : ~(g = f /\ j = i) => m2[g][j] = blank[g][j]
    BY <1>1, <1>2, <1>3, UpdateEntry
  <1>5. \A j \in Index : m2[n][j] = Absent
    BY <1>1, <1>4, BlankTableIs
  <1>6. \A g \in Frames : \A j \in Index : g # n /\ ~(g = f /\ j = i) => m2[g][j] = m[g][j]
    BY <1>1, <1>4
  <1> QED
    BY <1>4, <1>5, <1>6 DEF e, m2

LEMMA NewTableWalks ==
  ASSUME NEW h, NEW m, NEW n, NEW S, Tree(h, m, n, S), n \in Frames,
         NEW f \in 1 .. n - 1, h[f].depth <= 2, NEW i \in Index, m[f][i] = Absent,
         NEW m2, m2 = NewTable(m, n, f, i),
         NEW r \in S, NEW v \in VirtualPages
  PROVE  EndOfWalk(m2, r, v) = EndOfWalk(m, r, v)
  <1> DEFINE New(e) == e.frame = n /\ IsTable(e)
  <1>1. /\ IndexPml4(v) \in Index /\ IndexPdp(v) \in Index
        /\ IndexPd(v) \in Index /\ IndexPt(v) \in Index
    BY PlaceOfPage
  <1>2. ~IsTable(Absent)
    BY DEF Absent, Entry, IsTable
  <1>3. /\ m \in MemoryType /\ f \in Frames /\ f # n /\ n \notin 1 .. n - 1
        /\ r \in 1 .. n - 1 /\ \A g \in 1 .. n - 1 : g \in Frames /\ g # n
    BY GivenFrames
  <1>4. /\ \A j \in Index : m2[n][j] = Absent
        /\ m2[f][i] = ToTable(n)
    BY <1>3, NewTableEntries
  <1>9. \A g \in Frames : \A j \in Index :
          g # n /\ ~(g = f /\ j = i) => m2[g][j] = m[g][j]
    <2>1. \A g \in Frames : \A j \in Index :
            g # n /\ ~(g = f /\ j = i) => NewTable(m, n, f, i)[g][j] = m[g][j]
      BY <1>3, NewTableEntries, SMTT(30)
    <2> QED
      BY <2>1, Zenon
  <1>5. ASSUME NEW g \in 1 .. n - 1, NEW j \in Index
        PROVE  m2[g][j] = m[g][j] \/ (m[g][j] = Absent /\ New(m2[g][j]))
    <2>1. New(m2[f][i])
      BY <1>4, WrittenEntries DEF Entry, IsTable
    <2>2. ~(g = f /\ j = i) => m2[g][j] = m[g][j]
      BY <1>3, <1>9
    <2> QED
      BY <2>1, <2>2
  <1> HIDE DEF New
  <1>6. CASE First(m, r, v) = Absent /\ New(First(m2, r, v))
    <2>1. Second(m2, r, v) = Absent
      BY <1>1, <1>4, <1>6 DEF Second, New
    <2> QED
      BY <1>2, <1>6, <2>1, EndOfWalkIs DEF New
  <1>7. CASE First(m2, r, v) = First(m, r, v) /\ ~IsTable(First(m, r, v))
    BY <1>7, EndOfWalkIs
  <1>8. CASE First(m2, r, v) = First(m, r, v) /\ IsTable(First(m, r, v))
    <2> DEFINE one == First(m, r, v).frame
    <2>1. one \in 1 .. n - 1
      BY <1>8, WalkHomes
    <2>2. Second(m2, r, v) = m2[one][IndexPdp(v)] /\ Second(m, r, v) = m[one][IndexPdp(v)]
      BY <1>8 DEF Second
    <2> HIDE DEF one
    <2>3. CASE Second(m, r, v) = Absent /\ New(Second(m2, r, v))
      <3>1. Third(m2, r, v) = Absent
        BY <1>1, <1>4, <2>3 DEF Third, New
      <3> QED
        BY <1>2, <1>8, <2>3, <3>1, EndOfWalkIs DEF New
    <2>4. CASE Second(m2, r, v) = Second(m, r, v) /\ ~IsTable(Second(m, r, v))
      BY <1>8, <2>4, EndOfWalkIs
    <2>5. CASE Second(m2, r, v) = Second(m, r, v) /\ IsTable(Second(m, r, v))
      <3> DEFINE two == Second(m, r, v).frame
      <3>1. two \in 1 .. n - 1
        BY <1>8, <2>5, WalkHomes
      <3>2. Third(m2, r, v) = m2[two][IndexPd(v)] /\ Third(m, r, v) = m[two][IndexPd(v)]
        BY <2>5 DEF Third
      <3> HIDE DEF two
      <3>3. CASE Third(m, r, v) = Absent /\ New(Third(m2, r, v))
        <4>1. Fourth(m2, r, v) = Absent
          BY <1>1, <1>4, <3>3 DEF Fourth, New
        <4> QED
          BY <1>2, <1>8, <2>5, <3>3, <4>1, EndOfWalkIs DEF New
      <3>4. CASE Third(m2, r, v) = Third(m, r, v) /\ ~IsTable(Third(m, r, v))
        BY <1>8, <2>5, <3>4, EndOfWalkIs
      <3>5. CASE Third(m2, r, v) = Third(m, r, v) /\ IsTable(Third(m, r, v))
        <4> DEFINE three == Third(m, r, v).frame
        <4>1. three \in 1 .. n - 1 /\ three # f
          BY <1>8, <2>5, <3>5, WalkHomes
        <4>2. /\ Fourth(m2, r, v) = m2[three][IndexPt(v)]
              /\ Fourth(m, r, v) = m[three][IndexPt(v)]
          BY <3>5 DEF Fourth
        <4> HIDE DEF three
        <4>3. Fourth(m2, r, v) = Fourth(m, r, v)
          BY <1>1, <1>3, <1>9, <4>1, <4>2
        <4> QED
          BY <1>8, <2>5, <3>5, <4>3, EndOfWalkIs
      <3> QED
        BY <1>1, <1>5, <3>1, <3>2, <3>3, <3>4, <3>5
    <2> QED
      BY <1>1, <1>5, <2>1, <2>2, <2>3, <2>4, <2>5
  <1> QED
    BY <1>1, <1>3, <1>5, <1>6, <1>7, <1>8 DEF First

(* The homes of the frames that were given out stay.                       *)
Extends(h2, h, n) == \A f \in 1 .. n - 1 : h2[f] = h[f]

LEMMA ExtendedEntry ==
  ASSUME NEW h, NEW h2, NEW n \in Nat, NEW n2 \in Nat, n <= n2, Extends(h2, h, n),
         NEW home, NEW i, NEW e, EntryOK(h, n, home, i, e)
  PROVE  EntryOK(h2, n2, home, i, e)
  <1>1. ASSUME e.frame \in 1 .. n - 1
        PROVE  e.frame \in 1 .. n2 - 1 /\ h2[e.frame] = h[e.frame]
    BY <1>1 DEF Extends
  <1>2. TableIn(h, n, home, i, e) => TableIn(h2, n2, home, i, e)
    BY <1>1 DEF TableIn
  <1>3. MapsData(h, n, e) => MapsData(h2, n2, e)
    BY <1>1 DEF MapsData
  <1> QED
    BY <1>2, <1>3 DEF EntryOK

(* One more frame is given out, of any home.                               *)
LEMMA OneMoreHome ==
  ASSUME NEW h, NEW n \in Nat \ {0}, h \in [1 .. n - 1 -> Home], NEW home \in Home,
         NEW h2, h2 = [f \in 1 .. n |-> IF f = n THEN home ELSE h[f]]
  PROVE  /\ h2 \in [1 .. (n + 1) - 1 -> Home] /\ h2[n] = home /\ Extends(h2, h, n)
         /\ 1 .. (n + 1) - 1 = (1 .. n - 1) \cup {n}
  BY DEF Extends

LEMMA ChildHomeType ==
  ASSUME NEW home \in Home, home.depth <= 2, NEW i \in Index
  PROVE  ChildHome(home, i) \in Home
  BY DEF ChildHome, Home

LEMMA NewTableTree ==
  ASSUME NEW h, NEW m, NEW n, NEW S, Tree(h, m, n, S), n \in Frames,
         NEW f \in 1 .. n - 1, h[f].depth <= 2, NEW i \in Index, m[f][i] = Absent,
         f \in S /\ i >= Half => S = {f},
         NEW m2, m2 = NewTable(m, n, f, i)
  PROVE  \E h2 : Tree(h2, m2, n + 1, S) /\ Extends(h2, h, n) /\ h2[n] = ChildHome(h[f], i)
  <1> DEFINE home == ChildHome(h[f], i)
             h2 == [g \in 1 .. n |-> IF g = n THEN home ELSE h[g]]
  <1>1. /\ m \in MemoryType /\ f \in Frames /\ f # n
        /\ n \in Nat \ {0} /\ n >= 4 /\ h \in [1 .. n - 1 -> Home]
        /\ \A g \in 1 .. n - 1 : g \in Frames /\ g # n
    <2>1. h \in [1 .. n - 1 -> Home]
      BY DEF Tree
    <2> QED
      BY <2>1, GivenFrames
  <1>2. h[f] \in Home /\ home \in Home
    BY <1>1, ChildHomeType
  <1> HIDE DEF home
  <1>3. /\ h2 \in [1 .. (n + 1) - 1 -> Home] /\ h2[n] = home /\ Extends(h2, h, n)
        /\ 1 .. (n + 1) - 1 = (1 .. n - 1) \cup {n}
    BY <1>1, <1>2, OneMoreHome
  <1> HIDE DEF h2
  <1>4. /\ m2 \in MemoryType
        /\ \A j \in Index : m2[n][j] = Absent
        /\ m2[f][i] = ToTable(n)
        /\ \A g \in Frames : \A j \in Index : g # n /\ ~(g = f /\ j = i) => m2[g][j] = m[g][j]
    <2>1. m \in MemoryType /\ f \in Frames /\ f # n
      BY <1>1
    <2> QED
      BY <2>1, NewTableEntries
  <1>5. \A g \in 1 .. n - 1 : \A j \in Index : ~(g = f /\ j = i) => m2[g][j] = m[g][j]
    BY <1>1, <1>4
  <1>6. Entries(h2, m2, n + 1)
    <2> SUFFICES ASSUME NEW g \in 1 .. (n + 1) - 1, h2[g].depth < 4, NEW j \in Index
                 PROVE  EntryOK(h2, n + 1, h2[g], j, m2[g][j])
      BY DEF Entries
    <2>1. CASE g = n
      BY <1>4, <2>1 DEF EntryOK
    <2>2. CASE g = f /\ j = i
      <3>1. h2[f] = h[f]
        BY <1>3 DEF Extends
      <3>2. TableIn(h2, n + 1, h[f], i, ToTable(n))
        BY <1>1, <1>3, <3>1, WrittenEntries DEF TableIn, Entry, home
      <3> QED
        BY <1>4, <2>2, <3>1, <3>2 DEF EntryOK
    <2>3. CASE g \in 1 .. n - 1 /\ ~(g = f /\ j = i)
      <3>1. h2[g] = h[g] /\ m2[g][j] = m[g][j]
        BY <1>3, <1>5, <2>3 DEF Extends
      <3>2. EntryOK(h, n, h[g], j, m[g][j])
        BY <2>3, <3>1 DEF Tree, Entries
      <3>3. EntryOK(h2, n + 1, h[g], j, m[g][j])
        <4>1. n \in Nat /\ n + 1 \in Nat /\ n <= n + 1
          BY <1>1
        <4> QED
          BY <1>3, <3>2, <4>1, ExtendedEntry
      <3> QED
        BY <3>1, <3>3
    <2> QED
      BY <1>3, <2>1, <2>2, <2>3
  <1>7. Shared(m2, S)
    <2> SUFFICES ASSUME NEW r \in S, NEW j \in Half .. Fanout - 1, r # BootRoot
                 PROVE  m2[r][j] = m2[BootRoot][j]
      BY DEF Shared
    <2>1. j \in Index /\ r \in 1 .. n - 1 /\ BootRoot \in 1 .. n - 1 /\ BootRoot \in S
      BY Sizes DEF Tree
    <2>2. ~(r = f /\ j = i) /\ ~(BootRoot = f /\ j = i)
      BY <2>1
    <2>3. m2[r][j] = m[r][j] /\ m2[BootRoot][j] = m[BootRoot][j]
      BY <1>5, <2>1, <2>2
    <2>4. m[r][j] = m[BootRoot][j]
      BY DEF Tree, Shared
    <2> QED
      BY <2>3, <2>4
  <1>8. /\ \A r \in S : h2[r].depth = 0 /\ h2[r].owner = r /\ h2[r].b = 0 /\ h2[r].c = 0
        /\ S \subseteq 1 .. n - 1
    <2> SUFFICES ASSUME NEW r \in S
                 PROVE  /\ h2[r].depth = 0 /\ h2[r].owner = r /\ h2[r].b = 0 /\ h2[r].c = 0
                        /\ r \in 1 .. n - 1
      OBVIOUS
    <2>1. r \in 1 .. n - 1 /\ h[r].depth = 0 /\ h[r].owner = r /\ h[r].b = 0 /\ h[r].c = 0
      BY DEF Tree
    <2> QED
      BY <1>3, <2>1 DEF Extends
  <1>9. n + 1 \in 4 .. FrameCount + Excess + 1
    BY <1>1, SizeAssumption DEF Frames
  <1>10. BootRoot \in S
    BY DEF Tree
  <1>11. Tree(h2, m2, n + 1, S)
    BY <1>3, <1>4, <1>6, <1>7, <1>8, <1>9, <1>10 DEF Tree
  <1> QED
    BY <1>3, <1>11 DEF home

-----------------------------------------------------------------------------
(* A frame is given out that is no new table: one for data, or the top     *)
(* level of a new space.                                                   *)

LEMMA SameWalks ==
  ASSUME NEW h, NEW m, NEW n, NEW S, Tree(h, m, n, S),
         NEW m2, \A g \in 1 .. n - 1 : m2[g] = m[g],
         NEW r \in S, NEW v \in VirtualPages
  PROVE  First(m2, r, v) = First(m, r, v) /\ EndOfWalk(m2, r, v) = EndOfWalk(m, r, v)
  <1>1. First(m2, r, v) = First(m, r, v)
    BY DEF First, Tree
  <1>2. IsTable(First(m, r, v)) => Second(m2, r, v) = Second(m, r, v)
    BY <1>1, WalkHomes DEF Second
  <1>3. IsTable(First(m, r, v)) /\ IsTable(Second(m, r, v)) => Third(m2, r, v) = Third(m, r, v)
    BY <1>2, WalkHomes DEF Third
  <1>4. IsTable(First(m, r, v)) /\ IsTable(Second(m, r, v)) /\ IsTable(Third(m, r, v)) =>
          Fourth(m2, r, v) = Fourth(m, r, v)
    BY <1>2, <1>3, WalkHomes DEF Fourth
  <1>5. CASE ~IsTable(First(m, r, v))
    BY <1>1, <1>5, EndOfWalkIs
  <1>6. CASE IsTable(First(m, r, v)) /\ ~IsTable(Second(m, r, v))
    BY <1>1, <1>2, <1>6, EndOfWalkIs
  <1>7. CASE IsTable(First(m, r, v)) /\ IsTable(Second(m, r, v)) /\ ~IsTable(Third(m, r, v))
    BY <1>1, <1>2, <1>3, <1>7, EndOfWalkIs
  <1>8. CASE IsTable(First(m, r, v)) /\ IsTable(Second(m, r, v)) /\ IsTable(Third(m, r, v))
    BY <1>1, <1>2, <1>3, <1>4, <1>8, EndOfWalkIs
  <1> QED
    BY <1>1, <1>5, <1>6, <1>7, <1>8

LEMMA OneMoreFrame ==
  ASSUME NEW h, NEW m, NEW n, NEW S, Tree(h, m, n, S), n \in Frames,
         NEW home \in Home, NEW m2 \in MemoryType, \A g \in 1 .. n - 1 : m2[g] = m[g],
         home.depth < 4 => \A j \in Index : EntryOK(h, n, home, j, m2[n][j])
  PROVE  \E h2 : Tree(h2, m2, n + 1, S) /\ Extends(h2, h, n) /\ h2[n] = home
  <1> DEFINE h2 == [g \in 1 .. n |-> IF g = n THEN home ELSE h[g]]
  <1>1. /\ n \in Nat \ {0} /\ n >= 4 /\ h \in [1 .. n - 1 -> Home]
        /\ n + 1 \in Nat /\ n <= n + 1
    <2>1. h \in [1 .. n - 1 -> Home]
      BY DEF Tree
    <2> QED
      BY <2>1, GivenFrames
  <1>2. /\ h2 \in [1 .. (n + 1) - 1 -> Home] /\ h2[n] = home /\ Extends(h2, h, n)
        /\ 1 .. (n + 1) - 1 = (1 .. n - 1) \cup {n}
    BY <1>1, OneMoreHome
  <1> HIDE DEF h2
  <1>3. Entries(h2, m2, n + 1)
    <2> SUFFICES ASSUME NEW g \in 1 .. (n + 1) - 1, h2[g].depth < 4, NEW j \in Index
                 PROVE  EntryOK(h2, n + 1, h2[g], j, m2[g][j])
      BY DEF Entries
    <2>1. CASE g = n
      <3>1. EntryOK(h, n, home, j, m2[n][j])
        BY <1>2, <2>1
      <3>2. EntryOK(h2, n + 1, home, j, m2[n][j])
        BY <1>1, <1>2, <3>1, ExtendedEntry
      <3> QED
        BY <1>2, <2>1, <3>2
    <2>2. CASE g \in 1 .. n - 1
      <3>1. h2[g] = h[g] /\ m2[g] = m[g]
        BY <1>2, <2>2 DEF Extends
      <3>2. EntryOK(h, n, h[g], j, m[g][j])
        BY <2>2, <3>1 DEF Tree, Entries
      <3>3. EntryOK(h2, n + 1, h[g], j, m[g][j])
        BY <1>1, <1>2, <3>2, ExtendedEntry
      <3> QED
        BY <3>1, <3>3
    <2> QED
      BY <1>2, <2>1, <2>2
  <1>4. Shared(m2, S)
    <2> SUFFICES ASSUME NEW r \in S, NEW j \in Half .. Fanout - 1 PROVE m2[r][j] = m2[BootRoot][j]
      BY DEF Shared
    <2>1. r \in 1 .. n - 1 /\ BootRoot \in 1 .. n - 1 /\ m[r][j] = m[BootRoot][j]
      BY DEF Tree, Shared
    <2> QED
      BY <2>1
  <1>5. /\ \A r \in S : h2[r].depth = 0 /\ h2[r].owner = r /\ h2[r].b = 0 /\ h2[r].c = 0
        /\ S \subseteq 1 .. n - 1
    <2> SUFFICES ASSUME NEW r \in S
                 PROVE  /\ h2[r].depth = 0 /\ h2[r].owner = r /\ h2[r].b = 0 /\ h2[r].c = 0
                        /\ r \in 1 .. n - 1
      OBVIOUS
    <2>1. r \in 1 .. n - 1 /\ h[r].depth = 0 /\ h[r].owner = r /\ h[r].b = 0 /\ h[r].c = 0
      BY DEF Tree
    <2> QED
      BY <1>2, <2>1 DEF Extends
  <1>6. n + 1 \in 4 .. FrameCount + Excess + 1
    BY <1>1, SizeAssumption DEF Frames
  <1>7. BootRoot \in S
    BY DEF Tree
  <1>8. Tree(h2, m2, n + 1, S)
    BY <1>2, <1>3, <1>4, <1>5, <1>6, <1>7 DEF Tree
  <1> QED
    BY <1>2, <1>8

LEMMA DataTree ==
  ASSUME NEW h, NEW m, NEW n, NEW S, Tree(h, m, n, S), n \in Frames
  PROVE  \E h2 : Tree(h2, m, n + 1, S) /\ Extends(h2, h, n) /\ h2[n].depth = 4
  <1>1. DataHome \in Home /\ DataHome.depth = 4
    BY Sizes DEF DataHome, Home
  <1>2. m \in MemoryType
    BY GivenFrames
  <1>3. \E h2 : Tree(h2, m, n + 1, S) /\ Extends(h2, h, n) /\ h2[n] = DataHome
    BY <1>1, <1>2, OneMoreFrame
  <1> QED
    BY <1>1, <1>3

LEMMA SameFirst ==
  ASSUME NEW m, NEW r, NEW q, NEW v, First(m, q, v) = First(m, r, v)
  PROVE  EndOfWalk(m, q, v) = EndOfWalk(m, r, v)
  BY DEF EndOfWalk, First

(* Every space shows the kernel's pages.                                   *)
LEMMA KernelWalks ==
  ASSUME NEW h, NEW m, NEW n, NEW S, Tree(h, m, n, S), NEW r \in S, NEW v \in KernelPages
  PROVE  /\ First(m, r, v) = First(m, BootRoot, v)
         /\ EndOfWalk(m, r, v) = EndOfWalk(m, BootRoot, v)
  <1>1. v \in VirtualPages
    BY DEF KernelPages
  <1>2. IndexPml4(v) \in Half .. Fanout - 1
    BY <1>1, PlaceOfPage, Sizes
  <1>3. First(m, r, v) = First(m, BootRoot, v)
    BY <1>2 DEF First, Tree, Shared
  <1> QED
    BY <1>3, SameFirst

KernelHalf(table) == [i \in Index |-> IF i >= Half THEN table[i] ELSE Absent]

RootHome(r) == [owner |-> r, depth |-> 0, a |-> 0, b |-> 0, c |-> 0]

LEMMA RootTree ==
  ASSUME NEW h, NEW m, NEW n, NEW S, Tree(h, m, n, S), n \in Frames, NEW r \in S,
         NEW m2 \in MemoryType, m2[n] = KernelHalf(m[r]), \A g \in 1 .. n - 1 : m2[g] = m[g]
  PROVE  \E h2 : Tree(h2, m2, n + 1, S \cup {n}) /\ Extends(h2, h, n)
  <1>1. /\ m \in MemoryType /\ n \in Nat \ {0} /\ r \in Frames /\ r \in 1 .. n - 1
        /\ \A g \in 1 .. n - 1 : g \in Frames /\ g # n
    BY GivenFrames
  <1>3. m2[n] = KernelHalf(m[r]) /\ \A g \in 1 .. n - 1 : m2[g] = m[g]
    OBVIOUS
  <1>4. \A j \in Index : m2[n][j] = IF j >= Half THEN m[r][j] ELSE Absent
    BY <1>3 DEF KernelHalf
  <1> DEFINE home == RootHome(n)
  <1>5. /\ home \in Home /\ home.depth = 0 /\ home.owner = n /\ home.b = 0 /\ home.c = 0
    BY <1>1, Sizes DEF RootHome, Home
  <1> HIDE DEF home
  <1>6. ASSUME NEW j \in Index
        PROVE  EntryOK(h, n, home, j, m2[n][j])
    <2>1. CASE j >= Half
      <3>1. /\ EntryOK(h, n, h[r], j, m[r][j]) /\ m2[n][j] = m[r][j]
            /\ h[r].depth = 0 /\ h[r].owner = r /\ h[r].b = 0 /\ h[r].c = 0
        BY <1>1, <1>4, <2>1 DEF Tree, Entries
      <3>2. ChildHome(h[r], j) = ChildHome(home, j)
        BY <1>5, <2>1, <3>1 DEF ChildHome
      <3>3. m[r][j] = Absent \/ TableIn(h, n, h[r], j, m[r][j])
        BY <3>1 DEF EntryOK
      <3>4. TableIn(h, n, h[r], j, m[r][j]) => TableIn(h, n, home, j, m[r][j])
        BY <1>5, <3>2 DEF TableIn, Entry
      <3> QED
        BY <3>1, <3>3, <3>4 DEF EntryOK
    <2>2. CASE ~(j >= Half)
      BY <1>4, <2>2 DEF EntryOK
    <2> QED
      BY <2>1, <2>2
  <1>7. PICK h2 : Tree(h2, m2, n + 1, S) /\ Extends(h2, h, n) /\ h2[n] = home
    <2>1. home.depth < 4 => \A j \in Index : EntryOK(h, n, home, j, m2[n][j])
      BY <1>6
    <2> QED
      BY <1>3, <1>5, <2>1, OneMoreFrame
  <1>8. Tree(h2, m2, n + 1, S \cup {n})
    <2>1. Shared(m2, S \cup {n})
      <3> SUFFICES ASSUME NEW q \in S \cup {n}, NEW j \in Half .. Fanout - 1
                   PROVE  m2[q][j] = m2[BootRoot][j]
        BY DEF Shared
      <3>1. \A p \in S : m2[p][j] = m2[BootRoot][j]
        BY <1>7 DEF Tree, Shared
      <3>2. m2[n][j] = m[r][j] /\ m2[r] = m[r]
        BY <1>1, <1>3, <1>4, Sizes, SMTT(30)
      <3> QED
        BY <3>1, <3>2
    <2>2. n \in 1 .. (n + 1) - 1
      BY <1>1
    <2> QED
      BY <1>5, <1>7, <2>1, <2>2 DEF Tree
  <1> QED
    BY <1>7, <1>8

LEMMA RootWalks ==
  ASSUME NEW m, NEW n, NEW r, NEW m2, m2[n] = KernelHalf(m[r]),
         NEW v \in VirtualPages, v \notin KernelPages
  PROVE  EndOfWalk(m2, n, v) = Absent
  <1>1. IndexPml4(v) \in Index /\ ~(IndexPml4(v) >= Half)
    BY PlaceOfPage
  <1>2. First(m2, n, v) = Absent
    BY <1>1 DEF First, KernelHalf
  <1>3. ~IsTable(Absent)
    BY DEF Absent, Entry, IsTable
  <1> QED
    BY <1>2, <1>3, EndOfWalkIs

-----------------------------------------------------------------------------
(* The calls, on the records they work with.                               *)

State(m, n, f, tw) == [memory |-> m, next |-> n, table |-> f, twice |-> tw]

LEMMA TakeFrameIs ==
  ASSUME NEW m, NEW n, NEW f, NEW tw
  PROVE  TakeFrame(State(m, n, f, tw)) = State(m, n + 1, f, tw)
  BY DEF TakeFrame, State

LEMMA EnsureTableGrows ==
  ASSUME NEW m, NEW n \in Nat, NEW f, NEW tw, NEW i
  PROVE  \E m2, f2 : \E n2 \in {n, n + 1} :
           /\ EnsureTable(State(m, n, f, tw), i) = State(m2, n2, f2, tw)
           /\ ~IsTable(m[f][i]) => n2 = n + 1
  <1>1. CASE m[f][i].leads = "table"
    <2>1. EnsureTable(State(m, n, f, tw), i) = State(m, n, m[f][i].frame, tw)
      BY <1>1 DEF EnsureTable, Follow, State
    <2> QED
      BY <1>1, <2>1 DEF IsTable
  <1>2. CASE m[f][i].leads # "table"
    <2> DEFINE m2 == [[m EXCEPT ![n] = BlankTable] EXCEPT ![f][i] = ToTable(n)]
    <2>1. EnsureTable(State(m, n, f, tw), i) = State(m2, n + 1, m2[f][i].frame, tw)
      BY <1>2 DEF EnsureTable, Follow, State
    <2> QED
      BY <2>1
  <1> QED
    BY <1>1, <1>2

LEMMA EnsureTableIs ==
  ASSUME NEW m \in MemoryType, NEW n \in Frames, NEW f \in Frames, f # n, NEW tw, NEW i \in Index
  PROVE  /\ IsTable(m[f][i]) =>
              EnsureTable(State(m, n, f, tw), i) = State(m, n, m[f][i].frame, tw)
         /\ ~IsTable(m[f][i]) =>
              EnsureTable(State(m, n, f, tw), i) = State(NewTable(m, n, f, i), n + 1, n, tw)
  <1>1. ASSUME IsTable(m[f][i])
        PROVE  EnsureTable(State(m, n, f, tw), i) = State(m, n, m[f][i].frame, tw)
    BY <1>1 DEF EnsureTable, Follow, State, IsTable
  <1>2. ASSUME ~IsTable(m[f][i])
        PROVE  EnsureTable(State(m, n, f, tw), i) = State(NewTable(m, n, f, i), n + 1, n, tw)
    <2> DEFINE m2 == NewTable(m, n, f, i)
    <2>1. EnsureTable(State(m, n, f, tw), i) = State(m2, n + 1, m2[f][i].frame, tw)
      BY <1>2 DEF EnsureTable, Follow, State, IsTable, NewTable, Written
    <2>2. m2[f][i] = ToTable(n)
      BY NewTableEntries
    <2>3. m2[f][i].frame = n
      BY <2>2, WrittenEntries DEF Entry
    <2> HIDE DEF m2
    <2> QED
      BY <2>1, <2>3 DEF m2
  <1> QED
    BY <1>1, <1>2

(* No walk of the spaces S changes from memory m to m2.                    *)
WalksKept(m, m2, S) ==
  \A q \in S : \A w \in VirtualPages : EndOfWalk(m2, q, w) = EndOfWalk(m, q, w)

TablesKept(m, m2, n) ==
  \A g \in 1 .. n - 1 : \A j \in Index : IsTable(m[g][j]) => m2[g][j] = m[g][j]

(* What a call that makes tables leaves: from h, m and n to h2, m2 and n2. *)
Grown(h, m, n, S, h2, m2, n2) ==
  /\ Tree(h2, m2, n2, S)
  /\ Extends(h2, h, n)
  /\ n <= n2
  /\ WalksKept(m, m2, S)
  /\ TablesKept(m, m2, n)

LEMMA NothingGrown ==
  ASSUME NEW h, NEW m, NEW n, NEW S, Tree(h, m, n, S)
  PROVE  Grown(h, m, n, S, h, m, n)
  BY GivenFrames DEF Grown, Extends, WalksKept, TablesKept

LEMMA GrownTwice ==
  ASSUME NEW h, NEW m, NEW n \in Nat, NEW S, NEW h2, NEW m2, NEW n2, NEW h3, NEW m3, NEW n3,
         Grown(h, m, n, S, h2, m2, n2), Grown(h2, m2, n2, S, h3, m3, n3)
  PROVE  Grown(h, m, n, S, h3, m3, n3)
  <1>1. /\ n2 \in Nat /\ n3 \in Nat /\ n <= n2 /\ n2 <= n3
        /\ Tree(h3, m3, n3, S)
    <2>1. Tree(h2, m2, n2, S) /\ Tree(h3, m3, n3, S) /\ n <= n2 /\ n2 <= n3
      BY DEF Grown
    <2> QED
      BY <2>1, GivenFrames
  <1>2. \A f \in 1 .. n - 1 : f \in 1 .. n2 - 1
    BY <1>1
  <1>3. Extends(h3, h, n)
    BY <1>2 DEF Grown, Extends
  <1>4. WalksKept(m, m3, S)
    BY DEF Grown, WalksKept
  <1>5. TablesKept(m, m3, n)
    BY <1>2 DEF Grown, TablesKept
  <1> QED
    BY <1>1, <1>3, <1>4, <1>5 DEF Grown

LEMMA EnsureTableKeeps ==
  ASSUME NEW h, NEW m, NEW n, NEW S, Tree(h, m, n, S), n \in Frames, NEW tw,
         NEW f \in 1 .. n - 1, h[f].depth <= 2, NEW i \in Index,
         m[f][i] = Absent \/ IsTable(m[f][i]),
         f \in S /\ i >= Half => S = {f} \/ IsTable(m[f][i])
  PROVE  \E h2, m2, n2, f2 :
           /\ EnsureTable(State(m, n, f, tw), i) = State(m2, n2, f2, tw)
           /\ Grown(h, m, n, S, h2, m2, n2)
           /\ IsTable(m2[f][i]) /\ m2[f][i].frame = f2
  <1>1. m \in MemoryType /\ f \in Frames /\ f # n /\ n \in Nat /\ \A g \in 1 .. n - 1 : g \in Frames /\ g # n
    BY GivenFrames
  <1>2. CASE IsTable(m[f][i])
    <2>1. EnsureTable(State(m, n, f, tw), i) = State(m, n, m[f][i].frame, tw)
      BY <1>1, <1>2, EnsureTableIs
    <2> QED
      BY <1>2, <2>1, NothingGrown
  <1>3. CASE ~IsTable(m[f][i])
    <2> DEFINE m2 == NewTable(m, n, f, i)
    <2>1. EnsureTable(State(m, n, f, tw), i) = State(m2, n + 1, n, tw)
      BY <1>1, <1>3, EnsureTableIs
    <2>2. m[f][i] = Absent /\ (f \in S /\ i >= Half => S = {f})
      BY <1>3
    <2>3. /\ m2[f][i] = ToTable(n)
          /\ \A g \in Frames : \A j \in Index : g # n /\ ~(g = f /\ j = i) => m2[g][j] = m[g][j]
      BY <1>1, NewTableEntries
    <2>4. \A q \in S : \A w \in VirtualPages : EndOfWalk(m2, q, w) = EndOfWalk(m, q, w)
      BY <2>2, NewTableWalks
    <2>5. PICK h2 : Tree(h2, m2, n + 1, S) /\ Extends(h2, h, n) /\ h2[n] = ChildHome(h[f], i)
      BY <2>2, NewTableTree
    <2> HIDE DEF m2
    <2>6. TablesKept(m, m2, n)
      BY <1>1, <1>3, <2>3 DEF TablesKept
    <2>7. Grown(h, m, n, S, h2, m2, n + 1)
      BY <1>1, <2>4, <2>5, <2>6 DEF Grown, WalksKept
    <2>8. IsTable(m2[f][i]) /\ m2[f][i].frame = n
      BY <2>3, WrittenEntries DEF Entry, IsTable
    <2> QED
      BY <2>1, <2>7, <2>8
  <1> QED
    BY <1>2, <1>3

-----------------------------------------------------------------------------
(* map_page: the three levels, and the entry.                              *)

LEMMA TablesToIs ==
  ASSUME NEW m, NEW n, NEW f, NEW tw, NEW r, NEW v
  PROVE  TablesTo(State(m, n, f, tw), r, v) =
           EnsureTable(EnsureTable(EnsureTable(State(m, n, r, tw), IndexPml4(v)), IndexPdp(v)),
                       IndexPd(v))
  <1> DEFINE s == State(m, n, f, tw)
             indices == <<IndexPml4(v), IndexPdp(v), IndexPd(v)>>
             one == EnsureTable(State(m, n, r, tw), IndexPml4(v))
             two == EnsureTable(one, IndexPdp(v))
             three == EnsureTable(two, IndexPd(v))
             Levels(walk, level) == IF level = 0 THEN [s EXCEPT !.table = r]
                                    ELSE EnsureTable(walk[level - 1], indices[level])
             IsWalk(walk) == walk = [level \in 0 .. 3 |-> Levels(walk, level)]
             W == CHOOSE walk : IsWalk(walk)
  <1>1. TablesTo(s, r, v) = W[3]
    BY DEF TablesTo
  <1>2. [s EXCEPT !.table = r] = State(m, n, r, tw)
    BY DEF State
  <1>3. indices[1] = IndexPml4(v) /\ indices[2] = IndexPdp(v) /\ indices[3] = IndexPd(v)
    OBVIOUS
  <1> DEFINE w == [level \in 0 .. 3 |-> IF level = 0 THEN State(m, n, r, tw)
                                        ELSE IF level = 1 THEN one
                                        ELSE IF level = 2 THEN two ELSE three]
  <1>4. ASSUME NEW level \in 0 .. 3 PROVE w[level] = Levels(w, level)
    <2> HIDE DEF s, indices
    <2>1. w[0] = State(m, n, r, tw) /\ w[1] = one /\ w[2] = two /\ w[3] = three
      BY DEF w
    <2> HIDE DEF w
    <2>2. CASE level = 0
      BY <1>2, <2>1, <2>2
    <2>3. CASE level = 1
      BY <1>3, <2>1, <2>3
    <2>4. CASE level = 2
      BY <1>3, <2>1, <2>4
    <2>5. CASE level = 3
      BY <1>3, <2>1, <2>5
    <2>6. level = 0 \/ level = 1 \/ level = 2 \/ level = 3
      OBVIOUS
    <2> QED
      BY <2>2, <2>3, <2>4, <2>5, <2>6
  <1>5. IsWalk(w)
    <2>1. w = [level \in 0 .. 3 |-> w[level]]
      BY DEF w
    <2> HIDE DEF w, Levels
    <2>2. [level \in 0 .. 3 |-> w[level]] = [level \in 0 .. 3 |-> Levels(w, level)]
      BY <1>4
    <2> QED
      BY <2>1, <2>2
  <1>6. IsWalk(W)
    <2> HIDE DEF w, IsWalk
    <2> QED
      BY <1>5
  <1>7. \A level \in 0 .. 3 : W[level] = Levels(W, level)
    <2> HIDE DEF W, Levels
    <2> QED
      BY <1>6
  <1> HIDE DEF W, s, indices
  <1>8. W[0] = State(m, n, r, tw)
    BY <1>2, <1>7
  <1>9. W[1] = one
    BY <1>3, <1>7, <1>8
  <1>10. W[2] = two
    <2> HIDE DEF one
    <2> QED
      BY <1>3, <1>7, <1>9
  <1>11. W[3] = three
    <2> HIDE DEF two
    <2> QED
      BY <1>3, <1>7, <1>10
  <1> QED
    BY <1>1, <1>11 DEF s

LEMMA MapPageIs ==
  ASSUME NEW s, NEW r, NEW v, NEW g, NEW m, NEW n, NEW f, NEW tw,
         TablesTo(s, r, v) = State(m, n, f, tw)
  PROVE  MapPage(s, r, v, g) = State(Written(m, f, IndexPt(v), ToPage(g)), n, f,
                                     tw \/ m[f][IndexPt(v)].ours)
  <1> DEFINE to == State(m, n, f, tw)
             i == IndexPt(v)
             e == ToPage(g)
  <1>1. MapPage(s, r, v, g) = [to EXCEPT !.memory[to.table][i] = e,
                                         !.twice = @ \/ to.memory[to.table][i].ours]
    BY DEF MapPage
  <1>2. to.memory = m /\ to.table = f /\ to.twice = tw
    BY DEF State
  <1>3. [to EXCEPT !.memory[to.table][i] = e, !.twice = @ \/ to.memory[to.table][i].ours] =
          [to EXCEPT !.memory = [m EXCEPT ![f][i] = e], !.twice = tw \/ m[f][i].ours]
    BY <1>2, Zenon
  <1>4. [to EXCEPT !.memory = [m EXCEPT ![f][i] = e], !.twice = tw \/ m[f][i].ours] =
          State(Written(m, f, i, e), n, f, tw \/ m[f][i].ours)
    <2> DEFINE tw2 == tw \/ m[f][i].ours
               m2 == Written(m, f, i, e)
    <2>1. [m EXCEPT ![f][i] = e] = m2
      BY DEF Written
    <2> HIDE DEF tw2, m2, e
    <2>2. [to EXCEPT !.memory = m2, !.twice = tw2] = State(m2, n, f, tw2)
      <3>1. [State(m, n, f, tw) EXCEPT !.memory = m2] = State(m2, n, f, tw)
        BY Z3 DEF State
      <3>2. [State(m2, n, f, tw) EXCEPT !.twice = tw2] = State(m2, n, f, tw2)
        BY DEF State
      <3> HIDE DEF to
      <3>3. [to EXCEPT !.memory = m2, !.twice = tw2] = [[to EXCEPT !.memory = m2] EXCEPT !.twice = tw2]
        OBVIOUS
      <3> QED
        BY <3>1, <3>2, <3>3 DEF to
    <2> QED
      BY <2>1, <2>2, Zenon DEF tw2, m2
  <1> QED
    BY <1>1, <1>3, <1>4

LEMMA MapPageGrows ==
  ASSUME NEW m, NEW n \in Nat, NEW f, NEW tw, NEW r, NEW v, NEW g
  PROVE  \E m2, f2, tw2 : \E n2 \in Nat :
           /\ MapPage(State(m, n, f, tw), r, v, g) = State(m2, n2, f2, tw2)
           /\ n <= n2
  <1>1. PICK m1, f1 : \E n1 \in {n, n + 1} :
          EnsureTable(State(m, n, r, tw), IndexPml4(v)) = State(m1, n1, f1, tw)
    BY EnsureTableGrows
  <1>2. PICK n1 \in {n, n + 1} :
          EnsureTable(State(m, n, r, tw), IndexPml4(v)) = State(m1, n1, f1, tw)
    BY <1>1
  <1>3. n1 \in Nat /\ n <= n1
    OBVIOUS
  <1>4. PICK m2, f2 : \E n2 \in {n1, n1 + 1} :
          EnsureTable(State(m1, n1, f1, tw), IndexPdp(v)) = State(m2, n2, f2, tw)
    BY <1>3, EnsureTableGrows
  <1>5. PICK n2 \in {n1, n1 + 1} :
          EnsureTable(State(m1, n1, f1, tw), IndexPdp(v)) = State(m2, n2, f2, tw)
    BY <1>4
  <1>6. n2 \in Nat /\ n <= n2
    BY <1>3
  <1>7. PICK m3, f3 : \E n3 \in {n2, n2 + 1} :
          EnsureTable(State(m2, n2, f2, tw), IndexPd(v)) = State(m3, n3, f3, tw)
    BY <1>6, EnsureTableGrows
  <1>8. PICK n3 \in {n2, n2 + 1} :
          EnsureTable(State(m2, n2, f2, tw), IndexPd(v)) = State(m3, n3, f3, tw)
    BY <1>7
  <1>9. n3 \in Nat /\ n <= n3
    BY <1>6
  <1>10. TablesTo(State(m, n, f, tw), r, v) = State(m3, n3, f3, tw)
    BY <1>2, <1>5, <1>8, TablesToIs
  <1> QED
    BY <1>9, <1>10, MapPageIs

(* Page v of space r is mapped to frame g: from h, m and n to h2, m2, n2.  *)
Mapped(h, m, n, S, r, v, g, h2, m2, n2) ==
  /\ Tree(h2, m2, n2, S)
  /\ Extends(h2, h, n)
  /\ n <= n2
  /\ TablesKept(m, m2, n)
  /\ IsTable(First(m2, r, v))
  /\ \A q \in S : \A w \in VirtualPages :
       /\ w = v /\ OwnerOf(q, w) = OwnerOf(r, v) => EndOfWalk(m2, q, w) = ToPage(g)
       /\ ~(w = v /\ OwnerOf(q, w) = OwnerOf(r, v)) =>
            EndOfWalk(m2, q, w) = EndOfWalk(m, q, w)

LEMMA StateFields ==
  ASSUME NEW m, NEW n, NEW f, NEW tw
  PROVE  /\ State(m, n, f, tw).memory = m /\ State(m, n, f, tw).next = n
         /\ State(m, n, f, tw).table = f /\ State(m, n, f, tw).twice = tw
  BY DEF State

LEMMA NextLevel ==
  ASSUME NEW h, NEW m, NEW n, NEW S, Tree(h, m, n, S), NEW tw,
         NEW f \in 1 .. n - 1, h[f].depth <= 2, NEW i \in Index,
         m[f][i] = Absent \/ IsTable(m[f][i]),
         f \in S /\ i >= Half => S = {f} \/ IsTable(m[f][i]),
         NEW m1, NEW n1, NEW f1, EnsureTable(State(m, n, f, tw), i) = State(m1, n1, f1, tw),
         n1 <= FrameCount + 1, ~IsTable(m[f][i]) => n1 = n + 1
  PROVE  \E h1 : /\ Grown(h, m, n, S, h1, m1, n1)
                 /\ IsTable(m1[f][i]) /\ m1[f][i].frame = f1
  <1>1. CASE IsTable(m[f][i])
    <2>1. EnsureTable(State(m, n, f, tw), i) = State(m, n, m[f][i].frame, tw)
      BY <1>1, SMTT(30) DEF EnsureTable, Follow, State, IsTable
    <2>2. State(m1, n1, f1, tw) = State(m, n, m[f][i].frame, tw)
      BY <2>1
    <2>3. m1 = m /\ n1 = n /\ f1 = m[f][i].frame
      BY <2>2, StateFields
    <2> QED
      <3>1. Grown(h, m, n, S, h, m, n)
        BY NothingGrown, ZenonT(30)
      <3> QED
        BY <1>1, <2>3, <3>1, Zenon
  <1>2. CASE ~IsTable(m[f][i])
    <2>1. n \in Frames
      BY <1>2, GivenFrames, SizeAssumption DEF Frames
    <2>2. PICK h2, m2, n2, f2 :
            /\ EnsureTable(State(m, n, f, tw), i) = State(m2, n2, f2, tw)
            /\ Grown(h, m, n, S, h2, m2, n2)
            /\ IsTable(m2[f][i]) /\ m2[f][i].frame = f2
      BY <2>1, EnsureTableKeeps
    <2>3. State(m1, n1, f1, tw) = State(m2, n2, f2, tw)
      BY <2>2
    <2>4. m1 = m2 /\ n1 = n2 /\ f1 = f2
      BY <2>3, StateFields
    <2> QED
      BY <2>2, <2>4
  <1> QED
    BY <1>1, <1>2

(* Before page v is mapped each entry on its way is a table or nothing.    *)
LEMMA EntriesOnTheWay ==
  ASSUME NEW m, NEW r, NEW v, EndOfWalk(m, r, v) = Absent
  PROVE  /\ First(m, r, v) = Absent \/ IsTable(First(m, r, v))
         /\ IsTable(First(m, r, v)) => Second(m, r, v) = Absent \/ IsTable(Second(m, r, v))
         /\ IsTable(First(m, r, v)) /\ IsTable(Second(m, r, v)) =>
              Third(m, r, v) = Absent \/ IsTable(Third(m, r, v))
         /\ IsTable(First(m, r, v)) /\ IsTable(Second(m, r, v)) /\ IsTable(Third(m, r, v)) =>
              Fourth(m, r, v) = Absent
  BY EndOfWalkIs, SMTT(30)

(* The tables on the way to an unmapped page.                              *)
LEMMA WayIsMade ==
  ASSUME NEW h, NEW m, NEW n, NEW S, Tree(h, m, n, S), NEW f, NEW tw,
         NEW r \in S, NEW v \in VirtualPages, EndOfWalk(m, r, v) = Absent,
         v \in KernelPages => S = {r} \/ IsTable(First(m, r, v)),
         NEW g, Enough(MapPage(State(m, n, f, tw), r, v, g))
  PROVE  \E h2, m2, n2, f2 :
           /\ TablesTo(State(m, n, f, tw), r, v) = State(m2, n2, f2, tw)
           /\ Grown(h, m, n, S, h2, m2, n2)
           /\ Reaches(m2, r, v, f2)
  <1> DEFINE i1 == IndexPml4(v)
             i2 == IndexPdp(v)
             i3 == IndexPd(v)
  <1>1. /\ i1 \in Index /\ i2 \in Index /\ i3 \in Index
        /\ v \in KernelPages <=> i1 >= Half
    BY PlaceOfPage
  <1>2. n \in Nat /\ r \in 1 .. n - 1 /\ h[r].depth = 0
    BY GivenFrames DEF Tree
  <1> HIDE DEF i1, i2, i3
  (* what the three levels return *)
  <1>3. PICK m1, f1 : \E n1 \in {n, n + 1} :
          /\ EnsureTable(State(m, n, r, tw), i1) = State(m1, n1, f1, tw)
          /\ ~IsTable(m[r][i1]) => n1 = n + 1
    BY <1>2, EnsureTableGrows
  <1>4. PICK n1 \in {n, n + 1} :
          /\ EnsureTable(State(m, n, r, tw), i1) = State(m1, n1, f1, tw)
          /\ ~IsTable(m[r][i1]) => n1 = n + 1
    BY <1>3
  <1>5. n1 \in Nat
    BY <1>2
  <1>6. PICK m2, f2 : \E n2 \in {n1, n1 + 1} :
          /\ EnsureTable(State(m1, n1, f1, tw), i2) = State(m2, n2, f2, tw)
          /\ ~IsTable(m1[f1][i2]) => n2 = n1 + 1
    BY <1>5, EnsureTableGrows
  <1>7. PICK n2 \in {n1, n1 + 1} :
          /\ EnsureTable(State(m1, n1, f1, tw), i2) = State(m2, n2, f2, tw)
          /\ ~IsTable(m1[f1][i2]) => n2 = n1 + 1
    BY <1>6
  <1>8. n2 \in Nat /\ n1 <= n2
    BY <1>5
  <1>9. PICK m3, f3 : \E n3 \in {n2, n2 + 1} :
          /\ EnsureTable(State(m2, n2, f2, tw), i3) = State(m3, n3, f3, tw)
          /\ ~IsTable(m2[f2][i3]) => n3 = n2 + 1
    BY <1>8, EnsureTableGrows, Z3
  <1>10. PICK n3 \in {n2, n2 + 1} :
          /\ EnsureTable(State(m2, n2, f2, tw), i3) = State(m3, n3, f3, tw)
          /\ ~IsTable(m2[f2][i3]) => n3 = n2 + 1
    BY <1>9
  <1>11. TablesTo(State(m, n, f, tw), r, v) = State(m3, n3, f3, tw)
    BY <1>4, <1>7, <1>10, TablesToIs DEF i1, i2, i3
  <1>12. n3 <= FrameCount + 1
    <2>1. MapPage(State(m, n, f, tw), r, v, g) =
            State(Written(m3, f3, IndexPt(v), ToPage(g)), n3, f3, tw \/ m3[f3][IndexPt(v)].ours)
      BY <1>11, MapPageIs
    <2> DEFINE x == MapPage(State(m, n, f, tw), r, v, g)
    <2>2. x.next = n3
      BY <2>1 DEF State
    <2> HIDE DEF x
    <2>3. x.next <= FrameCount + 1
      BY DEF x, Enough
    <2> QED
      BY <2>2, <2>3
  <1>13. n1 <= FrameCount + 1 /\ n2 <= FrameCount + 1
    BY <1>5, <1>8, <1>12, SizeAssumption
  (* and what they do *)
  <1>14. PICK h1 : /\ Grown(h, m, n, S, h1, m1, n1)
                   /\ IsTable(m1[r][i1]) /\ m1[r][i1].frame = f1
    <2>1. m[r][i1] = First(m, r, v)
      BY DEF First, i1
    <2>2. m[r][i1] = Absent \/ IsTable(m[r][i1])
      BY <2>1, EntriesOnTheWay
    <2>3. r \in S /\ i1 >= Half => S = {r} \/ IsTable(m[r][i1])
      BY <1>1, <2>1
    <2>4. h[r].depth <= 2
      BY <1>2
    <2> QED
      BY <1>1, <1>2, <1>4, <1>13, <2>2, <2>3, <2>4, NextLevel
  <1>15. /\ Tree(h1, m1, n1, S) /\ EndOfWalk(m1, r, v) = Absent
         /\ IsTable(First(m1, r, v)) /\ First(m1, r, v).frame = f1
    <2>1. Tree(h1, m1, n1, S) /\ EndOfWalk(m1, r, v) = Absent
      BY <1>14 DEF Grown, WalksKept
    <2> QED
      BY <1>14, <2>1 DEF First, i1
  <1>16. f1 \in 1 .. n1 - 1 /\ h1[f1].depth = 1
    BY <1>15, WalkHomes
  <1>17. PICK h2 : /\ Grown(h1, m1, n1, S, h2, m2, n2)
                   /\ IsTable(m2[f1][i2]) /\ m2[f1][i2].frame = f2
    <2>1. m1[f1][i2] = Second(m1, r, v)
      BY <1>15 DEF Second, i2
    <2>2. m1[f1][i2] = Absent \/ IsTable(m1[f1][i2])
      BY <1>15, <2>1, EntriesOnTheWay
    <2>3. f1 \notin S /\ h1[f1].depth <= 2
      BY <1>15, <1>16 DEF Tree
    <2> QED
      BY <1>1, <1>7, <1>13, <1>15, <1>16, <2>2, <2>3, NextLevel
  <1>18. /\ Tree(h2, m2, n2, S) /\ EndOfWalk(m2, r, v) = Absent
         /\ IsTable(First(m2, r, v)) /\ First(m2, r, v).frame = f1
         /\ IsTable(Second(m2, r, v)) /\ Second(m2, r, v).frame = f2
    <2>1. Tree(h2, m2, n2, S) /\ EndOfWalk(m2, r, v) = Absent
      BY <1>15, <1>17 DEF Grown, WalksKept
    <2>2. First(m2, r, v) = First(m1, r, v)
      <3>1. r \in 1 .. n1 - 1 /\ IsTable(m1[r][i1])
        BY <1>14, <1>15, GivenFrames
      <3>2. m2[r][i1] = m1[r][i1]
        BY <1>1, <1>17, <3>1 DEF Grown, TablesKept
      <3> QED
        BY <3>2 DEF First, i1
    <2>3. Second(m2, r, v) = m2[f1][i2]
      BY <1>15, <2>2 DEF Second, i2
    <2> QED
      BY <1>15, <1>17, <2>1, <2>2, <2>3
  <1>19. f2 \in 1 .. n2 - 1 /\ h2[f2].depth = 2
    BY <1>18, WalkHomes
  <1>20. PICK h3 : /\ Grown(h2, m2, n2, S, h3, m3, n3)
                   /\ IsTable(m3[f2][i3]) /\ m3[f2][i3].frame = f3
    <2>1. m2[f2][i3] = Third(m2, r, v)
      BY <1>18 DEF Third, i3
    <2>2. m2[f2][i3] = Absent \/ IsTable(m2[f2][i3])
      BY <1>18, <2>1, EntriesOnTheWay
    <2>3. f2 \notin S /\ h2[f2].depth <= 2
      BY <1>18, <1>19 DEF Tree
    <2> QED
      BY <1>1, <1>10, <1>12, <1>18, <1>19, <2>2, <2>3, NextLevel
  <1>21. Reaches(m3, r, v, f3)
    <2>1. First(m3, r, v) = First(m2, r, v)
      <3>1. r \in 1 .. n2 - 1 /\ First(m2, r, v) = m2[r][i1]
        BY <1>18, GivenFrames DEF First, i1
      <3>2. m3[r][i1] = m2[r][i1]
        BY <1>1, <1>18, <1>20, <3>1 DEF Grown, TablesKept
      <3> QED
        BY <3>1, <3>2 DEF First, i1
    <2>2. Second(m3, r, v) = Second(m2, r, v)
      <3>1. f1 \in 1 .. n2 - 1 /\ Second(m2, r, v) = m2[f1][i2]
        BY <1>18, WalkHomes DEF Second, i2
      <3>2. m3[f1][i2] = m2[f1][i2]
        BY <1>1, <1>18, <1>20, <3>1 DEF Grown, TablesKept
      <3> QED
        BY <1>18, <2>1, <3>1, <3>2 DEF Second, i2
    <2>3. Third(m3, r, v) = m3[f2][i3]
      BY <1>18, <2>2 DEF Third, i3
    <2> QED
      BY <1>18, <1>20, <2>1, <2>2, <2>3 DEF Reaches
  <1>22. Grown(h, m, n, S, h3, m3, n3)
    <2>1. Grown(h, m, n, S, h2, m2, n2)
      BY <1>2, <1>14, <1>17, GrownTwice
    <2> QED
      BY <1>2, <1>20, <2>1, GrownTwice
  <1> QED
    BY <1>11, <1>21, <1>22

(* No page is mapped twice. *)
NotTwice == FALSE

LEMMA MapPageMaps ==
  ASSUME NEW h, NEW m, NEW n, NEW S, Tree(h, m, n, S), NEW f,
         NEW r \in S, NEW v \in VirtualPages, EndOfWalk(m, r, v) = Absent,
         v \in KernelPages => S = {r} \/ IsTable(First(m, r, v)),
         NEW g \in 1 .. n - 1, h[g].depth = 4,
         Enough(MapPage(State(m, n, f, NotTwice), r, v, g))
  PROVE  \E h2, m2, n2, f2 :
           /\ MapPage(State(m, n, f, NotTwice), r, v, g) = State(m2, n2, f2, NotTwice)
           /\ Mapped(h, m, n, S, r, v, g, h2, m2, n2)
  <1>1. PICK h2, m1, n2, f2 :
           /\ TablesTo(State(m, n, f, NotTwice), r, v) = State(m1, n2, f2, NotTwice)
           /\ Grown(h, m, n, S, h2, m1, n2)
           /\ Reaches(m1, r, v, f2)
    BY WayIsMade
  <1> DEFINE i == IndexPt(v)
             e == ToPage(g)
             m2 == Written(m1, f2, i, e)
  <1>2. /\ Tree(h2, m1, n2, S) /\ Extends(h2, h, n) /\ n <= n2 /\ n \in Nat /\ n2 \in Nat
        /\ EndOfWalk(m1, r, v) = Absent
        /\ \A q \in S : \A w \in VirtualPages : EndOfWalk(m1, q, w) = EndOfWalk(m, q, w)
    <2>1. Tree(h2, m1, n2, S) /\ WalksKept(m, m1, S) /\ Extends(h2, h, n) /\ n <= n2
      BY <1>1 DEF Grown
    <2>2. n \in Nat /\ n2 \in Nat
      BY <2>1, GivenFrames
    <2> QED
      BY <2>1, <2>2 DEF WalksKept
  <1>3. f2 \in 1 .. n2 - 1 /\ h2[f2].depth = 3 /\ i \in Index
    BY <1>1, <1>2, WalkHomes, PlaceOfPage DEF Reaches
  <1>4. Fourth(m1, r, v) = Absent /\ m1[f2][i] = Fourth(m1, r, v)
    <2>1. Fourth(m1, r, v) = Absent
      BY <1>1, <1>2, EntriesOnTheWay DEF Reaches
    <2> QED
      BY <1>1, <2>1 DEF Reaches, Fourth
  <1>5. m1[f2][i].ours = FALSE
    BY <1>4 DEF Absent, Entry
  <1>6. MapPage(State(m, n, f, NotTwice), r, v, g) = State(m2, n2, f2, NotTwice)
    <2>1. MapPage(State(m, n, f, NotTwice), r, v, g) =
            State(m2, n2, f2, NotTwice \/ m1[f2][i].ours)
      BY <1>1, MapPageIs
    <2>2. (NotTwice \/ m1[f2][i].ours) = NotTwice
      BY <1>5 DEF NotTwice
    <2> HIDE DEF m2, i
    <2> QED
      BY <2>1, <2>2, Zenon
  <1>7. g \in Frames /\ g \in 1 .. n2 - 1 /\ h2[g].depth = 4
    <2>1. g \in 1 .. n2 - 1 /\ h2[g] = h[g]
      BY <1>2 DEF Extends
    <2> QED
      BY <1>2, <2>1, GivenFrames
  <1>8. e = Entry("page", g, 1, TRUE)
    BY <1>7, WrittenEntries
  <1>9. e \in EntryType /\ MapsData(h2, n2, e)
    <2>1. e \in EntryType
      BY <1>7, <1>8, EntryTypes
    <2>2. e.frame = g
      BY <1>8 DEF Entry
    <2> QED
      BY <1>7, <1>8, <2>1, <2>2 DEF MapsData
  <1> HIDE DEF e
  <1>10. Tree(h2, m2, n2, S)
    BY <1>2, <1>3, <1>9, LeafTree
  <1>11. ASSUME NEW q \in S, NEW w \in VirtualPages
         PROVE  /\ First(m2, q, w) = First(m1, q, w)
                /\ EndOfWalk(m2, q, w) =
                     IF Reaches(m1, q, w, f2) /\ IndexPt(w) = i THEN e ELSE EndOfWalk(m1, q, w)
    BY <1>2, <1>3, <1>9, LeafWalks
  <1>12. ASSUME NEW q \in S, NEW w \in VirtualPages
         PROVE  Reaches(m1, q, w, f2) /\ IndexPt(w) = i <=>
                  w = v /\ OwnerOf(q, w) = OwnerOf(r, v)
    BY <1>1, <1>2, SameEntry
  <1> HIDE DEF m2, i
  <1>13. ASSUME NEW q \in S, NEW w \in VirtualPages
         PROVE  /\ w = v /\ OwnerOf(q, w) = OwnerOf(r, v) => EndOfWalk(m2, q, w) = e
                /\ ~(w = v /\ OwnerOf(q, w) = OwnerOf(r, v)) =>
                     EndOfWalk(m2, q, w) = EndOfWalk(m, q, w)
    BY <1>2, <1>11, <1>12
  <1>14. IsTable(First(m2, r, v))
    BY <1>1, <1>11 DEF Reaches
  <1>15. TablesKept(m, m2, n)
    <2> SUFFICES ASSUME NEW p \in 1 .. n - 1, NEW j \in Index, IsTable(m[p][j])
                 PROVE  m2[p][j] = m[p][j]
      BY DEF TablesKept
    <2>1. m1[p][j] = m[p][j]
      BY <1>1 DEF Grown, TablesKept
    <2>2. ~IsTable(m1[f2][i])
      BY <1>4 DEF Absent, Entry, IsTable
    <2>3. ~(p = f2 /\ j = i)
      BY <2>1, <2>2
    <2>4. /\ m1 \in MemoryType /\ f2 \in Frames /\ p \in Frames
      BY <1>2, <1>3, GivenFrames
    <2>5. m2[p][j] = m1[p][j]
      BY <1>3, <1>9, <2>3, <2>4, UpdateEntry DEF m2
    <2> QED
      BY <2>1, <2>5
  <1>16. Mapped(h, m, n, S, r, v, g, h2, m2, n2)
    BY <1>2, <1>10, <1>13, <1>14, <1>15 DEF Mapped, e
  <1> QED
    BY <1>6, <1>16

-----------------------------------------------------------------------------
(* allocate_pages: one page after another.                                 *)

LEMMA PagesOfTheHalf ==
  ASSUME NEW v \in Nat, IndexPml4(v) \in Index
  PROVE  v \in VirtualPages /\ (v \in KernelPages <=> IndexPml4(v) >= Half)
  <1> DEFINE top == Fanout - 1
             last == Reach - 1
             x == top * Reach + last
             y == x * Reach + last
             a == v \div (Reach * Reach)
             b == v \div Reach
  <1>1. /\ top \in Nat /\ last \in Nat /\ Reach \in Nat
        /\ IndexPml4(v) \in Nat /\ IndexPml4(v) <= top
    BY Sizes
  <1>2. /\ a = IndexPml4(v) * Reach + IndexPdp(v) /\ a \in Nat
        /\ b = a * Reach + IndexPd(v) /\ b \in Nat
        /\ v = b * Reach + IndexPt(v)
        /\ IndexPdp(v) \in 0 .. last /\ IndexPd(v) \in 0 .. last /\ IndexPt(v) \in 0 .. last
    BY Quotients
  <1>3. PageAt(top, last, last, last) = y * Reach + last
    BY DEF PageAt
  <1>4. VirtualPages = 0 .. y * Reach + last
    BY <1>3 DEF VirtualPages
  <1> HIDE DEF top, last, a, b
  <1>5. x \in Nat /\ a <= x
    <2>1. IndexPml4(v) * Reach <= top * Reach /\ top * Reach \in Nat /\ IndexPml4(v) * Reach \in Nat
      BY <1>1, Products
    <2> QED
      BY <1>1, <1>2, <2>1
  <1> HIDE DEF x
  <1>6. y \in Nat /\ b <= y
    <2>1. a * Reach <= x * Reach /\ x * Reach \in Nat /\ a * Reach \in Nat
      BY <1>1, <1>2, <1>5, Products
    <2> QED
      BY <1>1, <1>2, <2>1
  <1> HIDE DEF y
  <1>7. v <= y * Reach + last /\ y * Reach + last \in Nat
    <2>1. b * Reach <= y * Reach /\ y * Reach \in Nat /\ b * Reach \in Nat
      BY <1>1, <1>2, <1>6, Products
    <2> QED
      BY <1>1, <1>2, <2>1
  <1>8. v \in VirtualPages
    BY <1>4, <1>7
  <1> QED
    BY <1>8, PlaceOfPage

(* The pages from b on, i of them, were mapped to frames that were given   *)
(* out for them, from h, m and n to h2, m2 and n2.                         *)
Filled(h, m, n, S, b, i, h2, m2, n2) ==
  /\ Tree(h2, m2, n2, S)
  /\ Extends(h2, h, n)
  /\ n <= n2
  /\ i > 0 => IsTable(m2[BootRoot][Half])
  /\ \A q \in S : \A w \in VirtualPages :
       /\ w \in b .. b + i - 1 =>
            MapsData(h2, n2, EndOfWalk(m2, q, w)) /\ n <= EndOfWalk(m2, q, w).frame
       /\ w \notin b .. b + i - 1 => EndOfWalk(m2, q, w) = EndOfWalk(m, q, w)
  /\ \A w \in b .. b + i - 1 : \A x \in b .. b + i - 1 :
       w # x => EndOfWalk(m2, BootRoot, w).frame # EndOfWalk(m2, BootRoot, x).frame

LEMMA StillData ==
  ASSUME NEW h, NEW n \in Nat, NEW h2, NEW n2 \in Nat, n <= n2, Extends(h2, h, n),
         NEW e, MapsData(h, n, e)
  PROVE  MapsData(h2, n2, e)
  <1>1. e.frame \in 1 .. n - 1 /\ h[e.frame].depth = 4 /\ e = Entry("page", e.frame, 1, TRUE)
    BY Zenon DEF MapsData
  <1>2. e.frame \in 1 .. n2 - 1 /\ h2[e.frame].depth = 4
    <2> DEFINE g == e.frame
    <2>1. g \in 1 .. n - 1 /\ h[g].depth = 4
      BY <1>1, Zenon
    <2> HIDE DEF g
    <2>2. g \in 1 .. n2 - 1 /\ h2[g].depth = 4
      BY <2>1 DEF Extends
    <2> QED
      BY <2>2 DEF g
  <1> QED
    BY <1>1, <1>2, Zenon DEF MapsData

LEMMA FillOneMore ==
  ASSUME NEW h, NEW m, NEW n, NEW S, Tree(h, m, n, S), NEW b \in Nat, NEW i \in Nat,
         NEW h2, NEW m2, NEW n2, NEW f2, Filled(h, m, n, S, b, i, h2, m2, n2),
         NEW r \in S, NEW v, v = b + i, v \in VirtualPages, IndexPml4(v) = Half,
         \A w \in b .. v : w \in KernelPages,
         EndOfWalk(m, r, v) = Absent,
         S = {r} \/ IsTable(m2[BootRoot][Half]),
         Enough(MapPage(State(m2, n2 + 1, f2, NotTwice), r, v, n2))
  PROVE  \E h4, m4, n4, f4 :
           /\ MapPage(State(m2, n2 + 1, f2, NotTwice), r, v, n2) = State(m4, n4, f4, NotTwice)
           /\ Filled(h, m, n, S, b, i + 1, h4, m4, n4)
  <1>1. /\ Tree(h2, m2, n2, S) /\ n \in Nat /\ n2 \in Nat /\ n <= n2 /\ Extends(h2, h, n)
        /\ v \notin b .. b + i - 1
    <2>1. Tree(h2, m2, n2, S) /\ n <= n2 /\ Extends(h2, h, n)
      BY DEF Filled
    <2>2. v \notin b .. b + i - 1
      OBVIOUS
    <2> QED
      BY <2>1, <2>2, GivenFrames
  <1>2. n2 \in Frames
    <2>1. n2 + 1 \in Nat
      BY <1>1
    <2> DEFINE s == MapPage(State(m2, n2 + 1, f2, NotTwice), r, v, n2)
    <2>2. PICK m5, f5, tw5 : \E n5 \in Nat : s = State(m5, n5, f5, tw5) /\ n2 + 1 <= n5
      BY <2>1, MapPageGrows
    <2>3. PICK n5 \in Nat : s = State(m5, n5, f5, tw5) /\ n2 + 1 <= n5
      BY <2>2
    <2>4. s.next <= FrameCount + 1
      BY DEF Enough
    <2> HIDE DEF s
    <2>5. n5 <= FrameCount + 1
      BY <2>3, <2>4, StateFields
    <2>6. n2 \in Nat /\ n2 >= 4
      BY <1>1, GivenFrames
    <2> QED
      BY <2>3, <2>5, <2>6, SizeAssumption DEF Frames
  <1>3. PICK h3 : Tree(h3, m2, n2 + 1, S) /\ Extends(h3, h2, n2) /\ h3[n2].depth = 4
    BY <1>1, <1>2, DataTree
  <1>4. EndOfWalk(m2, r, v) = Absent
    BY <1>1 DEF Filled
  <1>5. S = {r} \/ IsTable(First(m2, r, v))
    <2>1. m2[r][Half] = m2[BootRoot][Half]
      BY <1>1, Sizes DEF Tree, Shared
    <2> QED
      BY <2>1 DEF First
  <1>6. n2 \in 1 .. (n2 + 1) - 1 /\ n2 + 1 \in Nat /\ n2 <= n2 + 1
    BY <1>1, <1>2 DEF Frames
  <1>7. PICK h4, m4, n4, f4 :
          /\ MapPage(State(m2, n2 + 1, f2, NotTwice), r, v, n2) = State(m4, n4, f4, NotTwice)
          /\ Mapped(h3, m2, n2 + 1, S, r, v, n2, h4, m4, n4)
    BY <1>3, <1>4, <1>5, <1>6, MapPageMaps
  <1>8. /\ Tree(h4, m4, n4, S) /\ n4 \in Nat /\ n2 + 1 <= n4 /\ n2 <= n4 /\ n <= n4
        /\ Extends(h4, h3, n2 + 1) /\ Extends(h4, h2, n2) /\ Extends(h4, h, n)
        /\ h4[n2].depth = 4
    <2>1. Tree(h4, m4, n4, S) /\ n2 + 1 <= n4 /\ Extends(h4, h3, n2 + 1)
      BY <1>7 DEF Mapped
    <2>2. n4 \in Nat
      BY <2>1, GivenFrames
    <2>3. Extends(h4, h2, n2) /\ h4[n2].depth = 4
      BY <1>1, <1>3, <1>6, <2>1 DEF Extends
    <2>4. Extends(h4, h, n)
      BY <1>1, <2>3 DEF Extends
    <2> QED
      BY <1>1, <2>1, <2>2, <2>3, <2>4
  <1>9. ASSUME NEW q \in S PROVE OwnerOf(q, v) = OwnerOf(r, v)
    <2>1. v \in KernelPages
      OBVIOUS
    <2> QED
      BY <2>1 DEF OwnerOf
  <1>10. ASSUME NEW q \in S, NEW w \in VirtualPages
         PROVE  /\ w = v => EndOfWalk(m4, q, w) = ToPage(n2)
                /\ w # v => EndOfWalk(m4, q, w) = EndOfWalk(m2, q, w)
    BY <1>7, <1>9 DEF Mapped
  <1>11. IsTable(m4[BootRoot][Half])
    <2>1. IsTable(First(m4, r, v)) /\ m4[r][Half] = m4[BootRoot][Half]
      BY <1>7, <1>8, Sizes DEF Mapped, Tree, Shared
    <2> QED
      BY <2>1 DEF First
  <1>12. ToPage(n2).frame = n2 /\ MapsData(h4, n4, ToPage(n2))
    <2>1. ToPage(n2) = Entry("page", n2, 1, TRUE)
      BY <1>2, WrittenEntries
    <2>2. ToPage(n2).frame = n2
      BY <2>1 DEF Entry
    <2> QED
      <3>1. n2 \in 1 .. n4 - 1
        BY <1>6, <1>8
      <3>2. ToPage(n2) = Entry("page", ToPage(n2).frame, 1, TRUE)
        BY <2>1, <2>2, Zenon
      <3>3. ToPage(n2).frame \in 1 .. n4 - 1 /\ h4[ToPage(n2).frame].depth = 4
        BY <1>8, <2>2, <3>1
      <3> QED
        BY <2>2, <3>2, <3>3, Zenon DEF MapsData
  <1>13. b .. b + (i + 1) - 1 = (b .. b + i - 1) \cup {v}
    OBVIOUS
  <1>14. ASSUME NEW q \in S, NEW w \in VirtualPages
         PROVE  /\ w \in b .. b + (i + 1) - 1 =>
                     MapsData(h4, n4, EndOfWalk(m4, q, w)) /\ n <= EndOfWalk(m4, q, w).frame
                /\ w \notin b .. b + (i + 1) - 1 => EndOfWalk(m4, q, w) = EndOfWalk(m, q, w)
    <2>1. CASE w = v
      BY <1>1, <1>10, <1>12, <1>13, <2>1
    <2>2. CASE w \in b .. b + i - 1
      <3>1. /\ MapsData(h2, n2, EndOfWalk(m2, q, w)) /\ n <= EndOfWalk(m2, q, w).frame
            /\ EndOfWalk(m4, q, w) = EndOfWalk(m2, q, w)
        BY <1>1, <1>10, <2>2 DEF Filled
      <3>2. MapsData(h4, n4, EndOfWalk(m2, q, w))
        BY <1>1, <1>8, <3>1, StillData
      <3> QED
        BY <1>13, <2>2, <3>1, <3>2
    <2>3. CASE w \notin b .. b + i - 1 /\ w # v
      BY <1>10, <1>13, <2>3 DEF Filled
    <2> QED
      BY <2>1, <2>2, <2>3
  <1>15. BootRoot \in S
    BY DEF Tree
  <1>16. ASSUME NEW w \in b .. b + i - 1
         PROVE  /\ EndOfWalk(m4, BootRoot, w) = EndOfWalk(m2, BootRoot, w)
                /\ EndOfWalk(m4, BootRoot, w).frame # n2
    <2>1. w \in VirtualPages /\ w # v
      BY DEF KernelPages
    <2>2. /\ MapsData(h2, n2, EndOfWalk(m2, BootRoot, w))
          /\ EndOfWalk(m4, BootRoot, w) = EndOfWalk(m2, BootRoot, w)
      BY <1>10, <1>15, <2>1 DEF Filled
    <2> QED
      BY <1>1, <2>2 DEF MapsData
  <1>17. ASSUME NEW w \in b .. b + (i + 1) - 1, NEW x \in b .. b + (i + 1) - 1, w # x
         PROVE  EndOfWalk(m4, BootRoot, w).frame # EndOfWalk(m4, BootRoot, x).frame
    <2>1. EndOfWalk(m4, BootRoot, v).frame = n2
      BY <1>10, <1>12, <1>15
    <2>2. CASE w \in b .. b + i - 1 /\ x \in b .. b + i - 1
      BY <1>16, <1>17, <2>2 DEF Filled
    <2>3. CASE w = v \/ x = v
      BY <1>13, <1>16, <1>17, <2>1, <2>3
    <2> QED
      BY <1>13, <2>2, <2>3
  <1>18. Filled(h, m, n, S, b, i + 1, h4, m4, n4)
    BY <1>8, <1>11, <1>14, <1>17 DEF Filled
  <1> QED
    BY <1>7, <1>18

(* The recursive function of Allocated exists, whatever its length.        *)
NextState(s, i) == MapPage(TakeFrame(s), cr3, BasePage + allocated + i - 1, s.next)

States(after, i) ==
  IF i = 0 THEN Tables
  ELSE MapPage(TakeFrame(after[i - 1]), cr3, BasePage + allocated + i - 1, after[i - 1].next)

IsRun(after, k) == after = [i \in 0 .. k |-> States(after, i)]

HasPages(after, k) == after = [i \in 0 .. k |-> after[i]]

LEMMA RunIs ==
  ASSUME NEW after, NEW k \in Nat, HasPages(after, k), after[0] = Tables,
         \A i \in 1 .. k : after[i] = NextState(after[i - 1], i)
  PROVE  IsRun(after, k)
  <1>1. ASSUME NEW i \in 0 .. k PROVE after[i] = States(after, i)
    <2>1. CASE i = 0
      BY <2>1 DEF States
    <2>2. CASE i # 0
      <3>1. i \in 1 .. k
        BY <2>2
      <3>2. after[i] = NextState(after[i - 1], i)
        BY <3>1
      <3> QED
        BY <2>2, <3>2 DEF States, NextState
    <2> QED
      BY <2>1, <2>2
  <1>2. [i \in 0 .. k |-> after[i]] = [i \in 0 .. k |-> States(after, i)]
    BY <1>1
  <1>3. after = [i \in 0 .. k |-> States(after, i)]
    BY <1>2 DEF HasPages
  <1> QED
    BY <1>3, Zenon DEF IsRun

LEMMA RunHas ==
  ASSUME NEW after, NEW k \in Nat, IsRun(after, k)
  PROVE  /\ after[0] = Tables
         /\ \A i \in 1 .. k : after[i] = NextState(after[i - 1], i)
  <1>1. after = [i \in 0 .. k |-> States(after, i)]
    BY Zenon DEF IsRun
  <1>2. \A i \in 0 .. k : after[i] = States(after, i)
    BY <1>1
  <1>3. after[0] = Tables
    BY <1>2 DEF States
  <1>4. ASSUME NEW i \in 1 .. k PROVE after[i] = NextState(after[i - 1], i)
    <2>1. i \in 0 .. k /\ i # 0
      OBVIOUS
    <2>2. after[i] = States(after, i)
      BY <1>2, <2>1
    <2> QED
      BY <2>1, <2>2 DEF States, NextState
  <1> QED
    BY <1>3, <1>4

LEMMA RunExists == \A k \in Nat : \E after : IsRun(after, k)
  <1> DEFINE Long == {k \in Nat : \E after : IsRun(after, k)}
  <1>1. 0 \in Long
    <2> DEFINE after == [i \in 0 .. 0 |-> Tables]
    <2>1. HasPages(after, 0) /\ after[0] = Tables
      BY DEF HasPages
    <2> HIDE DEF after
    <2>2. IsRun(after, 0)
      BY <2>1, RunIs
    <2> QED
      BY <2>2
  <1>2. ASSUME NEW k \in Nat, k \in Long PROVE k + 1 \in Long
    <2>1. PICK f : IsRun(f, k)
      BY <1>2
    <2>2. f[0] = Tables /\ \A i \in 1 .. k : f[i] = NextState(f[i - 1], i)
      BY <2>1, RunHas
    <2> DEFINE last == NextState(f[k], k + 1)
               after == [i \in 0 .. k + 1 |-> IF i = k + 1 THEN last ELSE f[i]]
    <2>7. HasPages(after, k + 1)
      BY DEF HasPages
    <2>3. after[k + 1] = last /\ \A i \in 0 .. k : after[i] = f[i]
      <3> HIDE DEF last
      <3> QED
        OBVIOUS
    <2> HIDE DEF after
    <2>4. ASSUME NEW i \in 1 .. k + 1 PROVE after[i] = NextState(after[i - 1], i)
      <3>1. CASE i = k + 1
        <4>1. i - 1 = k /\ after[k] = f[k]
          BY <2>3, <3>1
        <4> QED
          BY <2>3, <3>1, <4>1
      <3>2. CASE i # k + 1
        <4>1. i \in 1 .. k /\ i - 1 \in 0 .. k /\ i \in 0 .. k
          BY <3>2
        <4>2. after[i] = f[i] /\ after[i - 1] = f[i - 1]
          BY <2>3, <4>1
        <4> QED
          BY <2>2, <4>1, <4>2
      <3> QED
        BY <3>1, <3>2
    <2>5. after[0] = Tables /\ k + 1 \in Nat
      BY <2>2, <2>3
    <2>6. IsRun(after, k + 1)
      BY <2>4, <2>5, <2>7, RunIs
    <2> QED
      BY <2>5, <2>6
  <1> HIDE DEF Long
  <1>3. \A k \in Nat : k \in Long
    BY <1>1, <1>2, SetInduction
  <1> QED
    BY <1>3 DEF Long

LEMMA AllocatedRuns ==
  ASSUME NEW count \in Nat
  PROVE  \E after : /\ after[0] = Tables
                    /\ \A i \in 1 .. count : after[i] = NextState(after[i - 1], i)
                    /\ Allocated(count) = after[count]
  <1> DEFINE W == CHOOSE after : IsRun(after, count)
  <1>1. Allocated(count) = W[count]
    BY DEF Allocated, IsRun, States
  <1>2. IsRun(W, count)
    BY RunExists, Zenon
  <1> HIDE DEF W
  <1> QED
    BY <1>1, <1>2, RunHas

(* The pages that are asked for next.                                      *)
LEMMA PagesToFill ==
  ASSUME allocated \in Nat, NEW count \in Nat, RoomFor(count)
  PROVE  LET b == BasePage + allocated
         IN  /\ BasePage \in Nat /\ b \in Nat /\ BasePage <= b
             /\ \A v \in b .. b + count - 1 :
                  /\ v \in KernelPages /\ v \in VirtualPages /\ v \in DynamicPages
                  /\ IndexPml4(v) = Half
  <1> DEFINE b == BasePage + allocated
  <1>1. BasePage \in VirtualPages
    BY PlaceAssumption
  <1>2. BasePage \in Nat
    BY <1>1, PlaceOfPage
  <1>3. b \in Nat /\ BasePage <= b
    BY <1>2
  <1>4. ASSUME NEW v \in b .. b + count - 1
        PROVE  /\ v \in KernelPages /\ v \in VirtualPages /\ v \in DynamicPages
               /\ IndexPml4(v) = Half
    <2>1. IndexPml4(v) = Half /\ v \in Nat /\ v >= BasePage
      BY <1>2, <1>3 DEF RoomFor, NextPages
    <2>2. IndexPml4(v) \in Index
      BY <2>1, Sizes
    <2>3. v \in VirtualPages /\ v \in KernelPages
      BY <2>1, <2>2, PagesOfTheHalf, Sizes
    <2> QED
      BY <2>1, <2>3 DEF DynamicPages
  <1> QED
    BY <1>2, <1>3, <1>4

LEMMA NothingFilled ==
  ASSUME NEW h, NEW m, NEW n, NEW S, Tree(h, m, n, S), NEW b \in Nat
  PROVE  Filled(h, m, n, S, b, 0, h, m, n)
  <1>1. b .. b + 0 - 1 = {}
    OBVIOUS
  <1>2. n <= n /\ ~(0 > 0)
    BY GivenFrames
  <1> QED
    BY <1>1, <1>2 DEF Filled, Extends

LEMMA AllocatedFills ==
  ASSUME NEW h, Tree(h, memory, nextFrame, Spaces), cr3 \in Spaces, allocated \in Nat,
         NEW count \in Nat, RoomFor(count),
         \A v \in DynamicPages :
           BasePage + allocated <= v => EndOfWalk(memory, BootRoot, v) = Absent,
         Spaces = {cr3} \/ IsTable(memory[BootRoot][Half]),
         Enough(Allocated(count))
  PROVE  \E h2, m2, n2, f2 :
           /\ Allocated(count) = State(m2, n2, f2, NotTwice)
           /\ Filled(h, memory, nextFrame, Spaces, BasePage + allocated, count, h2, m2, n2)
  <1> DEFINE b == BasePage + allocated
             Fills(s, i) == \E h2, m2, n2, f2 :
               /\ s = State(m2, n2, f2, NotTwice)
               /\ Filled(h, memory, nextFrame, Spaces, b, i, h2, m2, n2)
             IsState(s) == \E m, f, tw : \E n \in Nat : s = State(m, n, f, tw)
  <1>1. /\ BasePage \in Nat /\ b \in Nat
        /\ \A v \in b .. b + count - 1 :
             /\ v \in KernelPages /\ v \in VirtualPages /\ v \in DynamicPages
             /\ IndexPml4(v) = Half
    BY PagesToFill
  <1>2. PICK after : /\ after[0] = Tables
                     /\ \A i \in 1 .. count : after[i] = NextState(after[i - 1], i)
                     /\ Allocated(count) = after[count]
    BY AllocatedRuns
  <1>3. ASSUME NEW v \in b .. b + count - 1
        PROVE  EndOfWalk(memory, cr3, v) = Absent
    <2>1. v \in KernelPages /\ v \in DynamicPages /\ b <= v
      BY <1>1
    <2>2. EndOfWalk(memory, BootRoot, v) = Absent
      BY <2>1
    <2> QED
      BY <2>1, <2>2, KernelWalks
  <1> DEFINE Done == {i \in Nat : i <= count => IsState(after[i])
                                               /\ (Enough(after[i]) => Fills(after[i], i))}
  <1>4. 0 \in Done
    <2>1. Tables = State(memory, nextFrame, cr3, NotTwice)
      BY DEF Tables, State, NotTwice
    <2>2. nextFrame \in Nat
      BY GivenFrames
    <2>3. Filled(h, memory, nextFrame, Spaces, b, 0, h, memory, nextFrame)
      BY <1>1, NothingFilled
    <2> HIDE DEF b
    <2>4. IsState(after[0])
      BY <1>2, <2>1, <2>2
    <2>5. Fills(after[0], 0)
      BY <1>2, <2>1, <2>3
    <2> HIDE DEF IsState, Fills
    <2> QED
      BY <2>4, <2>5
  <1>5. ASSUME NEW i \in Nat, i \in Done PROVE i + 1 \in Done
    <2> SUFFICES ASSUME i + 1 <= count
                 PROVE  IsState(after[i + 1]) /\ (Enough(after[i + 1]) => Fills(after[i + 1], i + 1))
      <3> HIDE DEF IsState, Fills
      <3> QED
        OBVIOUS
    <2> DEFINE v == b + i
    <2>1. v \in b .. b + count - 1 /\ BasePage + allocated + (i + 1) - 1 = v
      BY <1>1
    <2>2. after[i + 1] = NextState(after[i], i + 1)
      <3>1. i + 1 \in 1 .. count /\ (i + 1) - 1 = i
        OBVIOUS
      <3>2. after[i + 1] = NextState(after[(i + 1) - 1], i + 1)
        BY <1>2, <3>1
      <3> QED
        BY <3>1, <3>2
    <2>3. after[i + 1] = MapPage(TakeFrame(after[i]), cr3, v, after[i].next)
      BY <2>1, <2>2 DEF NextState
    <2>4. i <= count
      OBVIOUS
    <2>5. IsState(after[i]) /\ (Enough(after[i]) => Fills(after[i], i))
      <3> HIDE DEF IsState, Fills
      <3> QED
        BY <1>5, <2>4
    <2>6. PICK m1, f1, tw1 : \E n1 \in Nat : after[i] = State(m1, n1, f1, tw1)
      BY <2>5
    <2>7. PICK n1 \in Nat : after[i] = State(m1, n1, f1, tw1)
      BY <2>6
    <2>8. after[i + 1] = MapPage(State(m1, n1 + 1, f1, tw1), cr3, v, n1)
      BY <2>3, <2>7, TakeFrameIs, StateFields
    <2>9. n1 + 1 \in Nat
      OBVIOUS
    <2> HIDE DEF v
    <2>10. PICK m5, f5, tw5 : \E n5 \in Nat :
             /\ MapPage(State(m1, n1 + 1, f1, tw1), cr3, v, n1) = State(m5, n5, f5, tw5)
             /\ n1 + 1 <= n5
      BY <2>9, MapPageGrows
    <2>11. PICK n5 \in Nat : after[i + 1] = State(m5, n5, f5, tw5) /\ n1 + 1 <= n5
      BY <2>8, <2>10
    <2>12. IsState(after[i + 1])
      BY <2>11
    <2>13. ASSUME Enough(after[i + 1]) PROVE Fills(after[i + 1], i + 1)
      <3>1. after[i + 1].next = n5 /\ after[i].next = n1
        BY <2>7, <2>11, StateFields
      <3>2. Enough(after[i])
        BY <2>11, <2>13, <3>1, SizeAssumption DEF Enough
      <3>3. PICK h2, m2, n2, f2 :
              /\ after[i] = State(m2, n2, f2, NotTwice)
              /\ Filled(h, memory, nextFrame, Spaces, b, i, h2, m2, n2)
        BY <2>5, <3>2
      <3>4. after[i + 1] = MapPage(State(m2, n2 + 1, f2, NotTwice), cr3, v, n2)
        BY <2>3, <3>3, TakeFrameIs, StateFields DEF v
      <3>5. Enough(MapPage(State(m2, n2 + 1, f2, NotTwice), cr3, v, n2))
        BY <2>13, <3>4
      <3>6. v = b + i /\ v \in VirtualPages /\ IndexPml4(v) = Half
        BY <1>1, <2>1 DEF v
      <3>7. \A w \in b .. v : w \in KernelPages
        <4> HIDE DEF b
        <4> QED
          BY <1>1, <2>1 DEF v
      <3>8. EndOfWalk(memory, cr3, v) = Absent
        BY <1>3, <2>1 DEF v
      <3>9. Spaces = {cr3} \/ IsTable(m2[BootRoot][Half])
        <4>1. CASE i = 0
          <5>1. after[i] = State(memory, nextFrame, cr3, NotTwice)
            BY <1>2, <4>1 DEF Tables, State, NotTwice
          <5>2. m2 = memory
            <6>1. after[i].memory = m2
              BY <3>3, StateFields
            <6>2. after[i].memory = memory
              BY <5>1, StateFields
            <6> QED
              BY <6>1, <6>2
          <5> QED
            BY <5>2
        <4>2. CASE i > 0
          BY <3>3, <4>2 DEF Filled
        <4> QED
          BY <4>1, <4>2
      <3> HIDE DEF b
      <3>10. PICK h4, m4, n4, f4 :
               /\ MapPage(State(m2, n2 + 1, f2, NotTwice), cr3, v, n2) = State(m4, n4, f4, NotTwice)
               /\ Filled(h, memory, nextFrame, Spaces, b, i + 1, h4, m4, n4)
        BY <1>1, <3>3, <3>5, <3>6, <3>7, <3>8, <3>9, FillOneMore
      <3> QED
        BY <3>4, <3>10 DEF b
    <2> HIDE DEF IsState, Fills
    <2> QED
      BY <2>12, <2>13
  <1> HIDE DEF Done
  <1>6. \A i \in Nat : i \in Done
    BY <1>4, <1>5, SetInduction
  <1>7. Enough(after[count]) => Fills(after[count], count)
    <2> HIDE DEF IsState, Fills
    <2> QED
      BY <1>6 DEF Done
  <1> QED
    BY <1>2, <1>7

-----------------------------------------------------------------------------
(* allocate_process: a space of its own, with two pages.                   *)

KernelCopied(m, n) == [m EXCEPT ![n] = KernelHalf(m[cr3])]

LEMMA NewRootIs ==
  ASSUME NEW m, NEW n, NEW f, NEW tw
  PROVE  NewRoot(State(m, n, f, tw)) = State(KernelCopied(m, n), n + 1, f, tw)
  <1> DEFINE table == KernelHalf(m[cr3])
             m2 == KernelCopied(m, n)
             s == State(m, n, f, tw)
  <1>1. s.memory = m /\ s.next = n
    BY StateFields
  <1>2. NewRoot(s) = [s EXCEPT !.memory[n] = table, !.next = n + 1]
    BY <1>1, Zenon DEF NewRoot, KernelHalf
  <1>3. [m EXCEPT ![n] = table] = m2
    BY DEF KernelCopied
  <1> HIDE DEF s, m2, table
  <1>4. [s EXCEPT !.memory[n] = table] = [s EXCEPT !.memory = m2]
    BY <1>1, <1>3, Zenon
  <1>5. [s EXCEPT !.memory[n] = table, !.next = n + 1] =
          [[s EXCEPT !.memory[n] = table] EXCEPT !.next = n + 1]
    BY Zenon
  <1>6. [State(m, n, f, tw) EXCEPT !.memory = m2] = State(m2, n, f, tw)
    BY Z3 DEF State
  <1>7. [State(m2, n, f, tw) EXCEPT !.next = n + 1] = State(m2, n + 1, f, tw)
    BY Z3 DEF State
  <1>8. [s EXCEPT !.memory[n] = table, !.next = n + 1] = State(m2, n + 1, f, tw)
    BY <1>4, <1>5, <1>6, <1>7 DEF s
  <1> QED
    BY <1>2, <1>8 DEF m2, s

LEMMA KernelCopiedIs ==
  ASSUME NEW m \in MemoryType, NEW n \in Frames, cr3 \in Frames
  PROVE  /\ KernelCopied(m, n) \in MemoryType
         /\ KernelCopied(m, n)[n] = KernelHalf(m[cr3])
         /\ \A g \in Frames : g # n => KernelCopied(m, n)[g] = m[g]
  <1> DEFINE table == KernelHalf(m[cr3])
  <1>1. table \in [Index -> EntryType]
    BY EntryTypes DEF KernelHalf, MemoryType
  <1>2. KernelCopied(m, n) = [m EXCEPT ![n] = table]
    BY DEF KernelCopied
  <1> HIDE DEF table
  <1>3. /\ KernelCopied(m, n) \in MemoryType /\ KernelCopied(m, n)[n] = table
        /\ \A g \in Frames : g # n => KernelCopied(m, n)[g] = m[g]
    BY <1>1, <1>2 DEF MemoryType
  <1> QED
    BY <1>3 DEF table

(* A page of data is reached through three tables, and translates to its   *)
(* frame.                                                                  *)
LEMMA DataIsReached ==
  ASSUME NEW h, NEW m, NEW n, NEW S, Tree(h, m, n, S), NEW r \in S, NEW v \in VirtualPages,
         MapsData(h, n, EndOfWalk(m, r, v))
  PROVE  Reaches(m, r, v, Third(m, r, v).frame)
  <1>1. ASSUME NEW home, home.depth <= 2, NEW i, NEW e, EntryOK(h, n, home, i, e),
               MapsData(h, n, e)
        PROVE  IsTable(e)
    <2>1. e.leads = "page" /\ e.frame \in 1 .. n - 1 /\ e.frame # 0
      <3>1. e = Entry("page", e.frame, 1, TRUE) /\ e.frame \in 1 .. n - 1
        BY <1>1, Zenon DEF MapsData
      <3>2. Entry("page", e.frame, 1, TRUE).leads = "page"
        BY DEF Entry
      <3>3. e.leads = "page"
        BY <3>1, <3>2, Zenon
      <3> QED
        BY <3>1, <3>3
    <2>2. e # Absent
      BY <2>1 DEF Absent, Entry
    <2>3. e # Entry("page", 0, Reach * Reach, FALSE)
      BY <2>1 DEF Entry
    <2>4. TableIn(h, n, home, i, e)
      <3>1. home.depth # 3
        BY <1>1
      <3> QED
        BY <1>1, <2>2, <2>3, <3>1, Zenon DEF EntryOK
    <2>5. e.leads = "table"
      BY <2>4 DEF TableIn, Entry
    <2> QED
      BY <2>1, <2>5
  <1>2. /\ IndexPml4(v) \in Index /\ IndexPdp(v) \in Index /\ IndexPd(v) \in Index
    BY PlaceOfPage
  <1>3. r \in 1 .. n - 1 /\ h[r].depth = 0
    BY DEF Tree
  <1>4. IsTable(First(m, r, v))
    <2> SUFFICES ASSUME ~IsTable(First(m, r, v)) PROVE FALSE
      OBVIOUS
    <2>1. EntryOK(h, n, h[r], IndexPml4(v), First(m, r, v))
      BY <1>2, <1>3 DEF Tree, Entries, First
    <2>2. MapsData(h, n, First(m, r, v))
      BY EndOfWalkIs
    <2> QED
      BY <1>1, <1>3, <2>1, <2>2
  <1>5. IsTable(Second(m, r, v))
    <2> SUFFICES ASSUME ~IsTable(Second(m, r, v)) PROVE FALSE
      OBVIOUS
    <2> DEFINE one == First(m, r, v).frame
    <2>1. one \in 1 .. n - 1 /\ h[one].depth = 1
      BY <1>4, WalkHomes
    <2>2. m[one][IndexPdp(v)] = Second(m, r, v)
      BY DEF Second
    <2> HIDE DEF one
    <2>3. EntryOK(h, n, h[one], IndexPdp(v), Second(m, r, v))
      BY <1>2, <2>1, <2>2 DEF Tree, Entries
    <2>4. MapsData(h, n, Second(m, r, v))
      BY <1>4, EndOfWalkIs
    <2> QED
      BY <1>1, <2>1, <2>3, <2>4
  <1>6. IsTable(Third(m, r, v))
    <2> SUFFICES ASSUME ~IsTable(Third(m, r, v)) PROVE FALSE
      OBVIOUS
    <2> DEFINE two == Second(m, r, v).frame
    <2>1. two \in 1 .. n - 1 /\ h[two].depth = 2
      BY <1>4, <1>5, WalkHomes
    <2>2. m[two][IndexPd(v)] = Third(m, r, v)
      BY DEF Third
    <2> HIDE DEF two
    <2>3. EntryOK(h, n, h[two], IndexPd(v), Third(m, r, v))
      BY <1>2, <2>1, <2>2 DEF Tree, Entries
    <2>4. MapsData(h, n, Third(m, r, v))
      BY <1>4, <1>5, EndOfWalkIs
    <2> QED
      BY <1>1, <2>1, <2>3, <2>4
  <1> QED
    BY <1>4, <1>5, <1>6 DEF Reaches

LEMMA DataTranslates ==
  ASSUME NEW h, NEW n, NEW m, NEW r, NEW v \in Nat, MapsData(h, n, EndOfWalk(m, r, v))
  PROVE  Translate(m, r, v) = EndOfWalk(m, r, v).frame
  <1> DEFINE e == EndOfWalk(m, r, v)
  <1>1. e = Entry("page", e.frame, 1, TRUE) /\ e.frame \in 1 .. n - 1
    BY Zenon DEF MapsData
  <1>2. e.leads = "page" /\ e.span = 1
    <2>1. Entry("page", e.frame, 1, TRUE).leads = "page" /\ Entry("page", e.frame, 1, TRUE).span = 1
      BY DEF Entry
    <2> HIDE DEF e
    <2> QED
      BY <1>1, <2>1, Zenon
  <1>3. Translate(m, r, v) = e.frame + (v % e.span)
    BY <1>2 DEF Translate
  <1> HIDE DEF e
  <1>4. v % 1 = 0
    OBVIOUS
  <1>5. e.frame \in Int
    BY <1>1
  <1>6. Translate(m, r, v) = e.frame + 0
    BY <1>2, <1>3, <1>4
  <1> QED
    BY <1>5, <1>6 DEF e

LEMMA AbsentTranslates ==
  ASSUME NEW m, NEW r, NEW v, EndOfWalk(m, r, v) = Absent
  PROVE  Translate(m, r, v) = NoFrame
  BY DEF Translate, Absent, Entry

LEMMA ProcessTablesIs ==
  ASSUME NEW m, NEW n \in Nat, NEW f, NEW tw, Allocated(1) = State(m, n, f, tw),
         NEW m2, NEW n2, NEW f2, NEW tw2,
         MapPage(State(KernelCopied(m, n), n + 2, f, tw), n, StackPage, n + 1) =
           State(m2, n2, f2, tw2)
  PROVE  ProcessTables =
           MapPage(State(m2, n2, f2, tw2), n, CodePage, Translate(m2, cr3, BasePage + allocated))
  <1> DEFINE program == Allocated(1)
             root == program.next
             rooted == NewRoot(program)
             stacked == MapPage(TakeFrame(rooted), root, StackPage, rooted.next)
  <1>1. ProcessTables = MapPage(stacked, root, CodePage,
                                Translate(stacked.memory, cr3, BasePage + allocated))
    BY DEF ProcessTables
  <1>2. root = n
    BY StateFields
  <1>3. rooted = State(KernelCopied(m, n), n + 1, f, tw)
    BY NewRootIs
  <1> HIDE DEF program, root, rooted
  <1>4. rooted.next = n + 1
    BY <1>3, StateFields
  <1>5. TakeFrame(rooted) = State(KernelCopied(m, n), n + 2, f, tw)
    <2>1. TakeFrame(rooted) = State(KernelCopied(m, n), (n + 1) + 1, f, tw)
      BY <1>3, TakeFrameIs
    <2>2. (n + 1) + 1 = n + 2
      OBVIOUS
    <2> QED
      BY <2>1, <2>2
  <1>6. stacked = State(m2, n2, f2, tw2)
    BY <1>2, <1>4, <1>5
  <1> HIDE DEF stacked
  <1>7. stacked.memory = m2
    BY <1>6, StateFields
  <1> QED
    BY <1>1, <1>2, <1>6, <1>7

(* There are frames for all of it.                                         *)
LEMMA ProcessNeeds ==
  ASSUME nextFrame \in Nat, Enough(ProcessTables),
         NEW m, NEW n \in Nat, NEW f, NEW tw, Allocated(1) = State(m, n, f, tw)
  PROVE  /\ n + 1 <= FrameCount
         /\ Enough(MapPage(State(KernelCopied(m, n), n + 2, f, tw), n, StackPage, n + 1))
  <1> DEFINE s == MapPage(State(KernelCopied(m, n), n + 2, f, tw), n, StackPage, n + 1)
  <1>1. n + 2 \in Nat
    OBVIOUS
  <1>2. PICK m2, f2, tw2 : \E n2 \in Nat : s = State(m2, n2, f2, tw2) /\ n + 2 <= n2
    BY <1>1, MapPageGrows
  <1>3. PICK n2 \in Nat : s = State(m2, n2, f2, tw2) /\ n + 2 <= n2
    BY <1>2
  <1> DEFINE g == Translate(m2, cr3, BasePage + allocated)
  <1>4. ProcessTables = MapPage(State(m2, n2, f2, tw2), n, CodePage, g)
    BY <1>3, ProcessTablesIs
  <1> HIDE DEF g
  <1>5. PICK m3, f3, tw3 : \E n3 \in Nat : ProcessTables = State(m3, n3, f3, tw3) /\ n2 <= n3
    BY <1>4, MapPageGrows
  <1>6. PICK n3 \in Nat : ProcessTables = State(m3, n3, f3, tw3) /\ n2 <= n3
    BY <1>5
  <1>7. ProcessTables.next = n3
    BY <1>6, StateFields
  <1>8. n3 <= FrameCount + 1
    BY <1>7 DEF Enough
  <1>9. FrameCount \in Nat
    BY SizeAssumption
  <1> HIDE DEF s
  <1>10. s.next = n2
    BY <1>3, StateFields
  <1>11. n + 1 <= FrameCount /\ n2 <= FrameCount + 1
    BY <1>3, <1>6, <1>8, <1>9
  <1>12. Enough(s)
    BY <1>10, <1>11 DEF Enough
  <1> QED
    BY <1>11, <1>12 DEF s

LEMMA AllocatedOne ==
  ASSUME nextFrame \in Nat
  PROVE  \E m, f, tw : \E n \in Nat : Allocated(1) = State(m, n, f, tw)
  <1>1. PICK after : /\ after[0] = Tables
                     /\ \A i \in 1 .. 1 : after[i] = NextState(after[i - 1], i)
                     /\ Allocated(1) = after[1]
    BY AllocatedRuns
  <1>2. after[1] = NextState(Tables, 1)
    <2>1. after[1] = NextState(after[1 - 1], 1)
      BY <1>1
    <2> QED
      BY <1>1, <2>1
  <1> DEFINE v == BasePage + allocated + 1 - 1
  <1>3. Tables = State(memory, nextFrame, cr3, NotTwice)
    BY DEF Tables, State, NotTwice
  <1>4. Allocated(1) = MapPage(State(memory, nextFrame + 1, cr3, NotTwice), cr3, v, nextFrame)
    BY <1>1, <1>2, <1>3, TakeFrameIs, StateFields DEF NextState
  <1>5. nextFrame + 1 \in Nat
    OBVIOUS
  <1> HIDE DEF v
  <1> QED
    BY <1>4, <1>5, MapPageGrows

(* A space r was made in memory m2, from m in which the program's page is  *)
(* the last that was mapped.                                               *)
Started(h, m, n, S, program, h2, m2, n2) ==
  /\ Tree(h2, m2, n2, S \cup {n})
  /\ Extends(h2, h, n)
  /\ n < n2
  /\ IsTable(m2[BootRoot][Half])
  /\ \A q \in S : \A w \in VirtualPages : EndOfWalk(m2, q, w) = EndOfWalk(m, q, w)
  /\ MapsData(h2, n2, EndOfWalk(m2, n, StackPage))
  /\ n < EndOfWalk(m2, n, StackPage).frame
  /\ MapsData(h2, n2, EndOfWalk(m2, n, CodePage))
  /\ EndOfWalk(m2, n, CodePage).frame = EndOfWalk(m, BootRoot, program).frame
  /\ \A w \in VirtualPages \ KernelPages :
       w # CodePage /\ w # StackPage => EndOfWalk(m2, n, w) = Absent

LEMMA ToPageIsData ==
  ASSUME NEW h, NEW m, NEW n, NEW S, Tree(h, m, n, S), NEW g \in 1 .. n - 1, h[g].depth = 4
  PROVE  MapsData(h, n, ToPage(g)) /\ ToPage(g).frame = g
  <1>1. g \in Frames
    BY GivenFrames
  <1>2. ToPage(g) = Entry("page", g, 1, TRUE)
    BY <1>1, WrittenEntries
  <1>3. ToPage(g).frame = g
    BY <1>2 DEF Entry
  <1>4. ToPage(g) = Entry("page", ToPage(g).frame, 1, TRUE)
    BY <1>2, <1>3, Zenon
  <1>5. ToPage(g).frame \in 1 .. n - 1 /\ h[ToPage(g).frame].depth = 4
    BY <1>3
  <1> QED
    BY <1>3, <1>4, <1>5, Zenon DEF MapsData

LEMMA ProcessStarts ==
  ASSUME NEW h, NEW m, NEW n, NEW S, Tree(h, m, n, S), cr3 \in S,
         NEW f, Allocated(1) = State(m, n, f, NotTwice),
         nextFrame \in Nat, Enough(ProcessTables),
         NEW program, program = BasePage + allocated,
         program \in KernelPages, program \in VirtualPages,
         MapsData(h, n, EndOfWalk(m, BootRoot, program)),
         IsTable(m[BootRoot][Half])
  PROVE  \E h2, m2, n2, f2 :
           /\ ProcessTables = State(m2, n2, f2, NotTwice)
           /\ Started(h, m, n, S, program, h2, m2, n2)
  <1>1. /\ n \in Nat /\ n \in Frames /\ n + 1 \in Frames /\ m \in MemoryType
        /\ cr3 \in Frames /\ cr3 \in 1 .. n - 1
        /\ \A g \in 1 .. n - 1 : g \in Frames /\ g # n
        /\ \A q \in S : q \in 1 .. n - 1
    <2>1. /\ n \in Nat /\ n >= 4 /\ m \in MemoryType /\ cr3 \in 1 .. n - 1
          /\ \A g \in 1 .. n - 1 : g \in Frames /\ g # n
          /\ \A q \in S : q \in 1 .. n - 1
      BY GivenFrames
    <2>2. n + 1 <= FrameCount
      BY <2>1, ProcessNeeds
    <2> QED
      BY <2>1, <2>2, SizeAssumption DEF Frames
  (* the top-level table *)
  <1> DEFINE m1 == KernelCopied(m, n)
             R == S \cup {n}
  <1>2. /\ m1 \in MemoryType /\ m1[n] = KernelHalf(m[cr3])
        /\ \A g \in 1 .. n - 1 : m1[g] = m[g]
    BY <1>1, KernelCopiedIs
  <1> HIDE DEF m1
  <1>3. PICK h1 : Tree(h1, m1, n + 1, R) /\ Extends(h1, h, n)
    BY <1>1, <1>2, RootTree
  <1>4. \A w \in VirtualPages \ KernelPages : EndOfWalk(m1, n, w) = Absent
    BY <1>2, RootWalks
  <1>5. ASSUME NEW q \in S, NEW w \in VirtualPages
        PROVE  EndOfWalk(m1, q, w) = EndOfWalk(m, q, w)
    BY <1>2, SameWalks
  <1>6. n \in R /\ n \notin S /\ \A q \in S : q \in R
    BY <1>1
  (* the stack *)
  <1>7. PICK h3 : Tree(h3, m1, (n + 1) + 1, R) /\ Extends(h3, h1, n + 1) /\ h3[n + 1].depth = 4
    BY <1>1, <1>3, DataTree
  <1>8. (n + 1) + 1 = n + 2 /\ n + 1 \in 1 .. (n + 2) - 1 /\ n + 2 \in Nat
    BY <1>1
  <1>9. Tree(h3, m1, n + 2, R)
    BY <1>7, <1>8
  <1>10. StackPage \in VirtualPages /\ StackPage \notin KernelPages
         /\ CodePage \in VirtualPages /\ CodePage \notin KernelPages /\ CodePage # StackPage
    BY PlaceAssumption
  <1>11. Enough(MapPage(State(m1, n + 2, f, NotTwice), n, StackPage, n + 1))
    BY <1>1, ProcessNeeds DEF m1
  <1> HIDE DEF R
  <1>12. PICK h4, m4, n4, f4 :
           /\ MapPage(State(m1, n + 2, f, NotTwice), n, StackPage, n + 1) = State(m4, n4, f4, NotTwice)
           /\ Mapped(h3, m1, n + 2, R, n, StackPage, n + 1, h4, m4, n4)
    <2>1. EndOfWalk(m1, n, StackPage) = Absent
      BY <1>4, <1>10
    <2> QED
      BY <1>6, <1>7, <1>8, <1>9, <1>10, <1>11, <2>1, MapPageMaps
  <1>13. /\ Tree(h4, m4, n4, R) /\ Extends(h4, h3, n + 2) /\ n + 2 <= n4 /\ n4 \in Nat
         /\ TablesKept(m1, m4, n + 2)
    <2>1. /\ Tree(h4, m4, n4, R) /\ Extends(h4, h3, n + 2) /\ n + 2 <= n4
          /\ TablesKept(m1, m4, n + 2)
      BY <1>12 DEF Mapped
    <2> QED
      BY <2>1, GivenFrames
  <1>14. ASSUME NEW q \in S, NEW w \in VirtualPages, NEW u, u \notin KernelPages
         PROVE  ~(w = u /\ OwnerOf(q, w) = OwnerOf(n, u))
    BY <1>6, <1>14 DEF OwnerOf
  <1>15. ASSUME NEW q \in S, NEW w \in VirtualPages
         PROVE  EndOfWalk(m4, q, w) = EndOfWalk(m, q, w)
    <2>1. EndOfWalk(m4, q, w) = EndOfWalk(m1, q, w)
      BY <1>6, <1>10, <1>12, <1>14 DEF Mapped
    <2> QED
      BY <1>5, <2>1
  <1>16. EndOfWalk(m4, n, StackPage) = ToPage(n + 1)
    BY <1>6, <1>10, <1>12 DEF Mapped
  <1>17. ASSUME NEW w \in VirtualPages, w \notin KernelPages, w # StackPage
         PROVE  EndOfWalk(m4, n, w) = Absent
    <2>1. EndOfWalk(m4, n, w) = EndOfWalk(m1, n, w)
      BY <1>6, <1>12, <1>17 DEF Mapped
    <2> QED
      BY <1>4, <1>17, <2>1
  (* the program *)
  <1> DEFINE g == EndOfWalk(m, BootRoot, program).frame
  <1>18. Translate(m4, cr3, program) = g
    <2>1. EndOfWalk(m4, cr3, program) = EndOfWalk(m, BootRoot, program)
      BY <1>15, KernelWalks
    <2>2. program \in Nat
      BY PlaceOfPage
    <2>3. MapsData(h, n, EndOfWalk(m4, cr3, program))
      BY <2>1
    <2> QED
      BY <2>1, <2>2, <2>3, DataTranslates
  <1>19. ProcessTables = MapPage(State(m4, n4, f4, NotTwice), n, CodePage, g)
    <2>1. ProcessTables = MapPage(State(m4, n4, f4, NotTwice), n, CodePage,
                                  Translate(m4, cr3, BasePage + allocated))
      BY <1>1, <1>12, ProcessTablesIs DEF m1
    <2> QED
      BY <1>18, <2>1
  <1>20. g \in 1 .. n - 1 /\ h[g].depth = 4
    BY DEF MapsData
  <1> HIDE DEF g
  <1>21. g \in 1 .. n4 - 1 /\ h4[g].depth = 4
    BY <1>1, <1>3, <1>7, <1>13, <1>20 DEF Extends
  <1>22. PICK h5, m5, n5, f5 :
           /\ MapPage(State(m4, n4, f4, NotTwice), n, CodePage, g) = State(m5, n5, f5, NotTwice)
           /\ Mapped(h4, m4, n4, R, n, CodePage, g, h5, m5, n5)
    <2>1. EndOfWalk(m4, n, CodePage) = Absent
      BY <1>10, <1>17
    <2>2. Enough(MapPage(State(m4, n4, f4, NotTwice), n, CodePage, g))
      BY <1>19
    <2> QED
      BY <1>6, <1>10, <1>13, <1>21, <2>1, <2>2, MapPageMaps
  <1>23. /\ Tree(h5, m5, n5, R) /\ Extends(h5, h4, n4) /\ n4 <= n5 /\ n5 \in Nat
         /\ TablesKept(m4, m5, n4)
    <2>1. /\ Tree(h5, m5, n5, R) /\ Extends(h5, h4, n4) /\ n4 <= n5
          /\ TablesKept(m4, m5, n4)
      BY <1>22 DEF Mapped
    <2> QED
      BY <2>1, GivenFrames
  (* together *)
  <1>24. Extends(h5, h, n) /\ n < n5 /\ n + 1 \in 1 .. n5 - 1 /\ h5[n + 1].depth = 4
         /\ g \in 1 .. n5 - 1 /\ h5[g].depth = 4
    <2>1. n < n5 /\ n + 1 \in 1 .. n5 - 1 /\ g \in 1 .. n5 - 1
      BY <1>1, <1>13, <1>20, <1>23
    <2>2. Extends(h5, h, n)
      BY <1>1, <1>3, <1>7, <1>13, <1>23 DEF Extends
    <2>3. n + 1 \in 1 .. (n + 2) - 1 /\ n + 1 \in 1 .. n4 - 1
      BY <1>1, <1>13
    <2>4. h5[n + 1] = h3[n + 1]
      BY <1>13, <1>23, <2>3 DEF Extends
    <2>5. h5[g].depth = 4
      BY <1>20, <2>2 DEF Extends
    <2> QED
      BY <1>7, <2>1, <2>2, <2>4, <2>5
  <1>25. IsTable(m5[BootRoot][Half])
    <2>1. BootRoot \in 1 .. n - 1 /\ Half \in Index
      BY <1>1, Sizes DEF Tree
    <2>2. BootRoot \in 1 .. (n + 2) - 1 /\ BootRoot \in 1 .. n4 - 1
      BY <1>1, <1>13, <2>1
    <2>3. m1[BootRoot] = m[BootRoot]
      BY <1>2, <2>1
    <2>4. IsTable(m1[BootRoot][Half])
      BY <2>3
    <2>5. m4[BootRoot][Half] = m1[BootRoot][Half]
      BY <1>13, <2>1, <2>2, <2>4 DEF TablesKept
    <2>6. m5[BootRoot][Half] = m4[BootRoot][Half]
      BY <1>23, <2>1, <2>2, <2>4, <2>5 DEF TablesKept
    <2> QED
      BY <2>4, <2>5, <2>6
  <1>26. ASSUME NEW q \in S, NEW w \in VirtualPages
         PROVE  EndOfWalk(m5, q, w) = EndOfWalk(m, q, w)
    <2>1. EndOfWalk(m5, q, w) = EndOfWalk(m4, q, w)
      BY <1>6, <1>10, <1>14, <1>22 DEF Mapped
    <2> QED
      BY <1>15, <2>1
  <1>27. EndOfWalk(m5, n, CodePage) = ToPage(g)
    BY <1>6, <1>10, <1>22 DEF Mapped
  <1>28. ASSUME NEW w \in VirtualPages, w # CodePage
         PROVE  EndOfWalk(m5, n, w) = EndOfWalk(m4, n, w)
    BY <1>6, <1>22, <1>28 DEF Mapped
  <1>29. /\ MapsData(h5, n5, EndOfWalk(m5, n, StackPage))
         /\ n < EndOfWalk(m5, n, StackPage).frame
    <2>1. EndOfWalk(m5, n, StackPage) = ToPage(n + 1)
      BY <1>10, <1>16, <1>28
    <2>2. MapsData(h5, n5, ToPage(n + 1)) /\ ToPage(n + 1).frame = n + 1
      BY <1>23, <1>24, ToPageIsData
    <2> QED
      BY <1>1, <2>1, <2>2
  <1>30. /\ MapsData(h5, n5, EndOfWalk(m5, n, CodePage))
         /\ EndOfWalk(m5, n, CodePage).frame = g
    <2>1. MapsData(h5, n5, ToPage(g)) /\ ToPage(g).frame = g
      BY <1>23, <1>24, ToPageIsData
    <2> QED
      BY <1>27, <2>1
  <1>31. ASSUME NEW w \in VirtualPages \ KernelPages, w # CodePage, w # StackPage
         PROVE  EndOfWalk(m5, n, w) = Absent
    BY <1>17, <1>28, <1>31
  <1>32. Started(h, m, n, S, program, h5, m5, n5)
    BY <1>23, <1>24, <1>25, <1>26, <1>29, <1>30, <1>31 DEF Started, R, g
  <1> QED
    BY <1>19, <1>22, <1>32

-----------------------------------------------------------------------------
(* What each page leads to. The kernel's pages below top hold data, those  *)
(* from there on are unmapped; a process's page holds data or is unmapped. *)

KernelPlaced(h, m, n, top) ==
  \A v \in DynamicPages :
    /\ v < top => MapsData(h, n, EndOfWalk(m, BootRoot, v))
    /\ top <= v => EndOfWalk(m, BootRoot, v) = Absent

UserPlaced(h, m, n, S) ==
  \A r \in S \ {BootRoot} : \A u \in UserPages :
    EndOfWalk(m, r, u) = Absent \/ MapsData(h, n, EndOfWalk(m, r, u))

Placed(h, m, n, S, top) ==
  /\ Tree(h, m, n, S)
  /\ KernelPlaced(h, m, n, top)
  /\ UserPlaced(h, m, n, S)

LEMMA DynamicPagesAre ==
  ASSUME NEW v \in DynamicPages
  PROVE  v \in Nat /\ v \in VirtualPages /\ v \in KernelPages /\ IndexPml4(v) = Half
  BY PlaceOfPage DEF DynamicPages, KernelPages

LEMMA FilledIsPlaced ==
  ASSUME NEW h, NEW m, NEW n, NEW S, NEW b \in Nat, Placed(h, m, n, S, b), NEW count \in Nat,
         NEW h2, NEW m2, NEW n2, Filled(h, m, n, S, b, count, h2, m2, n2),
         \A v \in b .. b + count - 1 : v \in KernelPages
  PROVE  Placed(h2, m2, n2, S, b + count)
  <1>1. /\ Tree(h, m, n, S) /\ Tree(h2, m2, n2, S) /\ n <= n2 /\ Extends(h2, h, n)
        /\ BootRoot \in S
    BY DEF Placed, Filled, Tree
  <1>2. n \in Nat /\ n2 \in Nat
    BY <1>1, GivenFrames
  <1>3. ASSUME NEW e, MapsData(h, n, e) PROVE MapsData(h2, n2, e)
    BY <1>1, <1>2, <1>3, StillData
  <1>4. ASSUME NEW q \in S, NEW w \in VirtualPages
        PROVE  /\ w \in b .. b + count - 1 => MapsData(h2, n2, EndOfWalk(m2, q, w))
               /\ w \notin b .. b + count - 1 => EndOfWalk(m2, q, w) = EndOfWalk(m, q, w)
    BY DEF Filled
  <1>5. ASSUME NEW v \in DynamicPages
        PROVE  /\ v < b + count => MapsData(h2, n2, EndOfWalk(m2, BootRoot, v))
               /\ b + count <= v => EndOfWalk(m2, BootRoot, v) = Absent
    <2>1. v \in Nat /\ v \in VirtualPages
      BY DynamicPagesAre
    <2>2. CASE v \in b .. b + count - 1
      BY <1>1, <1>4, <2>1, <2>2
    <2>3. CASE v < b
      <3>1. MapsData(h, n, EndOfWalk(m, BootRoot, v))
        BY <2>3 DEF Placed, KernelPlaced
      <3>2. EndOfWalk(m2, BootRoot, v) = EndOfWalk(m, BootRoot, v)
        BY <1>1, <1>4, <2>1, <2>3
      <3> QED
        BY <1>3, <2>1, <2>3, <3>1, <3>2
    <2>4. CASE b + count <= v
      <3>1. EndOfWalk(m, BootRoot, v) = Absent
        BY <2>1, <2>4 DEF Placed, KernelPlaced
      <3>2. EndOfWalk(m2, BootRoot, v) = EndOfWalk(m, BootRoot, v)
        BY <1>1, <1>4, <2>1, <2>4
      <3> QED
        BY <2>1, <2>4, <3>1, <3>2
    <2> QED
      BY <2>1, <2>2, <2>3, <2>4
  <1>6. ASSUME NEW r \in S \ {BootRoot}, NEW u \in UserPages
        PROVE  EndOfWalk(m2, r, u) = Absent \/ MapsData(h2, n2, EndOfWalk(m2, r, u))
    <2>1. u \in VirtualPages /\ u \notin b .. b + count - 1
      BY DEF UserPages
    <2>2. EndOfWalk(m2, r, u) = EndOfWalk(m, r, u)
      BY <1>4, <2>1
    <2>3. EndOfWalk(m, r, u) = Absent \/ MapsData(h, n, EndOfWalk(m, r, u))
      BY DEF Placed, UserPlaced
    <2> QED
      BY <1>3, <2>2, <2>3
  <1> QED
    BY <1>1, <1>5, <1>6 DEF Placed, KernelPlaced, UserPlaced

LEMMA StartedIsPlaced ==
  ASSUME NEW h, NEW m, NEW n, NEW S, NEW top \in Nat, Placed(h, m, n, S, top),
         NEW program, NEW h2, NEW m2, NEW n2, Started(h, m, n, S, program, h2, m2, n2)
  PROVE  Placed(h2, m2, n2, S \cup {n}, top)
  <1>1. /\ Tree(h, m, n, S) /\ Tree(h2, m2, n2, S \cup {n}) /\ n < n2 /\ Extends(h2, h, n)
        /\ BootRoot \in S
    BY DEF Placed, Started, Tree
  <1>2. n \in Nat /\ n2 \in Nat /\ n <= n2
    BY <1>1, GivenFrames
  <1>3. ASSUME NEW e, MapsData(h, n, e) PROVE MapsData(h2, n2, e)
    BY <1>1, <1>2, <1>3, StillData
  <1>4. ASSUME NEW q \in S, NEW w \in VirtualPages
        PROVE  EndOfWalk(m2, q, w) = EndOfWalk(m, q, w)
    BY DEF Started
  <1>5. ASSUME NEW v \in DynamicPages
        PROVE  /\ v < top => MapsData(h2, n2, EndOfWalk(m2, BootRoot, v))
               /\ top <= v => EndOfWalk(m2, BootRoot, v) = Absent
    <2>1. EndOfWalk(m2, BootRoot, v) = EndOfWalk(m, BootRoot, v)
      BY <1>1, <1>4, DynamicPagesAre
    <2>2. /\ v < top => MapsData(h, n, EndOfWalk(m, BootRoot, v))
          /\ top <= v => EndOfWalk(m, BootRoot, v) = Absent
      BY DEF Placed, KernelPlaced
    <2> QED
      BY <1>3, <2>1, <2>2
  <1>6. ASSUME NEW r \in (S \cup {n}) \ {BootRoot}, NEW u \in UserPages
        PROVE  EndOfWalk(m2, r, u) = Absent \/ MapsData(h2, n2, EndOfWalk(m2, r, u))
    <2>1. u \in VirtualPages /\ u \notin KernelPages
      BY DEF UserPages
    <2>2. CASE r \in S
      <3>1. EndOfWalk(m2, r, u) = EndOfWalk(m, r, u)
        BY <1>4, <2>1, <2>2
      <3>2. EndOfWalk(m, r, u) = Absent \/ MapsData(h, n, EndOfWalk(m, r, u))
        BY <2>2 DEF Placed, UserPlaced
      <3> QED
        BY <1>3, <3>1, <3>2
    <2>3. CASE r = n
      BY <2>1, <2>3 DEF Started
    <2> QED
      BY <2>2, <2>3
  <1> QED
    BY <1>1, <1>5, <1>6 DEF Placed, KernelPlaced, UserPlaced

(* unmap_page, of a kernel page that holds data.                           *)
Unmapped(m, S, v, m2) ==
  /\ m2[BootRoot][Half] = m[BootRoot][Half]
  /\ \A q \in S : \A w \in VirtualPages :
       /\ w = v => EndOfWalk(m2, q, w) = Absent
       /\ w # v => EndOfWalk(m2, q, w) = EndOfWalk(m, q, w)

LEMMA UnmapPageUnmaps ==
  ASSUME NEW h, NEW m, NEW n, NEW S, Tree(h, m, n, S), NEW r \in S, NEW v \in DynamicPages,
         MapsData(h, n, EndOfWalk(m, BootRoot, v))
  PROVE  /\ Unmappable(m, r, v)
         /\ Tree(h, UnmapPage(m, r, v), n, S)
         /\ Unmapped(m, S, v, UnmapPage(m, r, v))
  <1>1. v \in Nat /\ v \in VirtualPages /\ v \in KernelPages /\ IndexPml4(v) = Half
    BY DynamicPagesAre
  <1>2. EndOfWalk(m, r, v) = EndOfWalk(m, BootRoot, v)
    BY <1>1, KernelWalks
  <1>3. MapsData(h, n, EndOfWalk(m, r, v))
    BY <1>2
  <1> DEFINE f == Third(m, r, v).frame
             i == IndexPt(v)
             m2 == Written(m, f, i, Absent)
  <1>4. Reaches(m, r, v, f)
    BY <1>1, <1>3, DataIsReached
  <1>5. f \in 1 .. n - 1 /\ h[f].depth = 3 /\ i \in Index
    BY <1>1, <1>4, WalkHomes, PlaceOfPage DEF Reaches
  <1>6. UnmapPage(m, r, v) = m2
    BY DEF UnmapPage, Written, First, Second, Third
  <1>7. Unmappable(m, r, v)
    <2> DEFINE e == EndOfWalk(m, r, v)
    <2>1. e = Entry("page", e.frame, 1, TRUE)
      BY <1>3, Zenon DEF MapsData
    <2>2. Entry("page", e.frame, 1, TRUE).ours
      BY DEF Entry
    <2> HIDE DEF e
    <2>3. e.ours
      BY <2>1, <2>2, Zenon
    <2> QED
      BY <2>3 DEF Unmappable, e
  <1> HIDE DEF f
  <1>8. Absent \in EntryType
    BY EntryTypes
  <1>9. Tree(h, m2, n, S)
    BY <1>5, <1>8, LeafTree
  <1>10. ASSUME NEW q \in S, NEW w \in VirtualPages
         PROVE  /\ First(m2, q, w) = First(m, q, w)
                /\ EndOfWalk(m2, q, w) =
                     IF Reaches(m, q, w, f) /\ IndexPt(w) = i THEN Absent ELSE EndOfWalk(m, q, w)
    BY <1>5, <1>8, LeafWalks
  <1>11. ASSUME NEW q \in S, NEW w \in VirtualPages
         PROVE  Reaches(m, q, w, f) /\ IndexPt(w) = i <=> w = v
    <2>1. w = v => OwnerOf(q, w) = OwnerOf(r, v)
      BY <1>1 DEF OwnerOf
    <2> QED
      BY <1>1, <1>4, <2>1, SameEntry
  <1> HIDE DEF m2, i
  <1>12. m2[BootRoot][Half] = m[BootRoot][Half]
    <2>1. BootRoot \in S
      BY DEF Tree
    <2> QED
      BY <1>1, <1>10, <2>1 DEF First
  <1>13. Unmapped(m, S, v, m2)
    BY <1>10, <1>11, <1>12 DEF Unmapped
  <1> QED
    BY <1>6, <1>7, <1>9, <1>13

LEMMA UnmappedIsPlaced ==
  ASSUME NEW h, NEW m, NEW n, NEW S, NEW top \in Nat, Placed(h, m, n, S, top + 1),
         NEW m2, Tree(h, m2, n, S), Unmapped(m, S, top, m2), top \in KernelPages
  PROVE  Placed(h, m2, n, S, top)
  <1>1. BootRoot \in S
    BY DEF Tree
  <1>2. ASSUME NEW v \in DynamicPages
        PROVE  /\ v < top => MapsData(h, n, EndOfWalk(m2, BootRoot, v))
               /\ top <= v => EndOfWalk(m2, BootRoot, v) = Absent
    <2>1. v \in Nat /\ v \in VirtualPages
      BY DynamicPagesAre
    <2>2. CASE v = top
      BY <1>1, <2>1, <2>2 DEF Unmapped
    <2>3. CASE v # top
      <3>1. EndOfWalk(m2, BootRoot, v) = EndOfWalk(m, BootRoot, v)
        BY <1>1, <2>1, <2>3 DEF Unmapped
      <3>2. /\ v < top + 1 => MapsData(h, n, EndOfWalk(m, BootRoot, v))
            /\ top + 1 <= v => EndOfWalk(m, BootRoot, v) = Absent
        BY DEF Placed, KernelPlaced
      <3> QED
        BY <2>1, <2>3, <3>1, <3>2
    <2> QED
      BY <2>2, <2>3
  <1>3. ASSUME NEW r \in S \ {BootRoot}, NEW u \in UserPages
        PROVE  EndOfWalk(m2, r, u) = Absent \/ MapsData(h, n, EndOfWalk(m2, r, u))
    <2>1. u \in VirtualPages /\ u # top
      BY DEF UserPages
    <2>2. EndOfWalk(m2, r, u) = EndOfWalk(m, r, u)
      BY <2>1 DEF Unmapped
    <2> QED
      BY <2>2 DEF Placed, UserPlaced
  <1> QED
    BY <1>2, <1>3 DEF Placed, KernelPlaced, UserPlaced

-----------------------------------------------------------------------------
(* The inductive invariant. *)

IInv ==
  /\ TypeOK
  /\ spaces \in Seq(Nat)
  /\ \E h : Placed(h, memory, nextFrame, Spaces, BasePage + allocated)
  /\ \A v \in BasePage .. BasePage + allocated - 1 : v \in DynamicPages
  /\ status = "boot" => Spaces = {BootRoot}
  /\ status = "running" => IsTable(memory[BootRoot][Half])

(* The boot loader's tables.                                               *)
BootHomes ==
  [f \in 1 .. 3 |-> IF f = BootRoot THEN RootHome(BootRoot)
                    ELSE IF f = LowTable THEN ChildHome(RootHome(BootRoot), 0)
                    ELSE ChildHome(RootHome(BootRoot), HhdmPml4)]

LEMMA BootEntries ==
  /\ BootMemory \in MemoryType
  /\ BootMemory[BootRoot][0] = ToTable(LowTable)
  /\ BootMemory[BootRoot][HhdmPml4] = ToTable(HhdmTable)
  /\ \A i \in Index : i # 0 /\ i # HhdmPml4 => BootMemory[BootRoot][i] = Absent
  /\ BootMemory[LowTable][0] = ToGibPage(0) /\ BootMemory[HhdmTable][0] = ToGibPage(0)
  /\ \A i \in Index : i # 0 => /\ BootMemory[LowTable][i] = Absent
                               /\ BootMemory[HhdmTable][i] = Absent
  <1> DEFINE low == ToTable(LowTable)
             hhdm == ToTable(HhdmTable)
             big == ToGibPage(0)
             top == [BlankTable EXCEPT ![0] = low, ![HhdmPml4] = hhdm]
             other == [BlankTable EXCEPT ![0] = big]
  <1>1. /\ BootRoot \in Frames /\ LowTable \in Frames /\ HhdmTable \in Frames
        /\ BootRoot # LowTable /\ BootRoot # HhdmTable
    BY SizeAssumption, PlaceAssumption DEF Frames, BootRoot, LowTable, HhdmTable
  <1>2. low \in EntryType /\ hhdm \in EntryType /\ big \in EntryType
    BY <1>1, EntryTypes, WrittenEntries, BigPageEntry
  <1>3. /\ BootMemory = [f \in Frames |-> IF f = BootRoot THEN top
                                          ELSE IF f \in {LowTable, HhdmTable} THEN other
                                          ELSE BlankTable]
    BY DEF BootMemory
  <1>4. 0 \in Index /\ HhdmPml4 \in Index /\ HhdmPml4 # 0
    BY PlaceAssumption, Sizes
  <1> HIDE DEF low, hhdm, big
  <1>5. /\ top \in [Index -> EntryType] /\ top[0] = low /\ top[HhdmPml4] = hhdm
        /\ \A i \in Index : i # 0 /\ i # HhdmPml4 => top[i] = BlankTable[i]
    BY <1>2, <1>4, BlankTableIs
  <1>6. /\ other \in [Index -> EntryType] /\ other[0] = big
        /\ \A i \in Index : i # 0 => other[i] = BlankTable[i]
    BY <1>2, <1>4, BlankTableIs
  <1> HIDE DEF top, other
  <1>7. BootMemory \in MemoryType
    BY <1>3, <1>5, <1>6, BlankTableIs DEF MemoryType
  <1>8. BootMemory[BootRoot] = top /\ BootMemory[LowTable] = other /\ BootMemory[HhdmTable] = other
    BY <1>1, <1>3
  <1> QED
    BY <1>5, <1>6, <1>7, <1>8, BlankTableIs DEF low, hhdm, big

LEMMA BootHomesAre ==
  /\ BootHomes \in [1 .. 4 - 1 -> Home]
  /\ BootHomes[BootRoot] = RootHome(BootRoot)
  /\ BootHomes[LowTable] = ChildHome(RootHome(BootRoot), 0)
  /\ BootHomes[HhdmTable] = ChildHome(RootHome(BootRoot), HhdmPml4)
  /\ RootHome(BootRoot).depth = 0 /\ RootHome(BootRoot).owner = BootRoot
  /\ RootHome(BootRoot).b = 0 /\ RootHome(BootRoot).c = 0
  /\ BootHomes[LowTable].depth = 1 /\ BootHomes[HhdmTable].depth = 1
  <1> DEFINE root == RootHome(BootRoot)
             low == ChildHome(root, 0)
             hhdm == ChildHome(root, HhdmPml4)
  <1>1. 0 \in Index /\ HhdmPml4 \in Index
    BY PlaceAssumption, Sizes
  <1>2. root \in Home /\ root.depth = 0 /\ root.owner = BootRoot /\ root.b = 0 /\ root.c = 0
    BY <1>1 DEF RootHome, Home, BootRoot
  <1> HIDE DEF root
  <1>3. low \in Home /\ hhdm \in Home
    BY <1>1, <1>2, ChildHomeType
  <1>4. low.depth = 1 /\ hhdm.depth = 1
    BY <1>2 DEF ChildHome
  <1>5. BootHomes = [f \in 1 .. 3 |-> IF f = 1 THEN root ELSE IF f = 2 THEN low ELSE hhdm]
    BY DEF BootHomes, root, BootRoot, LowTable
  <1> HIDE DEF low, hhdm
  <1>6. BootHomes \in [1 .. 4 - 1 -> Home]
    BY <1>2, <1>3, <1>5
  <1>7. BootHomes[1] = root /\ BootHomes[2] = low /\ BootHomes[3] = hhdm
    BY <1>5
  <1> QED
    BY <1>2, <1>4, <1>6, <1>7 DEF root, low, hhdm, BootRoot, LowTable, HhdmTable

LEMMA BootTree == Tree(BootHomes, BootMemory, 4, {BootRoot})
  <1> DEFINE h == BootHomes
             m == BootMemory
  <1>1. BootRoot \in 1 .. 4 - 1 /\ LowTable \in 1 .. 4 - 1 /\ HhdmTable \in 1 .. 4 - 1
        /\ LowTable \in Frames /\ HhdmTable \in Frames
        /\ \A f \in 1 .. 4 - 1 : f = BootRoot \/ f = LowTable \/ f = HhdmTable
    BY SizeAssumption, PlaceAssumption DEF Frames, BootRoot, LowTable, HhdmTable
  <1>2. /\ ToTable(LowTable) = Entry("table", LowTable, 0, FALSE)
        /\ ToTable(HhdmTable) = Entry("table", HhdmTable, 0, FALSE)
    BY <1>1, WrittenEntries
  <1>3. ASSUME NEW i, NEW f \in {LowTable, HhdmTable}, h[f] = ChildHome(h[BootRoot], i)
        PROVE  TableIn(h, 4, h[BootRoot], i, ToTable(f))
    <2>1. ToTable(f) = Entry("table", f, 0, FALSE)
      BY <1>2, Zenon
    <2>2. ToTable(f).frame = f
      BY <2>1 DEF Entry
    <2>3. ToTable(f) = Entry("table", ToTable(f).frame, 0, FALSE)
      BY <2>1, <2>2, Zenon
    <2>4. ToTable(f).frame \in 1 .. 4 - 1 /\ h[ToTable(f).frame] = ChildHome(h[BootRoot], i)
      BY <1>1, <1>3, <2>2
    <2>5. h[BootRoot].depth <= 2
      BY BootHomesAre
    <2> QED
      BY <2>3, <2>4, <2>5, Zenon DEF TableIn
  <1>4. ASSUME NEW i \in Index PROVE EntryOK(h, 4, h[BootRoot], i, m[BootRoot][i])
    <2>1. CASE i = 0
      <3>1. TableIn(h, 4, h[BootRoot], i, ToTable(LowTable))
        BY <1>3, <2>1, BootHomesAre
      <3> QED
        BY <2>1, <3>1, BootEntries, Zenon DEF EntryOK
    <2>2. CASE i = HhdmPml4
      <3>1. TableIn(h, 4, h[BootRoot], i, ToTable(HhdmTable))
        BY <1>3, <2>2, BootHomesAre
      <3> QED
        BY <2>2, <3>1, BootEntries, Zenon DEF EntryOK
    <2>3. CASE i # 0 /\ i # HhdmPml4
      BY <2>3, BootEntries, Zenon DEF EntryOK
    <2> QED
      BY <2>1, <2>2, <2>3
  <1>5. ASSUME NEW f \in {LowTable, HhdmTable}, NEW i \in Index
        PROVE  EntryOK(h, 4, h[f], i, m[f][i])
    <2>1. CASE i = 0
      <3>1. m[f][i] = Entry("page", 0, Reach * Reach, FALSE) /\ h[f].depth = 1
        BY <2>1, BootEntries, BootHomesAre, BigPageEntry, Zenon
      <3> QED
        BY <3>1, Zenon DEF EntryOK
    <2>2. CASE i # 0
      BY <2>2, BootEntries, Zenon DEF EntryOK
    <2> QED
      BY <2>1, <2>2
  <1>6. Entries(h, m, 4)
    <2> SUFFICES ASSUME NEW f \in 1 .. 4 - 1, NEW i \in Index PROVE EntryOK(h, 4, h[f], i, m[f][i])
      BY DEF Entries
    <2> QED
      BY <1>1, <1>4, <1>5
  <1>7. Shared(m, {BootRoot})
    BY DEF Shared
  <1>8. 4 \in 4 .. FrameCount + Excess + 1
    BY SizeAssumption, PlaceAssumption
  <1>9. \A r \in {BootRoot} : h[r].depth = 0 /\ h[r].owner = r /\ h[r].b = 0 /\ h[r].c = 0
    BY BootHomesAre
  <1>10. m \in MemoryType /\ h \in [1 .. 4 - 1 -> Home]
    BY BootEntries, BootHomesAre
  <1> HIDE DEF h, m
  <1>11. Tree(h, m, 4, {BootRoot})
    BY <1>1, <1>6, <1>7, <1>8, <1>9, <1>10 DEF Tree
  <1> QED
    BY <1>11 DEF h, m

(* Nothing is mapped from BasePage on.                                     *)
LEMMA BootWalks ==
  ASSUME NEW v \in DynamicPages
  PROVE  EndOfWalk(BootMemory, BootRoot, v) = Absent
  <1> DEFINE m == BootMemory
  <1>1. v \in Nat /\ v \in VirtualPages /\ IndexPml4(v) = Half /\ v >= BasePage
    BY DynamicPagesAre DEF DynamicPages
  <1>2. Half \in Index /\ Half # 0 /\ IndexPdp(v) \in Index
    BY <1>1, Sizes, PlaceOfPage
  <1>3. ~IsTable(Absent)
    BY DEF Absent, Entry, IsTable
  <1>4. CASE HhdmPml4 # Half
    <2>1. First(m, BootRoot, v) = Absent
      BY <1>1, <1>2, <1>4, BootEntries DEF First
    <2> QED
      BY <1>3, <2>1, EndOfWalkIs
  <1>5. CASE HhdmPml4 = Half
    <2>1. HhdmTable \in Frames
      BY SizeAssumption, PlaceAssumption DEF Frames, HhdmTable
    <2>2. First(m, BootRoot, v) = ToTable(HhdmTable)
      BY <1>1, <1>5, BootEntries DEF First
    <2>3. ToTable(HhdmTable).frame = HhdmTable /\ IsTable(ToTable(HhdmTable))
      BY <2>1, WrittenEntries DEF Entry, IsTable
    <2>4. IndexPdp(v) # 0
      <3> DEFINE q == v \div (Reach * Reach)
                 p == BasePage \div (Reach * Reach)
                 a == Half * Reach
      <3>1. BasePage \in Nat /\ IndexPml4(BasePage) = Half /\ IndexPdp(BasePage) # 0
        BY <1>5, PlaceAssumption, PlaceOfPage
      <3>2. /\ q = a + IndexPdp(v) /\ IndexPdp(v) \in Nat /\ q \in Nat
            /\ p = a + IndexPdp(BasePage) /\ IndexPdp(BasePage) \in Nat /\ p \in Nat
        <4>1. ASSUME NEW u \in Nat, IndexPml4(u) = Half
              PROVE  /\ u \div (Reach * Reach) = Half * Reach + IndexPdp(u)
                     /\ IndexPdp(u) \in 0 .. Reach - 1
                     /\ u \div (Reach * Reach) \in Nat
          BY <4>1, Quotients
        <4>2. \A x \in 0 .. Reach - 1 : x \in Nat
          BY Sizes
        <4>3. q = a + IndexPdp(v) /\ IndexPdp(v) \in Nat /\ q \in Nat
          BY <1>1, <4>1, <4>2
        <4>4. p = a + IndexPdp(BasePage) /\ IndexPdp(BasePage) \in Nat /\ p \in Nat
          BY <3>1, <4>1, <4>2
        <4> QED
          BY <4>3, <4>4
      <3>3. p <= q
        <4> DEFINE k == Reach * Reach
        <4>1. k \in Nat \ {0} /\ q = v \div k /\ p = BasePage \div k
          BY Sizes
        <4> HIDE DEF k, q, p
        <4>2. /\ v = q * k + (v % k) /\ v % k \in 0 .. k - 1
              /\ BasePage = p * k + (BasePage % k) /\ BasePage % k \in 0 .. k - 1
          BY <1>1, <3>1, <4>1, DivMod
        <4>3. ASSUME q < p PROVE FALSE
          <5>1. (q * k) + k <= p * k /\ q * k \in Nat /\ p * k \in Nat
            BY <3>2, <4>1, <4>3, Products
          <5> QED
            BY <1>1, <3>1, <4>1, <4>2, <5>1
        <4> QED
          BY <3>2, <4>3
      <3>4. a \in Nat
        BY Sizes
      <3> HIDE DEF a, p, q
      <3> QED
        BY <3>1, <3>2, <3>3, <3>4
    <2>5. Second(m, BootRoot, v) = Absent
      BY <1>2, <2>2, <2>3, <2>4, BootEntries DEF Second
    <2> QED
      BY <1>3, <2>2, <2>3, <2>5, EndOfWalkIs
  <1> QED
    BY <1>4, <1>5

LEMMA InitHolds == Init => IInv
  <1> SUFFICES ASSUME Init PROVE IInv
    OBVIOUS
  <1>1. /\ memory = BootMemory /\ nextFrame = 4 /\ allocated = 0 /\ spaces = <<BootRoot>>
        /\ cr3 = BootRoot /\ cached = {} /\ status = "boot"
    BY DEF Init
  <1>2. Spaces = {BootRoot}
    BY <1>1 DEF Spaces
  <1>3. BasePage \in Nat /\ FrameCount \in Nat /\ FrameCount >= 3
    BY PlaceAssumption, PlaceOfPage, SizeAssumption
  <1>4. KernelPlaced(BootHomes, memory, nextFrame, BasePage + allocated)
    <2> SUFFICES ASSUME NEW v \in DynamicPages
                 PROVE  /\ ~(v < BasePage + allocated)
                        /\ EndOfWalk(memory, BootRoot, v) = Absent
      BY DEF KernelPlaced
    <2>1. v \in Nat /\ v >= BasePage
      BY DynamicPagesAre DEF DynamicPages
    <2> QED
      BY <1>1, <1>3, <2>1, BootWalks
  <1>5. UserPlaced(BootHomes, memory, nextFrame, Spaces)
    BY <1>2 DEF UserPlaced
  <1>6. Placed(BootHomes, memory, nextFrame, Spaces, BasePage + allocated)
    BY <1>1, <1>2, <1>4, <1>5, BootTree DEF Placed
  <1>7. TypeOK
    <2>1. memory \in [Frames -> [Index -> EntryType]]
      BY <1>1, BootEntries DEF MemoryType
    <2> QED
      BY <1>1, <1>2, <1>3, <2>1 DEF TypeOK, BootRoot
  <1>8. spaces \in Seq(Nat)
    BY <1>1 DEF BootRoot
  <1>9. BasePage .. BasePage + allocated - 1 = {}
    BY <1>1, <1>3
  <1> QED
    BY <1>1, <1>2, <1>6, <1>7, <1>8, <1>9 DEF IInv

-----------------------------------------------------------------------------
(* The steps. *)

LEMMA InvariantGives ==
  ASSUME IInv
  PROVE  /\ memory \in MemoryType /\ nextFrame \in 4 .. FrameCount + 1 /\ nextFrame \in Nat
         /\ allocated \in Nat /\ cr3 \in Spaces /\ Spaces \subseteq 1 .. FrameCount
         /\ \A c \in cached : c.page \in VirtualPages
         /\ status \in {"boot", "running", "no_page", "invalid_free"}
         /\ BasePage \in Nat /\ BasePage + allocated \in Nat
         /\ FrameCount \in Nat
  <1>1. TypeOK
    BY DEF IInv
  <1>2. memory \in MemoryType
    BY <1>1 DEF TypeOK, MemoryType
  <1>3. /\ nextFrame \in 4 .. FrameCount + 1
        /\ allocated \in Nat /\ cr3 \in Spaces /\ Spaces \subseteq 1 .. FrameCount
        /\ \A c \in cached : c.page \in VirtualPages
        /\ status \in {"boot", "running", "no_page", "invalid_free"}
    BY <1>1 DEF TypeOK
  <1>4. BasePage \in Nat /\ FrameCount \in Nat
    BY PlaceAssumption, PlaceOfPage, SizeAssumption
  <1>5. nextFrame \in Nat /\ BasePage + allocated \in Nat
    BY <1>3, <1>4
  <1> QED
    BY <1>2, <1>3, <1>4, <1>5

LEMMA StatusAfter ==
  ASSUME NEW m, NEW n, NEW f
  PROVE  AfterMapping(State(m, n, f, NotTwice)) = "running"
  <1>1. State(m, n, f, NotTwice).twice = NotTwice
    BY StateFields
  <1> QED
    BY <1>1, Zenon DEF AfterMapping, NotTwice

(* The mapping that the calls of status boot and running start from.       *)
LEMMA ReadyToMap ==
  ASSUME IInv, status \in {"boot", "running"},
         NEW h, Placed(h, memory, nextFrame, Spaces, BasePage + allocated)
  PROVE  /\ Tree(h, memory, nextFrame, Spaces)
         /\ \A v \in DynamicPages :
              BasePage + allocated <= v => EndOfWalk(memory, BootRoot, v) = Absent
         /\ Spaces = {cr3} \/ IsTable(memory[BootRoot][Half])
  <1>1. cr3 \in Spaces
    BY InvariantGives
  <1>2. status = "boot" => Spaces = {cr3}
    BY <1>1 DEF IInv
  <1>3. status = "running" => IsTable(memory[BootRoot][Half])
    BY DEF IInv
  <1>4. \A v \in DynamicPages :
          BasePage + allocated <= v => EndOfWalk(memory, BootRoot, v) = Absent
    BY DEF Placed, KernelPlaced
  <1> QED
    BY <1>2, <1>3, <1>4 DEF Placed

LEMMA AllocateFills ==
  ASSUME IInv, NEW count \in Counts, AllocatePages(count),
         NEW h, Placed(h, memory, nextFrame, Spaces, BasePage + allocated)
  PROVE  /\ \E h2 : Filled(h, memory, nextFrame, Spaces, BasePage + allocated, count,
                           h2, memory', nextFrame')
         /\ nextFrame' <= FrameCount + 1
         /\ status' = "running"
  <1>1. cr3 \in Spaces /\ allocated \in Nat
    BY InvariantGives
  <1>2. count \in Nat \ {0}
    BY PlaceAssumption
  <1>3. /\ status \in {"boot", "running"} /\ RoomFor(count)
        /\ Enough(Allocated(count))
        /\ memory' = Allocated(count).memory /\ nextFrame' = Allocated(count).next
        /\ status' = AfterMapping(Allocated(count))
    BY DEF AllocatePages
  <1>4. /\ Tree(h, memory, nextFrame, Spaces)
        /\ \A v \in DynamicPages :
             BasePage + allocated <= v => EndOfWalk(memory, BootRoot, v) = Absent
        /\ Spaces = {cr3} \/ IsTable(memory[BootRoot][Half])
    BY <1>3, ReadyToMap
  <1>5. PICK h2, m2, n2, f2 :
          /\ Allocated(count) = State(m2, n2, f2, NotTwice)
          /\ Filled(h, memory, nextFrame, Spaces, BasePage + allocated, count, h2, m2, n2)
    BY <1>1, <1>2, <1>3, <1>4, AllocatedFills
  <1>6. memory' = m2 /\ nextFrame' = n2
    BY <1>3, <1>5, StateFields
  <1>7. status' = "running"
    BY <1>3, <1>5, StatusAfter
  <1>8. nextFrame' <= FrameCount + 1
    BY <1>3 DEF Enough
  <1> QED
    BY <1>5, <1>6, <1>7, <1>8

LEMMA CachedKept ==
  ASSUME IInv, NEW pages, cached' = Invalidated(pages)
  PROVE  \A c \in cached' : c.page \in VirtualPages
  BY InvariantGives DEF Invalidated

LEMMA AllocateKeeps ==
  ASSUME IInv, NEW count \in Counts, AllocatePages(count)
  PROVE  IInv'
  <1>1. PICK h : Placed(h, memory, nextFrame, Spaces, BasePage + allocated)
    BY DEF IInv
  <1>2. nextFrame' <= FrameCount + 1 /\ status' = "running"
    BY <1>1, AllocateFills
  <1>3. PICK h2 : Filled(h, memory, nextFrame, Spaces, BasePage + allocated, count,
                         h2, memory', nextFrame')
    BY <1>1, AllocateFills
  <1>4. /\ count \in Nat \ {0} /\ allocated' = allocated + count /\ spaces' = spaces /\ cr3' = cr3
        /\ RoomFor(count) /\ cached' = Invalidated(NextPages(count))
    BY PlaceAssumption DEF AllocatePages
  <1>5. Spaces' = Spaces
    BY <1>4 DEF Spaces
  <1>6. /\ allocated \in Nat /\ BasePage \in Nat /\ BasePage + allocated \in Nat
        /\ cr3 \in Spaces /\ Spaces \subseteq 1 .. FrameCount /\ FrameCount \in Nat
    BY InvariantGives
  <1>7. \A v \in BasePage + allocated .. BasePage + allocated + count - 1 :
          v \in KernelPages /\ v \in DynamicPages
    BY <1>4, <1>6, PagesToFill
  <1>8. (BasePage + allocated) + count = BasePage + allocated'
    BY <1>4, <1>6
  <1>9. Placed(h2, memory', nextFrame', Spaces', BasePage + allocated')
    <2> DEFINE b == BasePage + allocated
    <2>1. b \in Nat /\ count \in Nat
      BY <1>4, <1>6
    <2>2. \A v \in b .. b + count - 1 : v \in KernelPages
      BY <1>7
    <2> HIDE DEF b
    <2>3. Placed(h2, memory', nextFrame', Spaces, b + count)
      BY <1>1, <1>3, <2>1, <2>2, FilledIsPlaced DEF b
    <2>4. b + count = BasePage + allocated'
      BY <1>8 DEF b
    <2> QED
      BY <1>5, <2>3, <2>4
  <1>10. Tree(h2, memory', nextFrame', Spaces)
    BY <1>3 DEF Filled
  <1>11. memory' \in MemoryType /\ nextFrame' \in 4 .. FrameCount + 1
    BY <1>2, <1>6, <1>10, GivenFrames
  <1>12. \A c \in cached' : c.page \in VirtualPages
    BY <1>4, CachedKept
  <1>13. TypeOK'
    BY <1>2, <1>4, <1>5, <1>6, <1>11, <1>12 DEF TypeOK, MemoryType
  <1>14. IsTable(memory'[BootRoot][Half])
    BY <1>3, <1>4 DEF Filled
  <1>15. \A v \in BasePage .. BasePage + allocated' - 1 : v \in DynamicPages
    <2>1. \A v \in BasePage .. BasePage + allocated - 1 : v \in DynamicPages
      BY DEF IInv
    <2> QED
      BY <1>4, <1>6, <1>7, <2>1
  <1>16. spaces' \in Seq(Nat)
    BY <1>4 DEF IInv
  <1> QED
    BY <1>2, <1>9, <1>13, <1>14, <1>15, <1>16 DEF IInv

LEMMA StartStarts ==
  ASSUME IInv, StartProcess,
         NEW h, Placed(h, memory, nextFrame, Spaces, BasePage + allocated)
  PROVE  \E h1, m1, n1, h2 :
           /\ Filled(h, memory, nextFrame, Spaces, BasePage + allocated, 1, h1, m1, n1)
           /\ Started(h1, m1, n1, Spaces, BasePage + allocated, h2, memory', nextFrame')
           /\ spaces' = Append(spaces, n1)
           /\ nextFrame' <= FrameCount + 1
           /\ status' = "running"
  <1>1. cr3 \in Spaces /\ allocated \in Nat /\ nextFrame \in Nat
    BY InvariantGives
  <1>2. /\ status = "running" /\ RoomFor(1)
        /\ Enough(ProcessTables)
        /\ memory' = ProcessTables.memory /\ nextFrame' = ProcessTables.next
        /\ status' = AfterMapping(ProcessTables)
        /\ spaces' = Append(spaces, Allocated(1).next)
    BY DEF StartProcess
  <1>3. /\ Tree(h, memory, nextFrame, Spaces)
        /\ \A v \in DynamicPages :
             BasePage + allocated <= v => EndOfWalk(memory, BootRoot, v) = Absent
        /\ Spaces = {cr3} \/ IsTable(memory[BootRoot][Half])
    BY <1>2, ReadyToMap
  <1>4. Enough(Allocated(1))
    <2>1. PICK m5, f5, tw5 : \E n5 \in Nat : Allocated(1) = State(m5, n5, f5, tw5)
      BY <1>1, AllocatedOne
    <2>2. PICK n5 \in Nat : Allocated(1) = State(m5, n5, f5, tw5)
      BY <2>1
    <2>3. n5 + 1 <= FrameCount
      BY <1>1, <1>2, <2>2, ProcessNeeds
    <2>4. Allocated(1).next = n5
      BY <2>2, StateFields
    <2> QED
      BY <2>3, <2>4, SizeAssumption DEF Enough
  <1>5. 1 \in Nat \ {0}
    OBVIOUS
  <1>6. PICK h1, m1, n1, f1 :
          /\ Allocated(1) = State(m1, n1, f1, NotTwice)
          /\ Filled(h, memory, nextFrame, Spaces, BasePage + allocated, 1, h1, m1, n1)
    BY <1>1, <1>2, <1>3, <1>4, <1>5, AllocatedFills
  <1> DEFINE program == BasePage + allocated
  <1>7. /\ program \in Nat /\ program \in program .. program + 1 - 1
        /\ program \in KernelPages /\ program \in VirtualPages
    BY <1>1, <1>2, <1>5, PagesToFill
  <1>8. /\ Tree(h1, m1, n1, Spaces) /\ IsTable(m1[BootRoot][Half])
        /\ MapsData(h1, n1, EndOfWalk(m1, BootRoot, program))
    <2>1. Tree(h1, m1, n1, Spaces) /\ IsTable(m1[BootRoot][Half])
      BY <1>6 DEF Filled
    <2>2. BootRoot \in Spaces
      BY <2>1 DEF Tree
    <2> HIDE DEF program
    <2>3. Filled(h, memory, nextFrame, Spaces, program, 1, h1, m1, n1)
      BY <1>6 DEF program
    <2> QED
      BY <1>7, <2>1, <2>2, <2>3 DEF Filled
  <1> HIDE DEF program
  <1>9. program = BasePage + allocated
    BY DEF program
  <1>10. PICK h2, m2, n2, f2 :
           /\ ProcessTables = State(m2, n2, f2, NotTwice)
           /\ Started(h1, m1, n1, Spaces, program, h2, m2, n2)
    BY <1>1, <1>2, <1>6, <1>7, <1>8, <1>9, ProcessStarts
  <1>11. memory' = m2 /\ nextFrame' = n2
    BY <1>2, <1>10, StateFields
  <1>12. status' = "running"
    BY <1>2, <1>10, StatusAfter
  <1>13. nextFrame' <= FrameCount + 1
    BY <1>2 DEF Enough
  <1>14. spaces' = Append(spaces, n1)
    BY <1>2, <1>6, StateFields
  <1> QED
    BY <1>6, <1>9, <1>10, <1>11, <1>12, <1>13, <1>14

LEMMA SpacesGrow ==
  ASSUME spaces \in Seq(Nat), NEW n \in Nat, spaces' = Append(spaces, n)
  PROVE  spaces' \in Seq(Nat) /\ Spaces' = Spaces \cup {n}
  <1> DEFINE k == Len(spaces)
             s == spaces'
  <1>1. /\ k \in Nat /\ DOMAIN spaces = 1 .. k
        /\ s \in Seq(Nat) /\ DOMAIN s = 1 .. k + 1
        /\ \A i \in 1 .. k : s[i] = spaces[i]
        /\ s[k + 1] = n
    OBVIOUS
  <1>2. Spaces' = {s[i] : i \in DOMAIN s} /\ Spaces = {spaces[i] : i \in DOMAIN spaces}
    BY DEF Spaces
  <1> HIDE DEF k, s
  <1>3. {s[i] : i \in 1 .. k + 1} = {spaces[i] : i \in 1 .. k} \cup {n}
    <2>1. ASSUME NEW x \in {s[i] : i \in 1 .. k + 1} PROVE x \in {spaces[i] : i \in 1 .. k} \cup {n}
      <3>1. PICK i \in 1 .. k + 1 : x = s[i]
        OBVIOUS
      <3>2. CASE i = k + 1
        BY <1>1, <3>1, <3>2
      <3>3. CASE i \in 1 .. k
        BY <1>1, <3>1, <3>3
      <3> QED
        BY <1>1, <3>2, <3>3
    <2>2. ASSUME NEW x \in {spaces[i] : i \in 1 .. k} \cup {n} PROVE x \in {s[i] : i \in 1 .. k + 1}
      <3>1. CASE x = n
        <4>1. k + 1 \in 1 .. k + 1 /\ s[k + 1] = x
          BY <1>1, <3>1
        <4> QED
          BY <4>1
      <3>2. CASE x \in {spaces[i] : i \in 1 .. k}
        <4>1. PICK i \in 1 .. k : x = spaces[i]
          BY <3>2
        <4>2. i \in 1 .. k + 1 /\ s[i] = x
          BY <1>1, <4>1
        <4> QED
          BY <4>2
      <3> QED
        BY <3>1, <3>2
    <2> QED
      BY <2>1, <2>2
  <1> QED
    BY <1>1, <1>2, <1>3 DEF s

LEMMA StartKeeps ==
  ASSUME IInv, StartProcess
  PROVE  IInv'
  <1>1. PICK h : Placed(h, memory, nextFrame, Spaces, BasePage + allocated)
    BY DEF IInv
  <1>2. PICK h1, m1, n1, h2 :
           /\ Filled(h, memory, nextFrame, Spaces, BasePage + allocated, 1, h1, m1, n1)
           /\ Started(h1, m1, n1, Spaces, BasePage + allocated, h2, memory', nextFrame')
           /\ spaces' = Append(spaces, n1)
           /\ nextFrame' <= FrameCount + 1
           /\ status' = "running"
    BY <1>1, StartStarts
  <1>3. /\ allocated' = allocated + 1 /\ cr3' = cr3 /\ RoomFor(1)
        /\ cached' = Invalidated(NextPages(1) \cup {StackPage, CodePage})
    BY DEF StartProcess
  <1>4. /\ allocated \in Nat /\ BasePage \in Nat /\ BasePage + allocated \in Nat
        /\ cr3 \in Spaces /\ Spaces \subseteq 1 .. FrameCount /\ FrameCount \in Nat
    BY InvariantGives
  <1>5. \A v \in BasePage + allocated .. BasePage + allocated + 1 - 1 :
          v \in KernelPages /\ v \in DynamicPages
    BY <1>3, <1>4, PagesToFill
  <1>6. Tree(h1, m1, n1, Spaces) /\ Tree(h2, memory', nextFrame', Spaces \cup {n1}) /\ n1 < nextFrame'
    BY <1>2 DEF Filled, Started
  <1>7. n1 \in Nat /\ n1 >= 4 /\ nextFrame' \in Nat /\ nextFrame' >= 4 /\ memory' \in MemoryType
    BY <1>6, GivenFrames
  <1>8. spaces' \in Seq(Nat) /\ Spaces' = Spaces \cup {n1}
    BY <1>2, <1>7, SpacesGrow DEF IInv
  <1>9. Placed(h2, memory', nextFrame', Spaces', BasePage + allocated')
    <2> DEFINE b == BasePage + allocated
    <2>1. b \in Nat /\ b + 1 \in Nat /\ 1 \in Nat
      BY <1>4
    <2>2. \A v \in b .. b + 1 - 1 : v \in KernelPages
      BY <1>5
    <2>3. b + 1 = BasePage + allocated'
      BY <1>3, <1>4
    <2> HIDE DEF b
    <2>4. /\ Placed(h, memory, nextFrame, Spaces, b)
          /\ Filled(h, memory, nextFrame, Spaces, b, 1, h1, m1, n1)
          /\ Started(h1, m1, n1, Spaces, b, h2, memory', nextFrame')
      BY <1>1, <1>2 DEF b
    <2>5. Placed(h1, m1, n1, Spaces, b + 1)
      BY <2>1, <2>2, <2>4, FilledIsPlaced
    <2>6. Placed(h2, memory', nextFrame', Spaces \cup {n1}, b + 1)
      BY <2>1, <2>4, <2>5, StartedIsPlaced
    <2> QED
      BY <1>8, <2>3, <2>6
  <1>10. \A c \in cached' : c.page \in VirtualPages
    BY <1>3, CachedKept
  <1>11. TypeOK'
    <2>1. nextFrame' \in 4 .. FrameCount + 1 /\ n1 \in 1 .. FrameCount
      BY <1>2, <1>4, <1>6, <1>7
    <2>2. allocated' \in Nat
      BY <1>3, <1>4
    <2>3. Spaces' \subseteq 1 .. FrameCount /\ cr3' \in Spaces'
      BY <1>3, <1>4, <1>8, <2>1
    <2> QED
      BY <1>2, <1>7, <1>10, <2>1, <2>2, <2>3 DEF TypeOK, MemoryType
  <1>12. IsTable(memory'[BootRoot][Half])
    BY <1>2 DEF Started
  <1>13. \A v \in BasePage .. BasePage + allocated' - 1 : v \in DynamicPages
    <2>1. \A v \in BasePage .. BasePage + allocated - 1 : v \in DynamicPages
      BY DEF IInv
    <2> QED
      BY <1>3, <1>4, <1>5, <2>1
  <1> QED
    BY <1>2, <1>8, <1>9, <1>11, <1>12, <1>13 DEF IInv

(* The page that free_page takes holds data, and only it changes.          *)
LEMMA FreeUnmaps ==
  ASSUME IInv, FreeTopPage,
         NEW h, Placed(h, memory, nextFrame, Spaces, BasePage + allocated)
  PROVE  LET v == BasePage + allocated - 1
         IN  /\ v \in DynamicPages /\ v \in Nat /\ v + 1 = BasePage + allocated
             /\ v = BasePage + allocated'
             /\ MapsData(h, nextFrame, EndOfWalk(memory, BootRoot, v))
             /\ Tree(h, memory', nextFrame, Spaces)
             /\ Unmapped(memory, Spaces, v, memory')
             /\ status' = status
  <1> DEFINE v == BasePage + allocated - 1
  <1>1. /\ allocated \in Nat /\ BasePage \in Nat /\ cr3 \in Spaces
    BY InvariantGives
  <1>2. /\ allocated > 0 /\ allocated' = allocated - 1
        /\ memory' = UnmapPage(memory, cr3, v)
        /\ Unmappable(memory, cr3, v) => status' = status
    BY DEF FreeTopPage
  <1>3. v \in BasePage .. BasePage + allocated - 1 /\ v \in Nat /\ v + 1 = BasePage + allocated
        /\ v = BasePage + allocated' /\ v < BasePage + allocated
    BY <1>1, <1>2
  <1>4. v \in DynamicPages
    BY <1>3 DEF IInv
  <1>5. MapsData(h, nextFrame, EndOfWalk(memory, BootRoot, v)) /\ Tree(h, memory, nextFrame, Spaces)
    BY <1>3, <1>4 DEF Placed, KernelPlaced
  <1> HIDE DEF v
  <1>6. /\ Unmappable(memory, cr3, v)
        /\ Tree(h, UnmapPage(memory, cr3, v), nextFrame, Spaces)
        /\ Unmapped(memory, Spaces, v, UnmapPage(memory, cr3, v))
    BY <1>1, <1>4, <1>5, UnmapPageUnmaps
  <1> QED
    BY <1>2, <1>3, <1>4, <1>5, <1>6 DEF v

LEMMA FreeKeeps ==
  ASSUME IInv, FreeTopPage
  PROVE  IInv'
  <1>1. PICK h : Placed(h, memory, nextFrame, Spaces, BasePage + allocated)
    BY DEF IInv
  <1> DEFINE v == BasePage + allocated - 1
  <1>2. /\ v \in DynamicPages /\ v \in Nat /\ v + 1 = BasePage + allocated
        /\ v = BasePage + allocated'
        /\ Tree(h, memory', nextFrame, Spaces)
        /\ Unmapped(memory, Spaces, v, memory')
        /\ status' = status
    BY <1>1, FreeUnmaps
  <1>3. /\ allocated > 0 /\ allocated' = allocated - 1 /\ status = "running"
        /\ cached' = Invalidated({v}) /\ nextFrame' = nextFrame /\ spaces' = spaces /\ cr3' = cr3
    BY DEF FreeTopPage
  <1>4. /\ allocated \in Nat /\ BasePage \in Nat /\ BasePage + allocated \in Nat
        /\ cr3 \in Spaces /\ Spaces \subseteq 1 .. FrameCount /\ FrameCount \in Nat
        /\ nextFrame \in 4 .. FrameCount + 1
    BY InvariantGives
  <1> HIDE DEF v
  <1>5. Spaces' = Spaces
    BY <1>3 DEF Spaces
  <1>6. Placed(h, memory', nextFrame', Spaces', BasePage + allocated')
    <2>1. v \in KernelPages
      BY <1>2, DynamicPagesAre
    <2>2. Placed(h, memory, nextFrame, Spaces, v + 1)
      BY <1>1, <1>2
    <2>3. Placed(h, memory', nextFrame, Spaces, v)
      BY <1>2, <2>1, <2>2, UnmappedIsPlaced
    <2> QED
      BY <1>2, <1>3, <1>5, <2>3
  <1>7. memory' \in MemoryType
    BY <1>2, GivenFrames
  <1>8. \A c \in cached' : c.page \in VirtualPages
    BY <1>3, CachedKept
  <1>9. TypeOK'
    <2>1. allocated' \in Nat
      BY <1>3, <1>4
    <2> QED
      BY <1>2, <1>3, <1>4, <1>5, <1>7, <1>8, <2>1 DEF TypeOK, MemoryType
  <1>10. IsTable(memory'[BootRoot][Half])
    <2>1. IsTable(memory[BootRoot][Half])
      BY <1>3 DEF IInv
    <2> QED
      BY <1>2, <2>1 DEF Unmapped
  <1>11. \A w \in BasePage .. BasePage + allocated' - 1 : w \in DynamicPages
    <2>1. \A w \in BasePage .. BasePage + allocated - 1 : w \in DynamicPages
      BY DEF IInv
    <2> QED
      BY <1>3, <1>4, <2>1
  <1>12. spaces' \in Seq(Nat)
    BY <1>3 DEF IInv
  <1> QED
    BY <1>2, <1>3, <1>6, <1>9, <1>10, <1>11, <1>12 DEF IInv

(* The steps that leave the memory alone.                                  *)
LEMMA OthersKeep ==
  ASSUME IInv, UNCHANGED <<memory, nextFrame, allocated, spaces>>, cr3' \in Spaces,
         \A c \in cached' : c.page \in VirtualPages,
         status' = status \/ status' \in {"no_page", "invalid_free"}
  PROVE  IInv'
  <1>1. Spaces' = Spaces
    BY DEF Spaces
  <1>2. status' \in {"boot", "running", "no_page", "invalid_free"}
    BY InvariantGives
  <1>3. TypeOK'
    BY <1>1, <1>2 DEF IInv, TypeOK
  <1> QED
    BY <1>1, <1>3 DEF IInv

LEMMA NextKeeps == IInv /\ [Next]_vars => IInv'
  <1> SUFFICES ASSUME IInv, [Next]_vars PROVE IInv'
    OBVIOUS
  <1>1. /\ cr3 \in Spaces /\ \A c \in cached : c.page \in VirtualPages
    BY InvariantGives
  <1>2. ASSUME NEW count \in Counts, AllocatePages(count) PROVE IInv'
    BY <1>2, AllocateKeeps
  <1>3. CASE FreeTopPage
    BY <1>3, FreeKeeps
  <1>4. CASE PanicInvalidFree
    BY <1>1, <1>4, OthersKeep DEF PanicInvalidFree
  <1>5. CASE StartProcess
    BY <1>5, StartKeeps
  <1>6. CASE PanicNoPage
    BY <1>1, <1>6, OthersKeep DEF PanicNoPage
  <1>7. ASSUME NEW i \in DOMAIN spaces, SwitchTo(spaces[i]) PROVE IInv'
    <2>1. spaces[i] \in Spaces
      BY DEF Spaces
    <2>2. /\ cr3' = spaces[i] /\ cached' = {} /\ UNCHANGED <<memory, nextFrame, allocated, spaces>>
          /\ status' = status
      BY <1>7 DEF SwitchTo
    <2> QED
      BY <2>1, <2>2, OthersKeep
  <1>8. CASE Use(ProbedPage)
    <2>1. ProbedPage \in VirtualPages
      BY PlaceAssumption DEF KernelPages
    <2>2. /\ cached' = cached \cup {[page |-> ProbedPage, frame |-> Translate(memory, cr3, ProbedPage)]}
          /\ UNCHANGED <<memory, nextFrame, allocated, spaces, cr3>> /\ status' = status
      BY <1>8 DEF Use
    <2>3. \A c \in cached' : c.page \in VirtualPages
      BY <1>1, <2>1, <2>2
    <2> QED
      BY <1>1, <2>2, <2>3, OthersKeep
  <1>9. CASE UNCHANGED vars
    <2>1. /\ UNCHANGED <<memory, nextFrame, allocated, spaces>> /\ cr3' = cr3 /\ cached' = cached
          /\ status' = status
      BY <1>9 DEF vars
    <2> QED
      BY <1>1, <2>1, OthersKeep
  <1> QED
    BY <1>2, <1>3, <1>4, <1>5, <1>6, <1>7, <1>8, <1>9 DEF Next

LEMMA Invariance == Spec => []IInv
  BY InitHolds, NextKeeps, PTL DEF Spec

(* No panic of map_page or unmap_page ever comes, and no frame is handed   *)
(* out past the last (map_page, unmap_page, allocate_physical_page).       *)
THEOREM TypeCorrect == Spec => []TypeOK
  <1>1. IInv => TypeOK
    BY DEF IInv
  <1> QED
    BY Invariance, <1>1, PTL

(* Every address space shows the same kernel memory (allocate_process,     *)
(* map_page).                                                              *)
THEOREM KernelIsShared == Spec => []KernelHalfShared
  <1>1. IInv => KernelHalfShared
    <2> SUFFICES ASSUME IInv, NEW v \in KernelPages, NEW r \in Spaces
                 PROVE  Translate(memory, r, v) = Translate(memory, BootRoot, v)
      BY DEF KernelHalfShared
    <2>1. PICK h : Tree(h, memory, nextFrame, Spaces)
      BY DEF IInv, Placed
    <2>2. EndOfWalk(memory, r, v) = EndOfWalk(memory, BootRoot, v)
      BY <2>1, KernelWalks
    <2> QED
      BY <2>2 DEF Translate
  <1> QED
    BY Invariance, <1>1, PTL

TablesFrom(fs) ==
  {e.frame : e \in {d \in {memory[f][i] : f \in fs, i \in Index} : d.leads = "table"}}

LEMMA NextTables ==
  ASSUME NEW h, NEW n, NEW S, Tree(h, memory, n, S), NEW k \in 0 .. 2, NEW fs,
         \A f \in fs : f \in 1 .. n - 1 /\ h[f].depth <= k
  PROVE  \A f \in TablesFrom(fs) : f \in 1 .. n - 1 /\ h[f].depth <= k + 1
  <1> SUFFICES ASSUME NEW g \in TablesFrom(fs) PROVE g \in 1 .. n - 1 /\ h[g].depth <= k + 1
    OBVIOUS
  <1>1. PICK f \in fs, i \in Index : memory[f][i].leads = "table" /\ g = memory[f][i].frame
    BY DEF TablesFrom
  <1>2. f \in 1 .. n - 1 /\ h[f].depth <= k /\ h[f].depth \in Nat
    <2>1. f \in 1 .. n - 1 /\ h[f].depth <= k
      OBVIOUS
    <2>2. h[f] \in Home
      BY <2>1 DEF Tree
    <2> QED
      BY <2>1, <2>2 DEF Home
  <1>3. EntryOK(h, n, h[f], i, memory[f][i])
    BY <1>2 DEF Tree, Entries
  <1>4. TableIn(h, n, h[f], i, memory[f][i])
    BY <1>1, <1>3, EntryLeads DEF IsTable
  <1>5. g \in 1 .. n - 1 /\ h[g] = ChildHome(h[f], i)
    BY <1>1, <1>4 DEF TableIn
  <1>6. h[g].depth = h[f].depth + 1
    BY <1>5 DEF ChildHome
  <1> QED
    BY <1>2, <1>5, <1>6

LEMMA TableFramesAre ==
  ASSUME NEW h, NEW n, Tree(h, memory, n, Spaces)
  PROVE  \A f \in TableFrames : f \in 1 .. n - 1 /\ h[f].depth <= 3
  <1> DEFINE one == TablesFrom(Spaces)
             two == TablesFrom(one)
             three == TablesFrom(two)
  <1>1. TableFrames = Spaces \cup one \cup two \cup three
    BY DEF TableFrames, TablesFrom
  <1>2. \A f \in Spaces : f \in 1 .. n - 1 /\ h[f].depth <= 0 /\ h[f].depth = 0
    BY DEF Tree
  <1> HIDE DEF one, two, three
  <1>3. \A f \in one : f \in 1 .. n - 1 /\ h[f].depth <= 1
    <2>1. \A f \in TablesFrom(Spaces) : f \in 1 .. n - 1 /\ h[f].depth <= 0 + 1
      BY <1>2, NextTables
    <2> QED
      BY <2>1 DEF one
  <1>4. \A f \in two : f \in 1 .. n - 1 /\ h[f].depth <= 2
    <2>1. \A f \in TablesFrom(one) : f \in 1 .. n - 1 /\ h[f].depth <= 1 + 1
      BY <1>3, NextTables
    <2> QED
      BY <2>1 DEF two
  <1>5. \A f \in three : f \in 1 .. n - 1 /\ h[f].depth <= 3
    <2>1. \A f \in TablesFrom(two) : f \in 1 .. n - 1 /\ h[f].depth <= 2 + 1
      BY <1>4, NextTables
    <2> QED
      BY <2>1 DEF three
  <1> SUFFICES ASSUME NEW f \in TableFrames PROVE f \in 1 .. n - 1 /\ h[f].depth <= 3
    OBVIOUS
  <1>6. CASE f \in Spaces
    BY <1>2, <1>6
  <1>7. CASE f \in one
    <2>1. f \in 1 .. n - 1 /\ h[f].depth <= 1
      BY <1>3, <1>7
    <2>2. h[f].depth \in Nat
      BY <2>1, SMTT(30) DEF Tree, Home
    <2> QED
      BY <2>1, <2>2
  <1>8. CASE f \in two
    <2>1. f \in 1 .. n - 1 /\ h[f].depth <= 2
      BY <1>4, <1>8
    <2>2. h[f].depth \in Nat
      BY <2>1, SMTT(30) DEF Tree, Home
    <2> QED
      BY <2>1, <2>2
  <1>9. CASE f \in three
    BY <1>5, <1>9
  <1> QED
    BY <1>1, <1>6, <1>7, <1>8, <1>9

(* What a page leads to is a frame of data, or none.                       *)
LEMMA WhereItLeads ==
  ASSUME NEW h, NEW m, NEW n, NEW r, NEW v \in VirtualPages,
         EndOfWalk(m, r, v) = Absent \/ MapsData(h, n, EndOfWalk(m, r, v))
  PROVE  \/ Translate(m, r, v) = NoFrame
         \/ Translate(m, r, v) \in 1 .. n - 1 /\ h[Translate(m, r, v)].depth = 4
  <1>1. v \in Nat
    BY PlaceOfPage
  <1>2. CASE EndOfWalk(m, r, v) = Absent
    BY <1>2, AbsentTranslates
  <1>3. CASE MapsData(h, n, EndOfWalk(m, r, v))
    <2>1. Translate(m, r, v) = EndOfWalk(m, r, v).frame
      BY <1>1, <1>3, DataTranslates
    <2> QED
      BY <1>3, <2>1 DEF MapsData
  <1> QED
    BY <1>2, <1>3

(* What the kernel allocates and what processes use is never a page table  *)
(* (allocate_entry_and_follow, allocate_process).                          *)
THEOREM TablesStayPrivate == Spec => []TablesNotMapped
  <1>1. ASSUME IInv PROVE TablesNotMapped
    <2>1. PICK h : Placed(h, memory, nextFrame, Spaces, BasePage + allocated)
      BY <1>1 DEF IInv
    <2>2. Tree(h, memory, nextFrame, Spaces)
      BY <2>1 DEF Placed
    <2>3. \A f \in TableFrames : f \in 1 .. nextFrame - 1 /\ h[f].depth <= 3
      BY <2>2, TableFramesAre
    <2>4. ASSUME NEW f, f = NoFrame \/ (f \in 1 .. nextFrame - 1 /\ h[f].depth = 4)
          PROVE  f \notin TableFrames
      BY <2>3, <2>4 DEF NoFrame
    <2>5. ASSUME NEW v \in DynamicPages PROVE Translate(memory, BootRoot, v) \notin TableFrames
      <3>1. v \in Nat /\ v \in VirtualPages /\ BasePage + allocated \in Nat
        BY <1>1, DynamicPagesAre, InvariantGives
      <3>2. EndOfWalk(memory, BootRoot, v) = Absent
            \/ MapsData(h, nextFrame, EndOfWalk(memory, BootRoot, v))
        BY <2>1, <3>1 DEF Placed, KernelPlaced
      <3> QED
        BY <2>4, <3>1, <3>2, WhereItLeads
    <2>6. ASSUME NEW r \in Spaces \ {BootRoot}, NEW u \in UserPages
          PROVE  Translate(memory, r, u) \notin TableFrames
      <3>1. EndOfWalk(memory, r, u) = Absent \/ MapsData(h, nextFrame, EndOfWalk(memory, r, u))
        BY <2>1 DEF Placed, UserPlaced
      <3>2. u \in VirtualPages
        BY DEF UserPages
      <3> QED
        BY <2>4, <3>1, <3>2, WhereItLeads
    <2> QED
      BY <2>5, <2>6 DEF TablesNotMapped
  <1> QED
    BY Invariance, <1>1, PTL

-----------------------------------------------------------------------------
(* The tables implement the map that AddressMap promises.                  *)

KernelMap == [v \in DynamicPages |-> Translate(memory, BootRoot, v)]
UserMap == [r \in Spaces \ {BootRoot} |-> [u \in UserPages |-> Translate(memory, r, u)]]

LEMMA KernelMapIs ==
  /\ \A v \in DynamicPages : KernelMap[v] = Translate(memory, BootRoot, v)
  /\ \A v \in DynamicPages : KernelMap'[v] = Translate(memory', BootRoot, v)
  BY DEF KernelMap

LEMMA UserMapIs ==
  /\ DOMAIN UserMap = Spaces \ {BootRoot} /\ DOMAIN UserMap' = Spaces' \ {BootRoot}
  /\ \A r \in Spaces \ {BootRoot} :
       UserMap[r] = [u \in UserPages |-> Translate(memory, r, u)]
  /\ \A r \in Spaces' \ {BootRoot} :
       UserMap'[r] = [u \in UserPages |-> Translate(memory', r, u)]
  BY DEF UserMap

(* Between two memories, unmapped kernel pages got frames from n on, one   *)
(* each, and no other kernel page changed.                                 *)
Maps(m, n, m2, n2) ==
  /\ n <= n2
  /\ \A v \in DynamicPages :
       \/ Translate(m2, BootRoot, v) = Translate(m, BootRoot, v)
       \/ /\ Translate(m, BootRoot, v) = NoFrame
          /\ Translate(m2, BootRoot, v) \in n .. n2 - 1
  /\ \A v, w \in DynamicPages :
       /\ Translate(m, BootRoot, v) = NoFrame /\ Translate(m2, BootRoot, v) # NoFrame
       /\ Translate(m, BootRoot, w) = NoFrame /\ Translate(m2, BootRoot, w) # NoFrame
       /\ v # w
       => Translate(m2, BootRoot, v) # Translate(m2, BootRoot, w)

SameUsers(m, S, m2) ==
  \A r \in S \ {BootRoot} : \A u \in UserPages : Translate(m2, r, u) = Translate(m, r, u)

LEMMA FilledMaps ==
  ASSUME NEW h, NEW m, NEW n, NEW S, NEW b \in Nat, Placed(h, m, n, S, b), NEW count \in Nat,
         NEW h2, NEW m2, NEW n2, Filled(h, m, n, S, b, count, h2, m2, n2),
         \A v \in b .. b + count - 1 : v \in KernelPages
  PROVE  Maps(m, n, m2, n2) /\ SameUsers(m, S, m2)
  <1> DEFINE T(v) == Translate(m, BootRoot, v)
             T2(v) == Translate(m2, BootRoot, v)
             W(v) == EndOfWalk(m2, BootRoot, v)
  <1>1. BootRoot \in S /\ n <= n2 /\ n \in Nat /\ n2 \in Nat
    <2>1. Tree(h, m, n, S) /\ Tree(h2, m2, n2, S) /\ n <= n2
      BY DEF Placed, Filled
    <2> QED
      BY <2>1, GivenFrames DEF Tree
  <1>2. ASSUME NEW q \in S, NEW w \in VirtualPages
        PROVE  /\ w \in b .. b + count - 1 =>
                    MapsData(h2, n2, EndOfWalk(m2, q, w)) /\ n <= EndOfWalk(m2, q, w).frame
               /\ w \notin b .. b + count - 1 => EndOfWalk(m2, q, w) = EndOfWalk(m, q, w)
    BY DEF Filled
  <1>3. ASSUME NEW q \in S, NEW w \in VirtualPages, w \notin b .. b + count - 1
        PROVE  Translate(m2, q, w) = Translate(m, q, w)
    <2>1. EndOfWalk(m2, q, w) = EndOfWalk(m, q, w)
      BY <1>2, <1>3
    <2> QED
      BY <2>1 DEF Translate
  <1>4. ASSUME NEW v \in DynamicPages, v \in b .. b + count - 1
        PROVE  T(v) = NoFrame /\ T2(v) = W(v).frame /\ T2(v) \in n .. n2 - 1
    <2>1. v \in Nat /\ v \in VirtualPages
      BY DynamicPagesAre
    <2>2. T(v) = NoFrame
      <3>1. EndOfWalk(m, BootRoot, v) = Absent
        BY <1>4, <2>1 DEF Placed, KernelPlaced
      <3> QED
        BY <3>1, AbsentTranslates
    <2>3. MapsData(h2, n2, W(v)) /\ n <= W(v).frame
      BY <1>1, <1>2, <1>4, <2>1
    <2>4. T2(v) = W(v).frame
      BY <2>1, <2>3, DataTranslates
    <2>5. W(v).frame \in 1 .. n2 - 1
      BY <2>3 DEF MapsData
    <2> QED
      BY <1>1, <2>2, <2>3, <2>4, <2>5
  <1>5. ASSUME NEW v \in DynamicPages
        PROVE  T2(v) = T(v) \/ (v \in b .. b + count - 1 /\ T(v) = NoFrame /\ T2(v) \in n .. n2 - 1)
    <2>1. v \in VirtualPages
      BY DynamicPagesAre
    <2>2. CASE v \in b .. b + count - 1
      BY <1>4, <2>2
    <2>3. CASE v \notin b .. b + count - 1
      BY <1>1, <1>3, <2>1, <2>3
    <2> QED
      BY <2>2, <2>3
  <1>6. ASSUME NEW v \in DynamicPages, NEW w \in DynamicPages, v # w,
               T(v) = NoFrame, T2(v) # NoFrame, T(w) = NoFrame, T2(w) # NoFrame
        PROVE  T2(v) # T2(w)
    <2>1. v \in b .. b + count - 1 /\ w \in b .. b + count - 1
      BY <1>5, <1>6
    <2>2. W(v).frame # W(w).frame
      BY <1>6, <2>1 DEF Filled
    <2>3. T2(v) = W(v).frame /\ T2(w) = W(w).frame
      BY <1>4, <2>1
    <2> QED
      BY <2>2, <2>3
  <1>7. SameUsers(m, S, m2)
    <2> SUFFICES ASSUME NEW r \in S \ {BootRoot}, NEW u \in UserPages
                 PROVE  Translate(m2, r, u) = Translate(m, r, u)
      BY DEF SameUsers
    <2>1. u \in VirtualPages /\ u \notin b .. b + count - 1
      BY DEF UserPages
    <2> QED
      BY <1>3, <2>1
  <1> QED
    BY <1>1, <1>5, <1>6, <1>7 DEF Maps

(* What a started process's space shows, and that no other space changed.  *)
LEMMA StartedMaps ==
  ASSUME NEW h, NEW m, NEW n, NEW S, NEW top \in Nat, Placed(h, m, n, S, top),
         NEW program \in DynamicPages, program < top,
         NEW h2, NEW m2, NEW n2, Started(h, m, n, S, program, h2, m2, n2)
  PROVE  /\ \A v \in DynamicPages : /\ Translate(m2, BootRoot, v) = Translate(m, BootRoot, v)
                                    /\ Translate(m2, BootRoot, v) # Translate(m2, n, StackPage)
         /\ SameUsers(m, S, m2)
         /\ Translate(m2, n, StackPage) \in n .. n2 - 1
         /\ Translate(m2, n, CodePage) = Translate(m, BootRoot, program)
         /\ \A u \in UserPages \ {CodePage, StackPage} : Translate(m2, n, u) = NoFrame
  <1>1. /\ Tree(h, m, n, S) /\ Tree(h2, m2, n2, S \cup {n}) /\ n < n2 /\ BootRoot \in S
    BY DEF Placed, Started, Tree
  <1>2. n \in Nat /\ n2 \in Nat
    BY <1>1, GivenFrames
  <1>3. ASSUME NEW q \in S, NEW w \in VirtualPages
        PROVE  Translate(m2, q, w) = Translate(m, q, w)
    <2>1. EndOfWalk(m2, q, w) = EndOfWalk(m, q, w)
      BY DEF Started
    <2> QED
      BY <2>1 DEF Translate
  <1>4. CodePage \in Nat /\ StackPage \in Nat
    BY PlaceAssumption, PlaceOfPage
  <1>5. /\ MapsData(h2, n2, EndOfWalk(m2, n, StackPage))
        /\ n < EndOfWalk(m2, n, StackPage).frame
        /\ MapsData(h2, n2, EndOfWalk(m2, n, CodePage))
        /\ EndOfWalk(m2, n, CodePage).frame = EndOfWalk(m, BootRoot, program).frame
        /\ \A w \in VirtualPages \ KernelPages :
             w # CodePage /\ w # StackPage => EndOfWalk(m2, n, w) = Absent
    BY DEF Started
  <1>6. /\ Translate(m2, n, StackPage) = EndOfWalk(m2, n, StackPage).frame
        /\ Translate(m2, n, CodePage) = EndOfWalk(m2, n, CodePage).frame
    BY <1>4, <1>5, DataTranslates
  <1>7. Translate(m2, n, StackPage) \in n .. n2 - 1 /\ n < Translate(m2, n, StackPage)
    <2>1. EndOfWalk(m2, n, StackPage).frame \in 1 .. n2 - 1
      BY <1>5 DEF MapsData
    <2> QED
      BY <1>2, <1>5, <1>6, <2>1
  <1>8. Translate(m2, n, CodePage) = Translate(m, BootRoot, program)
    <2>1. program \in Nat /\ MapsData(h, n, EndOfWalk(m, BootRoot, program))
      BY DynamicPagesAre DEF Placed, KernelPlaced
    <2>2. Translate(m, BootRoot, program) = EndOfWalk(m, BootRoot, program).frame
      BY <2>1, DataTranslates
    <2> QED
      BY <1>5, <1>6, <2>2
  <1>9. ASSUME NEW v \in DynamicPages
        PROVE  /\ Translate(m2, BootRoot, v) = Translate(m, BootRoot, v)
               /\ Translate(m2, BootRoot, v) # Translate(m2, n, StackPage)
    <2>1. v \in VirtualPages /\ v \in Nat
      BY DynamicPagesAre
    <2>2. Translate(m2, BootRoot, v) = Translate(m, BootRoot, v)
      BY <1>1, <1>3, <2>1
    <2>3. EndOfWalk(m, BootRoot, v) = Absent \/ MapsData(h, n, EndOfWalk(m, BootRoot, v))
      BY <2>1 DEF Placed, KernelPlaced
    <2>4. Translate(m, BootRoot, v) = NoFrame \/ Translate(m, BootRoot, v) \in 1 .. n - 1
      BY <2>1, <2>3, WhereItLeads
    <2> QED
      BY <1>2, <1>7, <2>2, <2>4 DEF NoFrame
  <1>10. SameUsers(m, S, m2)
    BY <1>3 DEF SameUsers, UserPages
  <1>11. ASSUME NEW u \in UserPages \ {CodePage, StackPage} PROVE Translate(m2, n, u) = NoFrame
    <2>1. EndOfWalk(m2, n, u) = Absent
      BY <1>5 DEF UserPages
    <2> QED
      BY <2>1, AbsentTranslates
  <1> QED
    BY <1>7, <1>8, <1>9, <1>10, <1>11

LEMMA GivenGrows ==
  ASSUME NEW a \in Nat, NEW b \in Nat, a <= b
  PROVE  1 .. a - 1 \subseteq 1 .. b - 1
  OBVIOUS

LEMMA MapsMore ==
  ASSUME Maps(memory, nextFrame, memory', nextFrame'), nextFrame \in Nat, nextFrame' \in Nat,
         nextFrame > 0
  PROVE  Map!MapMore
  <1> DEFINE T(v) == Translate(memory, BootRoot, v)
             T2(v) == Translate(memory', BootRoot, v)
             fresh == (1 .. nextFrame' - 1) \ (1 .. nextFrame - 1)
  <1>1. \A v \in DynamicPages : T2(v) = T(v) \/ (T(v) = NoFrame /\ T2(v) \in fresh /\ T2(v) # NoFrame)
    BY DEF Maps, NoFrame
  <1>2. \A v, w \in DynamicPages :
          /\ T(v) = NoFrame /\ T2(v) # NoFrame /\ T(w) = NoFrame /\ T2(w) # NoFrame /\ v # w
          => T2(v) # T2(w)
    BY DEF Maps
  <1>3. 1 .. nextFrame - 1 \subseteq 1 .. nextFrame' - 1
    <2>1. nextFrame <= nextFrame'
      BY DEF Maps
    <2> QED
      BY <2>1, GivenGrows
  <1>4. \A v \in DynamicPages : KernelMap[v] = T(v) /\ KernelMap'[v] = T2(v)
    BY KernelMapIs
  <1> HIDE DEF T, T2, fresh
  <1> DEFINE Fresh(v) == KernelMap[v] = NoFrame /\ KernelMap'[v] # NoFrame
  <1>5. /\ \A v \in DynamicPages : KernelMap'[v] = KernelMap[v] \/ Fresh(v)
        /\ \A v, w \in DynamicPages : Fresh(v) /\ Fresh(w) /\ v # w => KernelMap'[v] # KernelMap'[w]
        /\ \A v \in DynamicPages : Fresh(v) => KernelMap'[v] \in fresh
    BY <1>1, <1>2, <1>4
  <1> QED
    BY <1>3, <1>5 DEF Map!MapMore, Map!New, KernelMap, fresh

LEMMA UsersSame ==
  ASSUME SameUsers(memory, Spaces, memory'), NEW r \in Spaces \ {BootRoot}, r \in Spaces' 
  PROVE  UserMap'[r] = UserMap[r]
  <1>1. \A u \in UserPages : Translate(memory', r, u) = Translate(memory, r, u)
    BY DEF SameUsers
  <1> QED
    BY <1>1, UserMapIs

LEMMA UserMapKept ==
  ASSUME SameUsers(memory, Spaces, memory'), Spaces' = Spaces
  PROVE  UserMap' = UserMap
  <1>1. \A r \in Spaces \ {BootRoot} :
          [u \in UserPages |-> Translate(memory', r, u)] = [u \in UserPages |-> Translate(memory, r, u)]
    BY DEF SameUsers
  <1> QED
    BY <1>1 DEF UserMap

LEMMA AllocateMaps ==
  ASSUME IInv, NEW count \in Counts, AllocatePages(count)
  PROVE  Map!AllocatePages
  <1>1. PICK h : Placed(h, memory, nextFrame, Spaces, BasePage + allocated)
    BY DEF IInv
  <1>2. PICK h2 : Filled(h, memory, nextFrame, Spaces, BasePage + allocated, count,
                         h2, memory', nextFrame')
    BY <1>1, AllocateFills
  <1>3. status \in {"boot", "running"} /\ status' = "running"
    BY <1>1, AllocateFills DEF AllocatePages
  <1>4. count \in Nat \ {0} /\ RoomFor(count) /\ spaces' = spaces
    BY PlaceAssumption DEF AllocatePages
  <1>5. BasePage + allocated \in Nat /\ allocated \in Nat /\ nextFrame \in Nat /\ nextFrame > 0
    BY InvariantGives
  <1>6. \A v \in BasePage + allocated .. BasePage + allocated + count - 1 : v \in KernelPages
    BY <1>4, <1>5, PagesToFill
  <1>7. Maps(memory, nextFrame, memory', nextFrame') /\ SameUsers(memory, Spaces, memory')
    <2> DEFINE b == BasePage + allocated
    <2>1. b \in Nat /\ count \in Nat /\ \A v \in b .. b + count - 1 : v \in KernelPages
      BY <1>4, <1>5, <1>6
    <2>2. /\ Placed(h, memory, nextFrame, Spaces, b)
          /\ Filled(h, memory, nextFrame, Spaces, b, count, h2, memory', nextFrame')
      BY <1>1, <1>2
    <2> HIDE DEF b
    <2> QED
      BY <2>1, <2>2, FilledMaps
  <1>8. nextFrame' \in Nat
    BY <1>2, GivenFrames DEF Filled
  <1>9. Map!MapMore
    BY <1>5, <1>7, <1>8, MapsMore
  <1>10. UserMap' = UserMap
    <2>1. Spaces' = Spaces
      BY <1>4 DEF Spaces
    <2> QED
      BY <1>7, <2>1, UserMapKept
  <1> QED
    BY <1>3, <1>9, <1>10 DEF Map!AllocatePages, UserMap

LEMMA FreeMaps ==
  ASSUME IInv, FreeTopPage
  PROVE  \E v \in DynamicPages : Map!FreePage(v)
  <1>1. PICK h : Placed(h, memory, nextFrame, Spaces, BasePage + allocated)
    BY DEF IInv
  <1> DEFINE v == BasePage + allocated - 1
  <1>2. /\ v \in DynamicPages
        /\ MapsData(h, nextFrame, EndOfWalk(memory, BootRoot, v))
        /\ Unmapped(memory, Spaces, v, memory')
        /\ status' = status
    BY <1>1, FreeUnmaps
  <1>3. status = "running" /\ nextFrame' = nextFrame /\ spaces' = spaces
    BY DEF FreeTopPage
  <1> HIDE DEF v
  <1>4. BootRoot \in Spaces
    BY <1>1 DEF Placed, Tree
  <1>5. v \in Nat /\ v \in VirtualPages
    BY <1>2, DynamicPagesAre
  <1>6. Translate(memory, BootRoot, v) # NoFrame
    <2>1. Translate(memory, BootRoot, v) = EndOfWalk(memory, BootRoot, v).frame
      BY <1>2, <1>5, DataTranslates
    <2>2. EndOfWalk(memory, BootRoot, v).frame \in 1 .. nextFrame - 1
      BY <1>2 DEF MapsData
    <2> QED
      BY <2>1, <2>2 DEF NoFrame
  <1>7. Translate(memory', BootRoot, v) = NoFrame
    <2>1. EndOfWalk(memory', BootRoot, v) = Absent
      BY <1>2, <1>4, <1>5 DEF Unmapped
    <2> QED
      BY <2>1, AbsentTranslates
  <1>8. ASSUME NEW q \in Spaces, NEW w \in VirtualPages, w # v
        PROVE  Translate(memory', q, w) = Translate(memory, q, w)
    <2>1. EndOfWalk(memory', q, w) = EndOfWalk(memory, q, w)
      BY <1>2, <1>8 DEF Unmapped
    <2> QED
      BY <2>1 DEF Translate
  <1>9. KernelMap[v] # NoFrame
    BY <1>2, <1>6, KernelMapIs
  <1>10. KernelMap' = [KernelMap EXCEPT ![v] = NoFrame]
    <2> DEFINE k2 == [w \in DynamicPages |-> Translate(memory', BootRoot, w)]
               k == [w \in DynamicPages |-> Translate(memory, BootRoot, w)]
    <2>1. \A w \in DynamicPages : w # v => Translate(memory', BootRoot, w) = Translate(memory, BootRoot, w)
      BY <1>4, <1>8, DynamicPagesAre
    <2>2. k2 = [k EXCEPT ![v] = NoFrame]
      BY <1>2, <1>7, <2>1
    <2> QED
      BY <2>2 DEF KernelMap
  <1>11. UserMap' = UserMap
    <2>1. ASSUME NEW r \in Spaces \ {BootRoot}, NEW u \in UserPages
          PROVE  Translate(memory', r, u) = Translate(memory, r, u)
      <3>1. u \in VirtualPages /\ u # v
        BY <1>2, DynamicPagesAre DEF UserPages
      <3> QED
        BY <1>8, <3>1
    <2>2. SameUsers(memory, Spaces, memory')
      BY <2>1 DEF SameUsers
    <2>3. Spaces' = Spaces
      BY <1>3 DEF Spaces
    <2> QED
      BY <2>2, <2>3, UserMapKept
  <1>12. Map!FreePage(v)
    BY <1>2, <1>3, <1>9, <1>10, <1>11 DEF Map!FreePage, KernelMap, UserMap
  <1> QED
    BY <1>2, <1>12

LEMMA StartMaps ==
  ASSUME IInv, StartProcess
  PROVE  Map!Next
  <1>1. PICK h : Placed(h, memory, nextFrame, Spaces, BasePage + allocated)
    BY DEF IInv
  <1>2. PICK h1, m1, n1, h2 :
           /\ Filled(h, memory, nextFrame, Spaces, BasePage + allocated, 1, h1, m1, n1)
           /\ Started(h1, m1, n1, Spaces, BasePage + allocated, h2, memory', nextFrame')
           /\ spaces' = Append(spaces, n1)
           /\ status' = "running"
    BY <1>1, StartStarts
  <1>3. status = "running" /\ RoomFor(1)
    BY DEF StartProcess
  <1>4. /\ allocated \in Nat /\ BasePage + allocated \in Nat /\ nextFrame \in Nat /\ nextFrame > 0
    BY InvariantGives
  <1> DEFINE b == BasePage + allocated
  <1>5. b \in Nat /\ b + 1 \in Nat /\ 1 \in Nat /\ b < b + 1 /\ b \in b .. b + 1 - 1
    BY <1>4
  <1>6. (\A v \in b .. b + 1 - 1 : v \in KernelPages) /\ b \in DynamicPages
    BY <1>3, <1>4, <1>5, PagesToFill
  <1>7. b = BasePage + allocated
    OBVIOUS
  <1> HIDE DEF b
  <1>8. /\ Placed(h, memory, nextFrame, Spaces, b)
        /\ Filled(h, memory, nextFrame, Spaces, b, 1, h1, m1, n1)
        /\ Started(h1, m1, n1, Spaces, b, h2, memory', nextFrame')
    BY <1>1, <1>2, <1>7
  <1>9. Placed(h1, m1, n1, Spaces, b + 1)
    BY <1>5, <1>6, <1>8, FilledIsPlaced
  <1>10. Maps(memory, nextFrame, m1, n1) /\ SameUsers(memory, Spaces, m1)
    BY <1>5, <1>6, <1>8, FilledMaps
  <1>11. /\ \A v \in DynamicPages : /\ Translate(memory', BootRoot, v) = Translate(m1, BootRoot, v)
                                    /\ Translate(memory', BootRoot, v) # Translate(memory', n1, StackPage)
         /\ SameUsers(m1, Spaces, memory')
         /\ Translate(memory', n1, StackPage) \in n1 .. nextFrame' - 1
         /\ Translate(memory', n1, CodePage) = Translate(m1, BootRoot, b)
         /\ \A u \in UserPages \ {CodePage, StackPage} : Translate(memory', n1, u) = NoFrame
    BY <1>5, <1>6, <1>8, <1>9, StartedMaps
  <1>12. /\ Tree(h1, m1, n1, Spaces) /\ Tree(h2, memory', nextFrame', Spaces \cup {n1})
         /\ nextFrame <= n1 /\ n1 < nextFrame'
         /\ MapsData(h1, n1, EndOfWalk(m1, BootRoot, b)) /\ nextFrame <= EndOfWalk(m1, BootRoot, b).frame
    <2>1. Tree(h1, m1, n1, Spaces) /\ Tree(h2, memory', nextFrame', Spaces \cup {n1})
          /\ nextFrame <= n1 /\ n1 < nextFrame'
      BY <1>8 DEF Filled, Started
    <2>2. BootRoot \in Spaces /\ b \in VirtualPages
      BY <1>6, <2>1, DynamicPagesAre DEF Tree
    <2> QED
      BY <1>5, <1>8, <2>1, <2>2 DEF Filled
  <1>13. n1 \in Nat /\ nextFrame' \in Nat /\ n1 >= 4
    BY <1>12, GivenFrames
  <1>14. Spaces' = Spaces \cup {n1} /\ n1 \notin Spaces /\ n1 # BootRoot
    <2>1. Spaces' = Spaces \cup {n1}
      BY <1>2, <1>13, SpacesGrow DEF IInv
    <2>2. Spaces \subseteq 1 .. n1 - 1
      BY <1>12 DEF Tree
    <2> QED
      BY <1>13, <2>1, <2>2 DEF BootRoot
  <1>15. Map!MapMore
    <2>1. Maps(memory, nextFrame, memory', nextFrame')
      <3>1. ASSUME NEW v \in DynamicPages
            PROVE  \/ Translate(memory', BootRoot, v) = Translate(memory, BootRoot, v)
                   \/ /\ Translate(memory, BootRoot, v) = NoFrame
                      /\ Translate(memory', BootRoot, v) \in nextFrame .. nextFrame' - 1
        <4>1. \/ Translate(m1, BootRoot, v) = Translate(memory, BootRoot, v)
              \/ /\ Translate(memory, BootRoot, v) = NoFrame
                 /\ Translate(m1, BootRoot, v) \in nextFrame .. n1 - 1
          BY <1>10 DEF Maps
        <4>2. Translate(memory', BootRoot, v) = Translate(m1, BootRoot, v)
          BY <1>11
        <4> QED
          BY <1>4, <1>12, <1>13, <4>1, <4>2
      <3>2. nextFrame <= nextFrame'
        BY <1>4, <1>12, <1>13
      <3> QED
        BY <1>10, <1>11, <3>1, <3>2 DEF Maps
    <2> QED
      BY <1>4, <1>13, <2>1, MapsMore
  <1>16. KernelMap[b] = NoFrame /\ KernelMap'[b] # NoFrame /\ KernelMap'[b] = Translate(m1, BootRoot, b)
    <2>1. EndOfWalk(memory, BootRoot, b) = Absent
      BY <1>5, <1>6, <1>8 DEF Placed, KernelPlaced
    <2>2. Translate(memory, BootRoot, b) = NoFrame
      BY <2>1, AbsentTranslates
    <2>3. Translate(m1, BootRoot, b) = EndOfWalk(m1, BootRoot, b).frame
      BY <1>5, <1>12, DataTranslates
    <2>4. EndOfWalk(m1, BootRoot, b).frame \in 1 .. n1 - 1
      BY <1>12 DEF MapsData
    <2>5. KernelMap[b] = Translate(memory, BootRoot, b) /\ KernelMap'[b] = Translate(memory', BootRoot, b)
      BY <1>6, KernelMapIs
    <2>6. Translate(memory', BootRoot, b) = Translate(m1, BootRoot, b)
      BY <1>6, <1>11
    <2> QED
      BY <2>2, <2>3, <2>4, <2>5, <2>6 DEF NoFrame
  <1>17. CodePage \in UserPages /\ StackPage \in UserPages
    BY PlaceAssumption DEF UserPages
  <1>18. /\ n1 \in Spaces' \ {BootRoot}
         /\ UserMap'[n1] = [u \in UserPages |-> Translate(memory', n1, u)]
    BY <1>14, UserMapIs
  <1>19. /\ UserMap'[n1][StackPage] = Translate(memory', n1, StackPage)
         /\ UserMap'[n1][CodePage] = Translate(memory', n1, CodePage)
         /\ \A u \in UserPages \ {CodePage, StackPage} : UserMap'[n1][u] = NoFrame
    BY <1>11, <1>17, <1>18
  <1>20. UserMap'[n1][StackPage] \in (1 .. nextFrame' - 1) \ (1 .. nextFrame - 1)
    BY <1>4, <1>11, <1>12, <1>13, <1>19
  <1>21. /\ DOMAIN UserMap' = DOMAIN UserMap \cup {n1}
         /\ n1 \in DOMAIN UserMap' \ DOMAIN UserMap
    BY <1>14, UserMapIs
  <1>22. \A r \in DOMAIN UserMap : UserMap'[r] = UserMap[r]
    <2>1. SameUsers(memory, Spaces, memory')
      BY <1>10, <1>11 DEF SameUsers
    <2>2. DOMAIN UserMap = Spaces \ {BootRoot} /\ Spaces \subseteq Spaces'
      BY <1>14, UserMapIs
    <2> QED
      BY <2>1, <2>2, UsersSame
  <1>23. \A v \in DynamicPages : KernelMap'[v] # UserMap'[n1][StackPage]
    BY <1>11, <1>19, KernelMapIs
  <1>24. \E v \in DynamicPages : /\ KernelMap[v] = NoFrame /\ KernelMap'[v] # NoFrame
                                 /\ UserMap'[n1][CodePage] = KernelMap'[v]
    BY <1>6, <1>11, <1>16, <1>19
  <1>25. Map!StartProcess(n1, CodePage, StackPage)
    BY <1>2, <1>3, <1>15, <1>19, <1>20, <1>21, <1>22, <1>23, <1>24
       DEF Map!StartProcess, Map!New, KernelMap, UserMap
  <1>26. \E s \in DOMAIN UserMap' \ DOMAIN UserMap :
           \E code, stack \in UserPages : Map!StartProcess(s, code, stack)
    BY <1>17, <1>21, <1>25
  <1> QED
    BY <1>26 DEF Map!Next, UserMap

LEMMA InitMaps == Init => Map!Init
  <1> SUFFICES ASSUME Init PROVE Map!Init
    OBVIOUS
  <1>1. memory = BootMemory /\ spaces = <<BootRoot>> /\ status = "boot"
    BY DEF Init
  <1>2. Spaces = {BootRoot}
    BY <1>1 DEF Spaces
  <1>3. \A v \in DynamicPages : Translate(memory, BootRoot, v) = NoFrame
    BY <1>1, BootWalks, AbsentTranslates
  <1>4. KernelMap = [v \in DynamicPages |-> NoFrame]
    BY <1>3 DEF KernelMap
  <1>5. UserMap = <<>>
    BY <1>2 DEF UserMap
  <1> QED
    BY <1>1, <1>4, <1>5 DEF Map!Init, KernelMap, UserMap

LEMMA MapUnchanged ==
  ASSUME memory' = memory, nextFrame' = nextFrame, spaces' = spaces
  PROVE  UNCHANGED <<KernelMap, UserMap, nextFrame>>
  BY DEF KernelMap, UserMap, Spaces

LEMMA StepMaps == IInv /\ [Next]_vars => [Map!Next]_(Map!vars)
  <1> SUFFICES ASSUME IInv, [Next]_vars PROVE Map!Next \/ UNCHANGED Map!vars
    OBVIOUS
  <1>1. ASSUME NEW count \in Counts, AllocatePages(count) PROVE Map!Next
    BY <1>1, AllocateMaps DEF Map!Next
  <1>2. CASE FreeTopPage
    BY <1>2, FreeMaps DEF Map!Next
  <1>3. CASE StartProcess
    BY <1>3, StartMaps
  <1>4. ASSUME memory' = memory, nextFrame' = nextFrame, spaces' = spaces,
               status \in {"boot", "running"}, status' \in {"no_page", "invalid_free"}
        PROVE  Map!Next
    <2>1. UNCHANGED <<KernelMap, UserMap, nextFrame>>
      BY <1>4, MapUnchanged
    <2>2. (status' \in {"boot", "running"}) = FALSE
      BY <1>4
    <2>3. Map!Panic
      BY <1>4, <2>1, <2>2 DEF Map!Panic, KernelMap, UserMap
    <2> QED
      BY <2>3 DEF Map!Next
  <1>5. CASE PanicInvalidFree
    BY <1>4, <1>5 DEF PanicInvalidFree
  <1>6. CASE PanicNoPage
    BY <1>4, <1>6 DEF PanicNoPage
  <1>7. ASSUME memory' = memory, nextFrame' = nextFrame, spaces' = spaces, status' = status
        PROVE  UNCHANGED Map!vars
    <2>1. UNCHANGED <<KernelMap, UserMap, nextFrame>>
      BY <1>7, MapUnchanged
    <2> QED
      BY <1>7, <2>1 DEF Map!vars, KernelMap, UserMap
  <1>8. ASSUME NEW i \in DOMAIN spaces, SwitchTo(spaces[i]) PROVE UNCHANGED Map!vars
    BY <1>7, <1>8 DEF SwitchTo
  <1>9. CASE Use(ProbedPage)
    BY <1>7, <1>9 DEF Use
  <1>10. CASE UNCHANGED vars
    BY <1>7, <1>10 DEF vars
  <1> QED
    BY <1>1, <1>2, <1>3, <1>5, <1>6, <1>8, <1>9, <1>10 DEF Next

(* The trees of tables implement one kernel mapping that every space shows *)
(* and a private one for each process, whatever space was in use when a    *)
(* page was mapped (map_page, unmap_page, allocate_process).               *)
THEOREM RefinesAddressMap == Spec => ImplementsAddressMap
  BY InitMaps, StepMaps, Invariance, PTL DEF Spec, ImplementsAddressMap, Map!Spec
=============================================================================
