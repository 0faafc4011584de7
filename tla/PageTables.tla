----------------------------- MODULE PageTables -----------------------------
(***************************************************************************)
(* The four-level page tables of kernel/memory/paging.cpp, as operators on *)
(* the memory that holds them: map_page, unmap_page and the walks.         *)
(*                                                                         *)
(* A virtual page is its number and a physical page a frame. memory maps a *)
(* frame to the table it holds (or to a blank one, when it holds data). An *)
(* entry says what it leads to; its access flags are left out: map_page    *)
(* sets all of them to fixed values.                                       *)
(***************************************************************************)
EXTENDS PageEntry

CONSTANTS
  Fanout,     (* entries of a table: 512 *)
  Reach,      (* how many of them, below the top level, the modelled pages use *)
  FrameCount, (* frames of physical memory *)
  Excess      (* imagined frames past them, more than one call can take *)

ASSUME SizeAssumption ==
  /\ Fanout \in Nat /\ Fanout % 2 = 0 /\ Fanout > 0
  /\ Reach \in 1 .. Fanout
  /\ FrameCount \in Nat /\ Excess \in Nat /\ FrameCount + Excess < 2^16

Index == 0 .. Fanout - 1
Frames == 1 .. FrameCount + Excess
NoFrame == -1

(* The indices of a virtual page, from the highest level down. *)
IndexPml4(v) == v \div (Reach * Reach * Reach)
IndexPdp(v) == (v \div (Reach * Reach)) % Reach
IndexPd(v) == (v \div Reach) % Reach
IndexPt(v) == v % Reach

PageAt(pml4, pdp, pd, pt) == ((pml4 * Reach + pdp) * Reach + pd) * Reach + pt

VirtualPages == 0 .. PageAt(Fanout - 1, Reach - 1, Reach - 1, Reach - 1)

(* The higher half of memory belongs to the kernel. *)
KernelPages == {v \in VirtualPages : IndexPml4(v) >= Fanout \div 2}

-----------------------------------------------------------------------------
(* Entries, as a walk reads them. span is the number of pages a mapping    *)
(* entry stands for, more than one in the big pages of the boot loader;    *)
(* ours says that get_available() reads MAT_MAPPED_MAGIC. What was in an   *)
(* entry that is written makes no difference (PageEntryProofs).            *)

Entry(leads, f, span, ours) == [leads |-> leads, frame |-> f, span |-> span, ours |-> ours]

Absent == Entry("nowhere", NoFrame, 0, FALSE)

(* Bound: frames below 2^16. *)
FrameAddress(f) == {b \in 12 .. 27 : (f \div 2^(b - 12)) % 2 = 1}
FrameNumber(addr) == CHOOSE f \in Frames \cup {0} : FrameAddress(f) = addr

(* leaf: the entry is one of a page table, where PS is no size.            *)
Meaning(e, leaf) ==
  IF ~IsPresent(e) THEN Absent
  ELSE IF leaf \/ IsPs(e)
       THEN Entry("page", FrameNumber(Addr(e)), IF leaf THEN 1 ELSE Reach * Reach,
                  GetAvailable(e) = MAT_MAPPED_MAGIC)
       ELSE Entry("table", FrameNumber(Addr(e)), 0, FALSE)

BigPage(f) == {0, 1, 7} \cup FrameAddress(f)

TableMeaning == [f \in Frames |-> Meaning(TableEntry({}, FrameAddress(f)), FALSE)]
PageMeaning == [f \in Frames |-> Meaning(MappedEntry({}, FrameAddress(f)), TRUE)]

ToTable(f) == TableMeaning[f]
ToPage(f) == PageMeaning[f]
ToGibPage(f) == Meaning(BigPage(f), FALSE)

BlankTable == [i \in Index |-> Absent]

(* The entry the walk of a page ends at, as the hardware and get_entry_at  *)
(* find it: the one of the page table, or the first that leads to no table.*)
EndOfWalk(memory, root, v) ==
  LET pml4 == memory[root][IndexPml4(v)]
      pdp == memory[pml4.frame][IndexPdp(v)]
      pd == memory[pdp.frame][IndexPd(v)]
  IN  IF pml4.leads # "table" THEN pml4
      ELSE IF pdp.leads # "table" THEN pdp
      ELSE IF pd.leads # "table" THEN pd
      ELSE memory[pd.frame][IndexPt(v)]

(* The frame a page translates to (virtual_to_physical). *)
Translate(memory, root, v) ==
  LET e == EndOfWalk(memory, root, v)
  IN  IF e.leads = "page" THEN e.frame + (v % e.span) ELSE NoFrame

-----------------------------------------------------------------------------
(* A state of the memory is the tables, the next frame that                *)
(* allocate_physical_page returns (no page is ever given back, so frames   *)
(* are handed out in order), the table that a walk has reached and whether *)
(* a page was mapped twice. A call panics that would take a frame past     *)
(* FrameCount or map twice.                                                *)

Enough(s) == s.next <= FrameCount + 1

TakeFrame(s) == [s EXCEPT !.next = @ + 1]

Follow(s, i) == [s EXCEPT !.table = s.memory[s.table][i].frame]

(* Mutant: the frame of a new table is not marked as used. *)
EnsureTableUnmarked(s, i) ==
  IF s.memory[s.table][i].leads = "table" THEN Follow(s, i)
  ELSE Follow([s EXCEPT !.memory[s.next] = BlankTable,
                        !.memory[s.table][i] = ToTable(s.next)], i)

(* allocate_entry_and_follow: an entry that leads to no table, or to a big *)
(* page, gets a new blank table.                                           *)
EnsureTable(s, i) ==
  IF s.memory[s.table][i].leads = "table" THEN Follow(s, i)
  ELSE Follow([s EXCEPT !.memory[s.next] = BlankTable,
                        !.memory[s.table][i] = ToTable(s.next),
                        !.next = @ + 1], i)

(* The tables on the way to a page, made where they are missing.           *)
TablesTo(s, root, v) ==
  LET indices == <<IndexPml4(v), IndexPdp(v), IndexPd(v)>>
      walk[level \in 0 .. 3] ==
        IF level = 0 THEN [s EXCEPT !.table = root]
        ELSE EnsureTable(walk[level - 1], indices[level])
  IN  walk[3]

(* map_page, which panics when it has mapped the page already.             *)
MapPage(s, root, v, f) ==
  LET to == TablesTo(s, root, v)
  IN  [to EXCEPT !.memory[to.table][IndexPt(v)] = ToPage(f),
                 !.twice = @ \/ to.memory[to.table][IndexPt(v)].ours]

(* Mutant: the entry one level up is cleared. *)
UnmapTable(memory, root, v) ==
  LET pdp == memory[root][IndexPml4(v)].frame
      pd == memory[pdp][IndexPdp(v)].frame
  IN  [memory EXCEPT ![pd][IndexPd(v)] = Absent]

(* unmap_page panics unless the page is one that map_page has mapped.      *)
Unmappable(memory, root, v) == EndOfWalk(memory, root, v).ours

UnmapPage(memory, root, v) ==
  LET pdp == memory[root][IndexPml4(v)].frame
      pd == memory[pdp][IndexPdp(v)].frame
      pt == memory[pd][IndexPd(v)].frame
  IN  [memory EXCEPT ![pt][IndexPt(v)] = Absent]
=============================================================================
