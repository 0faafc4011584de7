--------------------------- MODULE AddressSpaces ---------------------------
(***************************************************************************)
(* The virtual allocator (kernel/memory/virtual_alloc.cpp) and the address *)
(* spaces of processes (kernel/tasks/process.cpp) on the page tables of    *)
(* PageTables, with the translations the CPU has cached.                   *)
(*                                                                         *)
(* Each call is one step. What a call wrote before it panicked is left out:*)
(* nothing runs afterwards.                                                *)
(***************************************************************************)
EXTENDS PageTables, Sequences

CONSTANTS
  BasePage,      (* BASE_ADDRESS: 0xffff804000000000 *)
  HhdmPml4,      (* the top-level index of the boot loader's direct map *)
  CodePage,      (* where a process's program is: 0x4200000 *)
  StackPage,     (* the page of a process's stack: that of 0x80000000 - 8 *)
  Counts,        (* the numbers of pages asked for at once *)
  Processes,     (* how many processes are started at most *)
  ProbedPage,    (* the kernel page whose cached translation is followed *)
  KernelStack    (* the page where a kernel function's variables are *)

VARIABLES
  memory,        (* the tables in physical memory *)
  nextFrame,     (* the next frame allocate_physical_page returns *)
  allocated,     (* allocated_pages *)
  spaces,        (* the top-level tables, the kernel's first *)
  cr3,           (* the top-level table in use *)
  cached,        (* the translations the CPU holds *)
  status         (* what the kernel is doing *)

vars == <<memory, nextFrame, allocated, spaces, cr3, cached, status>>

Half == Fanout \div 2

(* The frames of the boot loader's tables: the top level, and the tables   *)
(* behind its lower half and behind the direct map.                        *)
BootRoot == 1
LowTable == 2
HhdmTable == 3

ASSUME PlaceAssumption ==
  /\ BasePage \in VirtualPages /\ IndexPml4(BasePage) = Half
  /\ BasePage = PageAt(Half, IndexPdp(BasePage), 0, 0)
  /\ HhdmPml4 \in Half .. Fanout - 1
  /\ HhdmPml4 = Half => IndexPdp(BasePage) # 0   (* it is 256: memory ends below *)
  /\ {CodePage, StackPage} \subseteq VirtualPages \ KernelPages /\ CodePage # StackPage
  /\ ProbedPage \in KernelPages /\ KernelStack \in KernelPages
  /\ Counts \subseteq Nat \ {0} /\ Processes \in Nat
  /\ FrameCount >= 3

-----------------------------------------------------------------------------
(* paging::init finds the boot loader's tables: memory mapped one to one   *)
(* in the lower half, and the direct map, both in big pages.               *)

BootMemory ==
  [f \in Frames |->
     IF f = BootRoot
     THEN [BlankTable EXCEPT ![0] = ToTable(LowTable), ![HhdmPml4] = ToTable(HhdmTable)]
     ELSE IF f \in {LowTable, HhdmTable} THEN [BlankTable EXCEPT ![0] = ToGibPage(0)]
     ELSE BlankTable]

Init ==
  /\ memory = BootMemory
  /\ nextFrame = 4
  /\ allocated = 0
  /\ spaces = <<BootRoot>>
  /\ cr3 = BootRoot
  /\ cached = {}
  /\ status = "boot"

Tables == [memory |-> memory, next |-> nextFrame, table |-> cr3, twice |-> FALSE]

-----------------------------------------------------------------------------
(* invalidate_cache, for each of some pages: the operand of invlpg is the  *)
(* variable that holds the address, so the page that is invalidated is the *)
(* one that variable is on.                                                *)
Invalidated(pages) == {c \in cached : c.page # KernelStack}

(* allocate_pages: each page gets the next frame and is mapped, in the     *)
(* space that is in use.                                                   *)
Allocated(count) ==
  LET after[i \in 0 .. count] ==
        IF i = 0 THEN Tables
        ELSE MapPage(TakeFrame(after[i - 1]), cr3, BasePage + allocated + i - 1, after[i - 1].next)
  IN  after[count]

NextPages(count) == BasePage + allocated .. BasePage + allocated + count - 1

(* Bound: the addresses behind one top-level entry are not used up. *)
RoomFor(count) == \A v \in NextPages(count) : IndexPml4(v) = Half

(* The panic of map_page. *)
AfterMapping(s) == IF s.twice THEN "mapped_twice" ELSE "running"

(* Mutant: no test that there are frames. *)
AllocateUnchecked(count) ==
  /\ status \in {"boot", "running"}
  /\ RoomFor(count)
  /\ memory' = Allocated(count).memory
  /\ nextFrame' = Allocated(count).next
  /\ allocated' = allocated + count
  /\ cached' = Invalidated(NextPages(count))
  /\ status' = AfterMapping(Allocated(count))
  /\ UNCHANGED <<spaces, cr3>>

(* init_heap_allocator makes the first call, before there are processes.   *)
AllocatePages(count) ==
  /\ status \in {"boot", "running"}
  /\ RoomFor(count)
  /\ LET s == Allocated(count)
     IN  /\ Enough(s)
         /\ memory' = s.memory
         /\ nextFrame' = s.next
         /\ status' = AfterMapping(s)
  /\ allocated' = allocated + count
  /\ cached' = Invalidated(NextPages(count))
  /\ UNCHANGED <<spaces, cr3>>

(* The processor caches a translation when a program uses the page.        *)
Use(v) ==
  /\ status = "running"
  /\ \A c \in cached : c.page # v
  /\ Translate(memory, cr3, v) # NoFrame
  /\ cached' = cached \cup {[page |-> v, frame |-> Translate(memory, cr3, v)]}
  /\ UNCHANGED <<memory, nextFrame, allocated, spaces, cr3, status>>

(* free_page, of the topmost page. *)
FreeTopPage ==
  /\ status = "running"
  /\ allocated > 0
  /\ LET v == BasePage + allocated - 1
     IN  /\ memory' = UnmapPage(memory, cr3, v)
         /\ cached' = Invalidated({v})
         /\ status' = IF Unmappable(memory, cr3, v) THEN status ELSE "not_mapped"
  /\ allocated' = allocated - 1
  /\ UNCHANGED <<nextFrame, spaces, cr3>>

(* free_page, of an address below the first page. (Of any other allocated  *)
(* page it only says that it cannot.)                                      *)
PanicInvalidFree ==
  /\ status = "running"
  /\ status' = "invalid_free"
  /\ UNCHANGED <<memory, nextFrame, allocated, spaces, cr3, cached>>

-----------------------------------------------------------------------------
(* allocate_process, called with a page just allocated for the program.    *)

(* Mutant: the first kernel entry is not copied. *)
RootWithoutFirst(s) ==
  [s EXCEPT !.memory[s.next] =
              [i \in Index |-> IF i > Half THEN s.memory[cr3][i] ELSE Absent],
            !.next = @ + 1]

(* The new top-level table: kernel entries from the space in use, the      *)
(* others blank.                                                           *)
NewRoot(s) ==
  [s EXCEPT !.memory[s.next] =
              [i \in Index |-> IF i >= Half THEN s.memory[cr3][i] ELSE Absent],
            !.next = @ + 1]

ProcessTables ==
  LET program == Allocated(1)
      root == program.next
      rooted == NewRoot(program)
      stacked == MapPage(TakeFrame(rooted), root, StackPage, rooted.next)
  IN  MapPage(stacked, root, CodePage, Translate(stacked.memory, cr3, BasePage + allocated))

(* The r command of the terminal, and Scheduler::init: a page for the      *)
(* program, and a process.                                                 *)
StartProcess ==
  /\ status = "running"
  /\ Len(spaces) <= Processes
  /\ RoomFor(1)
  /\ LET s == ProcessTables
     IN  /\ Enough(s)
         /\ memory' = s.memory
         /\ nextFrame' = s.next
         /\ status' = AfterMapping(s)
  /\ allocated' = allocated + 1
  /\ spaces' = Append(spaces, Allocated(1).next)
  /\ cached' = Invalidated(NextPages(1) \cup {StackPage, CodePage})
  /\ UNCHANGED cr3

(* panic("Couldn't allocate a single page"), in either call. *)
PanicNoPage ==
  /\ status \in {"boot", "running"}
  /\ \/ \E count \in Counts : RoomFor(count) /\ ~Enough(Allocated(count))
     \/ Len(spaces) <= Processes /\ RoomFor(1) /\ ~Enough(ProcessTables)
  /\ status' = "no_page"
  /\ UNCHANGED <<memory, nextFrame, allocated, spaces, cr3, cached>>

(* switch_context_to: loading cr3 makes the processor forget. *)
SwitchTo(root) ==
  /\ status = "running"
  /\ cr3' = root
  /\ cached' = {}
  /\ UNCHANGED <<memory, nextFrame, allocated, spaces, status>>

Next ==
  \/ \E count \in Counts : AllocatePages(count)
  \/ FreeTopPage
  \/ PanicInvalidFree
  \/ StartProcess
  \/ PanicNoPage
  \/ \E i \in DOMAIN spaces : SwitchTo(spaces[i])
  \/ Use(ProbedPage)

Spec == Init /\ [][Next]_vars

-----------------------------------------------------------------------------
(* Properties. *)

DynamicPages == {v \in KernelPages : v >= BasePage /\ IndexPml4(v) = Half}
UserPages == VirtualPages \ KernelPages

Spaces == {spaces[i] : i \in DOMAIN spaces}

(* The tables that a walk from some space passes. *)
TableFrames ==
  LET tables(fs) == {e.frame : e \in {d \in {memory[f][i] : f \in fs, i \in Index} :
                                        d.leads = "table"}}
  IN  Spaces \cup tables(Spaces) \cup tables(tables(Spaces)) \cup tables(tables(tables(Spaces)))

EntryType == [leads : {"nowhere", "table", "page"}, frame : Frames \cup {0, NoFrame},
              span : {0, 1, Reach * Reach}, ours : BOOLEAN]

(* Neither panic of map_page and unmap_page ever comes: no page is mapped  *)
(* twice, in whichever space and after however many frees, and no page is  *)
(* unmapped that is not there. Nor is a frame handed out past the last.    *)
TypeOK ==
  /\ memory \in [Frames -> [Index -> EntryType]]
  /\ nextFrame \in 4 .. FrameCount + 1
  /\ allocated \in Nat
  /\ Spaces \subseteq 1 .. FrameCount /\ cr3 \in Spaces
  /\ \A c \in cached : c.page \in VirtualPages
  /\ status \in {"boot", "running", "no_page", "invalid_free"}

(* Every address space shows the same kernel memory, whichever space was   *)
(* in use when it was mapped and however long before or after the space    *)
(* was made: the handlers and the scheduler run in all of them             *)
(* (allocate_process copies the top level once; map_page works on the      *)
(* space in use).                                                          *)
KernelHalfShared ==
  \A v \in KernelPages :
    LET frame == Translate(memory, BootRoot, v)
    IN  \A r \in Spaces \ {BootRoot} : Translate(memory, r, v) = frame

(* What the kernel allocates and what processes use is never a page table: *)
(* only the direct map reaches those (allocate_entry_and_follow,           *)
(* allocate_process).                                                      *)
TablesNotMapped ==
  LET tables == TableFrames
  IN  /\ \A v \in DynamicPages : Translate(memory, BootRoot, v) \notin tables
      /\ \A r \in Spaces \ {BootRoot}, v \in UserPages : Translate(memory, r, v) \notin tables

(* paging.hpp:138 says of invalidate_cache that it "Invalidates the TLB    *)
(* cache for a certain page": once a page is unmapped the processor holds  *)
(* no translation of it.                                                   *)
InvalidationForgets ==
  [][FreeTopPage => \A c \in cached' : c.page # BasePage + allocated - 1]_vars

Map == INSTANCE AddressMap WITH
  KernelPages <- DynamicPages,
  None <- NoFrame,
  kernel <- [v \in DynamicPages |-> Translate(memory, BootRoot, v)],
  user <- [r \in Spaces \ {BootRoot} |-> [u \in UserPages |-> Translate(memory, r, u)]],
  given <- 1 .. nextFrame - 1,
  running <- status \in {"boot", "running"}

(* The trees of tables implement one shared mapping and private ones.      *)
ImplementsAddressMap == Map!Spec
=============================================================================
