# mat-os in TLA+

mat-os is a small x86-64 kernel: a physical and a virtual allocator, a heap,
page tables, a cooperative scheduler, drivers for the timer, the keyboard and
the mouse, and a windowing system that draws into the framebuffer. It runs on
one processor; what makes it hard is not parallelism but interrupt handlers
that run between any two instructions of code with interrupts on, bookkeeping
that is read long after it was written (bitmaps, page tables, saved registers,
captured widgets), and arithmetic at the edges.

This directory holds models of its parts as TLA+ modules, TLC configurations
that check them on small instances, and theorems that TLAPS checks for all
instances. `PROJECT.json` lists the components, the runs with what each shows,
a mutation of the code for every property that the property catches, the source
lines behind every definition, the disagreements found, the hazards of the code
and the theorems.

## The system

| part | source (`src/kernel/` unless said) | state | operations |
|---|---|---|---|
| physical allocator | `memory/physical_alloc.cpp` | a bitmap in the first region that can hold it | init, allocate, free |
| virtual allocator | `memory/virtual_alloc.cpp` | `allocated_pages` | allocate pages, free the topmost |
| heap | `memory/heap_alloc.cpp` | a list of blocks with two bits per entry | allocate, free |
| paging | `memory/paging.cpp`, `page_entry.cpp`, `address.cpp` | the tables in memory, `cr3`, the TLB | map, unmap, walk, invalidate |
| processes and scheduler | `tasks/`, `syscall.cpp` | `m_procs`, `m_active_idx`, saved registers | init, add, yield, kill |
| interrupt dispatch | `idt.cpp`, `gdt.cpp` | tables, the interrupt flag | one handler for all vectors |
| interrupt controllers | `device/pic.cpp` | masks, requests, lines in service | remap, mask, end of interrupt |
| timer | `device/pit.cpp` | a counter | tick, sleep |
| screen thread | `screen/framebuffer.cpp` | two framebuffers | paste, sleep, yield |
| keyboard, mouse, PS/2 | `device/` | modifier flags, packet bytes, a shared port | handlers, polling initialisation |
| windowing | `window/` | widget tree, focus, captured child, clip rectangles | events, painting, moves |
| terminal | `terminal/` | a ring of lines, the typed line | output, input, commands |
| containers | `src/stl/vector.hpp`, `pointer.hpp`, `iterator.hpp` | buffers, counted pointers | push, remove, copy, move, iterate |
| images and fonts | `window/qoi.cpp`, `window/font.cpp` | the rest of a file, 64 recent colours | next pixel, end of file |
| boot, build, log | `kernel.cpp`, `cxa.cpp`, `serial.cpp`, CMake, limine | none that lasts | a fixed order of calls |

How they interact: every part allocates through the heap, the heap takes pages
from the virtual allocator, that takes frames from the physical allocator and
maps them with paging, which itself takes frames for tables. Handlers
(`kernel_interrupt_handler`) run with interrupts off and call down into all of
it: a key press may create a process (two frames, tables, a push into
`m_procs`), a mouse packet may allocate in the window manager. `kernel_init`
turns interrupts on in its second step, so handlers also meet half-made state.
Once the scheduler starts, kernel code runs with interrupts on only in the
screen thread, and processes change hands only at a yield or a death.

What is hard here, and what must hold:

* *physical allocator*: masks are an `int` shifted by the number of a bit, so
  pages share flags; no page may be handed out twice for all that, nor leak;
* *heap*: three roundings lay out a block, and two-bit marks tell allocations
  apart; no two may overlap, and freeing must give back exactly what was taken;
* *paging*: a process copies half of the top-level table once; every space must
  show the same kernel memory for ever, and no table may become reachable;
* *scheduler*: deaths, arrivals and yields move an array under an index; every
  process must resume where it left off, in its turn, and the sleep must end;
* *boot*: handlers that call into a heap, a vector or a static being built;
* *drivers*: polling against handlers on one port, latched interrupts, bytes out
  of step, modifiers that stay on; every event must arrive once and as meant;
* *containers*: copies and destructions that must pair over raw and constructed
  slots, in whatever order the calls come;
* *images*: a compressed stream whose end is told from its pixels by bytes alone;
* *windowing*: press and release paired along captured children, rectangles
  that must partition what is visible, repainting in the right order;
* *terminal*: a ring of lines that scrolls while it is written and erased.

The `hazards` of `PROJECT.json` name these at their lines, with the property
that watches each, or the reason why none does.

## The modules

**Physical allocator.** `PagePool` is the promise: a page goes to one holder at
a time, never one set aside. `PhysicalAllocator` is the code. The bitmap is the
set of its one bits; `Mask` says what `bool << bit` as an `int` selects in a
64-bit word on x86-64 (shift modulo 32, sign-extended), which is undefined in
C++ and fixed here to what GCC emits. `Init` leaves in the last, partial word
whatever the memory held, because `clear()` covers the Span only.
`MarkOwnPage` is one turn of the loop that marks the bitmap's own pages,
`AllocatePhysicalPage` and `FreePhysicalPage` are the calls, and the panics end
the kernel. `holders` is history: who has what. `ImplementsPagePool` is the
refinement.

**Heap.** `HeapBlock` is the layout of a block, in the functions of the source;
`HeapAllocator` the list of blocks, with first fit, growth (`NewBlockSize`,
pages from the shared rising range), freeing by address and both panics;
`DisjointHeap` the promise. A request of size zero and the freeing of null
change nothing and are no actions. `MCHeapAllocator` adds symmetry.

**Address spaces.** `PageEntry` is an entry of a page table as its 64 bits: every
getter and setter of `page_entry.cpp`, and the entries that `map_page`,
`allocate_entry_and_follow` and `update_page` make, the last with any `PageOptions`.
Bit 63 is set and read with an int that is shifted by 63, which has no defined
outcome: `Overshift` is either nothing (GCC folds the shift to 0 at the `-O2` of the
build) or the bits 31 to 63 (carried out, the shift is modulo 32 and the sign is
extended). To clear it is right in both cases: the mask is a `u64`. `PageTables` has the
four-level tables as operators on the memory that holds them: the walk
(`EndOfWalk`, `Translate`), `EnsureTable` (`allocate_entry_and_follow`),
`MapPage`, `UnmapPage`. What its walks read in an entry is `Meaning` of those 64
bits; that what an entry held before it is written makes no difference is what
`AddressSpacesProofs` proves first and rests on. Mapping a page that is mapped and unmapping one that is
not end the kernel, in the states "mapped_twice" and "not_mapped", which
`TypeOK` excludes. `AddressSpaces` has
`allocate_pages` and `free_page` on top of it, `allocate_process`
(`StartProcess`: a page for the program, a top-level table with the kernel half
copied from the space in use, a stack, the program mapped a second time), the
switch of `cr3`, and the translations the processor has cached, which `Use`
adds and `Invalidated` drops. `AddressMap` is the promise: one shared mapping
and a private one for each process, frames never shared except a program's.

**Scheduler.** `Scheduler` has `Scheduler::init` as three steps that interrupts
come between, the yield, death by exception, the invalid system call, the
kernel thread's loop of paste, sleep and yield, the timer and the key that
starts a process. A register set is abstracted to where its program is, so a
wrong save or restore shows as a program in the wrong place. `progress` is
history: where each program really is. `RoundRobin` is the promise: a queue.

**Clip regions.** `Rects` is `math::Rect`, edges included. `ClipRegion` is the
list of clipping rectangles of a `WindowContext`: `SubtractClipRect`,
`AddClipRect` and `IntersectClipRect` begin a call, and each turn of its loop is
a step, because the search restarts on the list it changes (`PassRect`,
`SplitRect`, `EndOfSearch`, `IntersectNext`, `EndOfIntersect`); `CutOut` is
`cut_out_rect`, edge by edge. `KeepDirtyRects` and `AddDirtyRect` are what
`move_to` puts aside and what painting the widgets below adds again. `PixelRegion`
is the promise: a set of pixels. `Drawable` maps the list to it, in the middle
of a call to what the call will leave.

**Desktop.** `Widgets` is the tree: where a widget is (`ScreenRect`,
`ScreenClientRect`), what a point hits (`HitChild`), and what is drawn:
`ClipBounds` takes the clip region for the set of pixels that `ClipRegion` shows
it to be, `PaintAlone` is `paint` without the children, `Paint` with them,
`MoveTo` and `Raise` repaint as `move_to` and `raise` do. `Desktop` is the window
manager on top of it: `SkipPacket` is a packet that the throttle drops,
`MouseDown`, `MouseUp`, `MouseMove` and `MouseDrag` are those it lets through,
told apart by what the widget at the end of the path (`Path`) is given,
`KeyPress` follows the focus into a terminal. `handle_mouse` walks down a
path that each widget continues by what it captured (`m_event_child`), so what it
leaves in every widget of the path is one operator, `PassOn`. A colour is the
widget that painted it and the part of it. `clicked` is history. `Clicks` is the
promise: one widget has the mouse from press to release, and only what it drags
moves. `Picture` says what the screen should show by painting whole widgets over
each other, with none of the clipping of the code.

**Terminal.** `Terminal` has the ring of cells (`IndexOf`), the cursor, the typed
line and the commands. A key press is handled as a whole, but draws after every
character it writes, so `Type` and `Enter` queue what is written (`output`) and
`Put` writes one character; no key is taken in between. `AppendNewLine` is
`next_line`, `AppendBackspace`, `AppendHere` and `AppendOnNextLine` the other
ways through `append`, `HandleInput` the commands. An empty line, and a line that
is just `r`, are read outside of the line: what is found there is a choice, and a
fault halts the kernel. `TextWindow` is the promise: lines of text.

**Input devices.** `InterruptController` is the two 8259 as operators on a
record: the masks, the latched requests, the lines in service, `Remap` and
`RestoreMask` (`remap_pic`), `SetIrqMask`, `SendEoi`, and which request reaches the
processor (`Raised`). `InputDevices` is everything between the wire and the
window manager. The boot, from `pic::init` to `framebuffer::init`, is a table of
port operations (`Script`) and `Boot` executes one of them at a time; the byte it
read last is `answer`. `Interrupt` is `kernel_interrupt_handler` with the handler
behind it, one step, between any two operations: `HandleKeyboard`, `HandleMouse`
with `PutByte`, or the timer. `Accept` and `Load` are the PS/2 controller, `Press`,
`Release` and `MoveMouse` the user. `Press` is a key that goes down and also the
repeat of the one pressed last; the left and the right key of Ctrl, Shift and Alt are
keys of their own that share a flag (`Pair`). An interrupt before the controllers are
remapped has the vector of an exception and halts; an answer that does not come,
or is another byte, panics. `owed` and `user` are history: what was done at a
device and not handled yet, which keys are down, and which key of each pair was used
last. `EventChannels` is the promise:
each event once, in order.

**Containers.** `PointerVectors` has
vectors of shared pointers, as the widgets keep their children: a vector is its
slots, raw ones included, and each call is its change of the slots and, in
order, the pointers that it copies and destroys (`Count`). Moves copy nothing.
Every call of `vector.hpp` that changes elements is there but `resize` with a value
(`vector.hpp:146`), which nothing calls; `reserve` is part of those that make room.
`Raise` is `Widget::reorder_child_top`. `Iterators` has the iterators of `iterator.hpp`
as records with `AtEnd`, `Value` and `Advance`, lazily, one wrapped in the other, and
`Containers` puts both together: `CollectAbove` and `CollectBelow` are the
windows above and below one. In `VectorSpec`, which the proof of the counts is about, a
vector is collected from any values that are in vectors (`CollectAny`), so that no
iterator is left out; `CallsSpec` has the calls without the iterators. `call` is
history. `ObjectLists` is the promise: lists, and objects that live while they are held.

**Images.** `QOIStreamDecoder` is the decoder of `qoi.cpp` and the font built from
it. `Images` lets an encoder, free to choose among all encodings of a pixel that
the format allows (no two indices to the same pixel in a row), write a file chunk by
chunk, and decodes what it closed;
`PixelStream` is the promise: the pixels, and then the end.

The proofs are in modules of their own, named for what they are about, and
`DataFacts` has the lemmas they share.

## The runs

| run | configuration | shows |
|---|---|---|
| `physical_allocator` | `MCPhysicalAllocator` | types, owned pages stay marked, used pages have an owner, the page pool is implemented |
| `physical_one_bit_per_page` | `MCPhysicalAllocatorOneBit` | a disagreement: pages 32 apart share a bit |
| `heap_allocator` | `MCHeapAllocator` | types, marks match what is held, a new block serves its request, the abstract heap is implemented |
| `address_spaces` | `MCAddressSpaces` | types and that no page is mapped twice or unmapped unmapped, tables are never mapped, kernel memory is shared, the address map is implemented |
| `invalidation_forgets` | `MCAddressSpacesInvlpg` | a disagreement: the processor keeps the translation of a freed page |
| `scheduler` | `MCScheduler` | types, contexts kept, the queue is implemented, the screen is pasted for ever and everybody runs |
| `clip_region` | `MCClipRegion` | types, no two rectangles meet, every search ends, the list is exactly the set of pixels |
| `desktop` | `MCDesktop` | types, capture agrees down the tree, a drag stays under the mouse, keys go to what was clicked, the focused window is on top, every pixel is right, the clicks are implemented |
| `terminal` | `MCTerminal` | types, the screen shows the buffer, the typed line is to be seen, the text is implemented |
| `input_devices` | `MCInputDevices` | modifiers follow the keys, the event channels are implemented, the boot's polling ends, everything done at a device arrives |
| `containers` | `MCContainers` | counts are exact and nothing is used after its end, the lists are implemented |
| `images` | `MCImages` | the font has the pixels of the image, the pixel stream is implemented |

The runs that are expected to fail state what a comment of the source says and
what the code does otherwise:

* `physical_alloc.cpp:16` gives each page "a single bit", but
  `int(1) << bit_index` selects bits modulo 32: after page *i* is taken, page
  *i* + 32 of the same word reads as used, so half of memory is never handed
  out. That no page is handed out *twice* because of it is what
  `physical_allocator` checks and `PhysicalAllocatorProofs` proves;
* `paging.hpp:138` has `invalidate_cache` invalidate a page, but the operand of
  `invlpg` is the variable that holds the address, so the page of the stack is
  what the processor forgets.

Two more have no run of their own: `heap_allocate` stops the kernel where
`allocator.hpp:35` promises `nullptr` (`HeapOutOfMemory`), and a page of bit 31
is marked together with bits 32 to 63, of which `free_physical_page` clears only
itself, where `allocator.hpp:15` has it mark the page unused (`FreePhysicalPage`).

### Bounds

* *Physical*: bytes of 2 bits, words of 8, ints of 4, pages of 4 bytes. The
  ratio of word to int is the source's, which is all that the sharing of flags
  depends on. Eighteen pages in four usable regions: three regions are skipped,
  the bitmap's pages are at the sign bit and across the middle of a word, a
  second word is ordinary and a third is partly past the Span. The theorems
  cover every size.
* *Heap*: entries of 4 bytes, pages of 32, ordinary blocks of one page; requests
  of one entry, three entries and more than a block. Three owners suffice for a
  hole between neighbours and five pages for a list of blocks with gaps. The
  theorems cover every layout, and the source's.
* *Address spaces*: tables of 4 entries of which the modelled addresses reach 2
  below the top level (`Reach`), 21 frames, calls for one or two pages, two
  processes. 21 frames are what two processes and the first allocation need, so
  memory runs out on every shorter and longer path. `RoomFor` keeps addresses
  behind one top-level entry, which in the source covers 256 GiB. The direct map has an entry
  of its own, so the kernel's top-level entry is absent at boot and comes with
  the first allocation, as `init_heap_allocator` makes it. The theorems cover
  every size of tables and memory and any number of processes.
* *Scheduler*: the kernel process and three users. A removal before, at and
  after the index and the wrap of the index all occur with three. A sleep of two
  ticks tells "not yet" from "just now". The theorems cover any number of processes.
* *Clip regions*: four widgets on six by six pixels, one inside another, one
  across a corner, one as wide as the screen with edges in line with the others,
  in any order of calls; `MaxRects` stops calls on lists longer than four, which
  still grow past that within a call. The theorems cover every set of widgets.
* *Desktop*: six by six pixels; a window with a button and an inner window that
  sticks out of it, and a terminal that overlaps both and lies partly outside.
  Packets move the mouse by two pixels to the right, down, or back in both, far
  enough to uncover a strip or a corner and to leave the screen. `MaxDeeds` allows three presses and drags together: press, drag and
  press elsewhere, or two drags of one hold. `EarlyOffsets` lets the packets that
  are dropped go one way only, one after the other up to the edge of the screen.
  A title bar of no height and outlines of one pixel keep the edge between
  decoration and client area; `DragHeight` reaches a row past it, as the source's
  30 lies past the 24 rows of its decoration.
* *Terminal*: two rows of three cells, lines of up to four keys of which `r`, a
  space, two digits (one of them a greeting) and the backspace. The prompt and a
  full line fill the window exactly, so that a line wraps and scrolls while it is
  typed, and answers scroll it out. Four keys make a program of one byte, or leave a
  digit over.
* *Input devices*: three times a key goes down, repeats or goes up, of a letter, both
  shifts, a key with a prefix and caps: a letter within shift, caps and a letter, a key
  that is held, and both shifts down of which one is released. Two packets, on both
  sides of a key, are alike, at both ends of a signed byte and with three different
  bytes; that different movements keep their order is left to the proof, which covers
  all keys and movements. The timer is not bounded. `Patient` is TRUE: the user types
  nothing before the keyboard is set up nor while the boot polls, and does not
  move the mouse before there is a manager. With FALSE the boot can panic or the
  keyboard fall silent, see the hazard at `mouse.cpp:57`.
* *Containers*: two vectors of up to three pointers, one pointer outside, two
  objects: two slots with the same object and a third, an object that dies in one
  vector while the other is copied, a reallocation (the first buffer has four
  slots, `resize` and copies make tight ones), and reuse of a control block.
* *Images*: sixteen by four pixels, in files of up to four chunks. Five colours:
  differences that wrap around and fit in one byte, in two, or in none, a transparent one, and one whose hash is that of black. Runs of 1,
  60, 61 and 62, the longest there is; 63 and 64 would be the tags of a full
  colour. The characters are eight by two in a grid of two, so that rows and
  columns cannot be confused. The two files in `assets` that the kernel loads
  hold exactly as many pixels as their headers say, as every file here does.

### Fairness

`FairSpec` assumes that the processor executes the boot and the kernel thread
whenever they have the CPU, and that the timer ticks. A user program is assumed
nothing of: the timer handler never switches, so a program that does not yield
keeps the CPU. The liveness properties therefore carry the condition
`NobodyHogs` (every program gives up the CPU again and again, by yield or death,
and nothing halts the kernel). Any number of processes may be typed in the
source; here they are bounded, without which an endless stream of arrivals
would be no hindrance either, because each joins behind the index.

`FairSpec` of `InputDevices` assumes that the processor executes the boot and the
handlers and that the controller and the devices go on. The boot and the less
urgent handlers have strong fairness: the timer interrupts them again and again,
but its handler is short against its period, so that something runs in between;
the same holds for the bytes of one device while the other one's are in the
buffer. Nothing is assumed of the user. A panic stops the system, so deadlock is
not checked there; `BootEnds` says that there is none.

`FairClipSpec` of `ClipRegion` assumes that a loop once entered runs on: nothing
in it waits, and a handler that interrupts it returns. No call is assumed to be
made.

## The proofs

`DataFacts` holds what the proofs share: quotients, products, the least element of a
set of numbers and with it induction over a set, parts of sequences, and functions
defined step by step (`Iterates`: there is one, it has its type, and the first
steps determine it), which is how theorems reach through recursive functions.

* `PhysicalAllocatorProofs`, for every memory map and every width:
  `Numbering` (the page of a number and the number of a page, which two searches through
  the map count, undo each other), `TypeCorrect` (`TypeOK`), `OwnedStayMarked`
  (`OwnedPagesMarked`), `NoPageLeaks` (`UsedPagesHaveOwner`), `Refinement` (`ImplementsPagePool`), `Invariance` (the
  inductive invariant behind them).
* `HeapAllocatorProofs`, of a block: `EntriesAlwaysFit`, for every layout and every
  number of pages, and `NewBlockAlwaysServes`, at the numbers of the source and for
  every size; of the heap, for every layout, set of owners and set of sizes:
  `TypeCorrect` (`TypeOK`), `BitmapsAreExact` (`BitmapMatchesHeld`); where new
  blocks serve their requests (`NewBlocksServe`), `NewBlockServesItsRequest`
  (`NewBlockIsEnough`) and `ImplementsHeap` (`ImplementsDisjointHeap`);
  `SourceImplementsHeap` has both for the numbers of the source without that
  hypothesis, which `NewBlockAlwaysServes` shows to hold there.
* `AddressSpacesProofs`, for every entry of a table and every address: `MappedReadsBack`
  and `TableReadsBack` (what `map_page` writes over any old entry is read back as
  what was meant, and a table is never taken for a mapped page); for all `PageOptions`
  and both outcomes of the shift by 63, `UpdateKeepsMapping` (`update_page` sets what it
  is told and leaves where the page is and whose it is, unless it is to forbid execution
  and the shift is carried out) and `UpdateNeverForbids` (told to forbid execution, it
  never does, or loses the page); for every size of the tables, every amount of memory and
  any number of processes: `TypeCorrect` (`TypeOK`: neither panic of `map_page` and
  `unmap_page` comes), `KernelIsShared` (`KernelHalfShared`), `TablesStayPrivate`
  (`TablesNotMapped`), `RefinesAddressMap` (`ImplementsAddressMap`).
* `SchedulerProofs`, for every set of processes and every sleep: `TypeCorrect`
  (`TypeOK`), `ContextsArePreserved` (`ContextsPreserved`), `SomebodyRemains` (a
  death leaves the kernel process to switch to), `RefinesRoundRobin`
  (`ImplementsRoundRobin`); for any vectors, pointers and objects and every size:
  `CountsAreExact` (`CountsExact`), `CallsAreListCalls` (the calls of `CallsSpec` are
  those on lists: `ImplementsObjectLists`) and `CollectedAreTheValues` (a vector that is
  collected lists what the iterator gave, whichever it was and whatever it announced).
* `DesktopProofs`, for every set of rectangles and lists of any length:
  `ClipTypesCorrect` (`ClipTypeOK`), `ClipsNeverOverlap` (`NoOverlap`), `ClipsArePixels`
  (`ImplementsPixelRegion`); for every tree of widgets, their sizes, places and order at
  the start, and any number of clicks, drags and dropped packets: `Invariance`,
  `TypeCorrect` (`TypeOK` of `Desktop`), `OneHasTheMouse` (`CaptureChain`),
  `DraggedStaysUnderMouse` (`DragFollowsMouse`), `KeysAtLastClick`
  (`KeysGoToLastClicked`), `FocusedIsOnTop` (`FocusOnTop`), `NothingLeftUnpainted`
  (`ScreenIsRight`), `Refinement` (`ImplementsClicks`).
* `TerminalProofs`, for every size of the window, every prompt and set of answers, and
  lines of any length: `TypeCorrect` (`TypeOK`), `ScreenFollowsBuffer`
  (`ScreenShowsBuffer`), `UserSeesTheLine` (`TypedIsShown`), `RefinesTextWindow`
  (`ImplementsTextWindow`); for every image and every file that an encoder may write for
  it: `ImageInvariance`, `DecoderReturnsImage` (`ImplementsPixelStream`), `FontIsRight`
  (`FontShowsImage`).
* `InputDevicesProofs`, for all keys of `MakeCodes`, both of each pair among them, with
  their repeats, all movements of the mouse and any number of both, with `Patient`: `Invariance`, `BootNeverPanics` (no answer of the
  devices is missing or taken for another one, and no line is served as an exception),
  `FlagsFollowKeys` (`ModifiersFollowKeys`), `EventsArriveInOrder`
  (`ImplementsEventChannels`).

**Physical allocator.** The first number of a region is a sum over the regions before
it (`FirstIndex`, a recursive function, by `IterationExists`), so the numbers of two
regions do not meet (`RegionsInOrder`), as their pages do not by assumption; hence
`Numbering`. `OwnedPagesMarked` is not inductive: freeing clears one
bit, and whether another
owner's flag survives depends on which bits its mask selects. The argument is
that every mask of a word selects a bit in the lower half (`Low`), that
`allocate` only ever returns a page that is its own `Low`, because pages are
searched in order and `Low(i) <= i` reads as used when `i` does, and that
therefore the bit a free clears is the `Low` of that page alone. `IInv` says so:
`HeldOnce`, `HeldAreLow` (a held page is its own `Low` and that bit is one),
`OwnLowMarked` (the `Low` of each page of the bitmap is one), `OwnLowNotHeld`,
`MarkedFirst` (nothing is handed out before the bitmap is marked), and `TypeOK`.
`UsedPagesHaveOwner` is inductive together with it: a bit below an int's sign bit
is in the masks of two pages only, and `allocate` and `free` write it for the one
that is its own `Low`.

**Heap.** What the bitmap should say is `MarkOf`, read from what is held. `IInv`
says that blocks lie one behind the other (`BlocksInv`), that whoever holds
something has its pointer at an entry with room for all its entries behind it
(`HeldInv`), that the entries of two owners lie apart (`ApartInv`) and that every
mark is the right one (`MarksInv`). The heart is that `free_or_panic`, which
clears up to the first entry that is not marked as a continuation, clears the
freed range and nothing of the next one: that one begins with a start
(`GiveKeeps`), and that addresses of entries of different blocks never agree
(`PointersDiffer`), so that `heap_free` finds the block that was meant.

**Address spaces.** No invariant over the walks alone is inductive: what writing an entry
changes depends on which other walks read it. `IInv` therefore says that there is
a home for each frame that was handed out (`Home`: whose space, how deep, the indices on
the way there; nobody's, for what lies behind the kernel's half), that an entry
which is a table leads to the frame whose home is the next one (`EntryOK`), and that the
upper halves of all top-level tables agree (`Shared`); together `Tree`. Two walks
then meet in an entry only when they are walks of the same page in the same space
or of a kernel page (`SameEntry`). `KernelPlaced` and `UserPlaced` say which pages
are mapped, always to frames that are no tables. The kernel's top-level entry is there from the
first allocation on, before any space is copied: a table that is made in the
kernel's half later is behind it, so every space sees it. The frames that
`allocate_pages` takes depend on each other one by one; `Allocated` is a recursive
function and the proofs over it are by induction over the pages (`SetInduction`).
Nothing is assumed of `cr3`: the mapping is the same from every space.

**Scheduler.** A record is right while its process waits, and meaningless while it
runs; so `ContextsPreserved` needs that nobody is in the array twice and nobody
in it is unknown (`ArrayInv`), that the index points at whoever has the CPU, that
until the start it is the boot that has it (`PhaseInv`) and every record holds its program's entry
(`BootInv`), and that a program that does not exist yet is at its entry
(`ProgressInv`). For the queue, the array is rotated by the index
(`Rotation`): a yield rotates by one, a death removes the head, and a push at the
end of the array is an insertion somewhere behind the head (`PushJoins`).

**Vectors of shared pointers.** No single step of a call keeps the counts right: between
two of its uses a slot is moved and not yet cleared, or dropped and not yet written. So the
state is read as a placing (`Placed`): which pointer is at which place, a slot, a pointer
outside or a temporary of the call. A use is a step from one placing to another
(`Takes`): a copy puts what is at some place at an empty one, a drop empties its
place. Each changes the counter of its object by one and so the number of its places
(`CountKeepsExact`), and deletes it with the last. What is left to show of a call is that its uses, in
their order, lead from the placing before it to the one after it (`Leads`): of `remove` that
each place is emptied before it takes the next one's (`LeadsShifted`), of
`reorder_child_top` that a temporary holds the child meanwhile. A move exchanges two
places, which leaves the numbers alone (`MovesKeepExact`): that of a buffer, of a
parameter into its slot, of what was collected into the vector that was cleared.
That the vectors are lists rests on the same invariant: the objects alive are those at
some place (`LiveAreHeld`), and of each call it is left to show what the first slots
hold after it (`PushedList`, `TruncatedList`, `RemovedList`, `SetBuffer`, `ResizedList`).

**Clip regions.** `NoOverlap` is not inductive either: at its end `add_clip_rect` pushes its
rectangle without a look at the list. `ClipIInv` adds that what
the search has passed misses the rectangle (`PassedApart`), that an empty
rectangle meets nothing in the list (`CutIsSolid`: cutting an empty one out of
the middle of another would lose the part behind it), that the rectangles of a
move miss each other and the list (`DirtyApart`), and that what an intersection
has collected misses what it has still to look at (`FreshApart`). The heart is
`CutOutFacts`: each of the four edges splits its target into a piece that misses
the cut rectangle and a rest that meets it (`SplitsOff`), such splits compose
(`SplitTwice`), and the rest after the fourth lies within the cut rectangle.

**Desktop.** `Hits` is what `handle_mouse` would descend into at a pixel, and `Owner`
the widget at its end. Hit-testing and clipping are two walks over the same tree; `HitInReach` and
`OwnerIs` show that they agree: the clip region of a widget is, within the screen,
the pixels it owns and nothing else (`Own`), so `PaintAlone` and `Paint` leave each
pixel they touch as its owner shows it (`Shown`) and all others alone (`Repaints`), in
whatever order and as often as they are called. What remains is that a handler
paints every pixel whose owner, or whose owner's colour, it changes (`RightBut`, but
for the pixels under the cursor). Raising a window changes only what it comes to own,
and repaints that. Moving it changes what it owned and owns, and what it owned passes to a
lower sibling that met its old rectangle, or to the parent (`Uncovered`); with or
without the rectangles of the move, those are painted. The cursor is painted over by `DrawMouse` where it
was drawn, which is `prevMouse` and not `mouse`: dropped packets move the one only.
The screen being right, `KeysGoToLastClicked` is about
the same `Owner`: a press that nothing has captured goes down `Hits`, and the
focus path is left equal to it. For that `IInv` has `CaptureChain`: without a press
in progress nothing is captured, so a press never continues a path that an earlier one
left. `FocusOnTop` holds with it because a raise leaves all other children in their
order. At last `OwnerIsLast`: painting whole widgets over each other in the order of
the tree ends, at each pixel, with its owner, which makes `RightBut` say what
`ScreenIsRight` does. All of this is by induction over the tree, downwards for
places (`TopDown`) and upwards for paths and orders (`BottomUp`); that the recursive
functions over the tree exist is `Recursion`. For the refinement, a window that is
moved takes along what is inside and nothing else (`InsideShift`).

**Terminal.** The offset is a whole number of rows, so a row of the screen is a row
of the ring (`CellIndex`), no two cells of the screen share one of the ring
(`CellsApart`), and a scroll moves every row up by one and leaves the last one
blank (`ViewScrolled`). From there on only what is shown has to be followed. `Drawn`
says that it is the buffer and that everything from the cursor on is blank: without
that, what a scroll or a new line brings up would be anything. `TypedIsShown` says
nothing while there is output, so `IInv` says what is being written: the rest of an
answer, which ends with a new line and has the prompt behind it (`Answering`), or the
rest of the prompt and the keys, what was written of them being displayed from the
first column of some row (`Echoing`, `Displays`). The first column matters: a
scroll takes a whole row, so it takes the first character of the line only when the
line fills the window, which is when `Seen` gives it up as lost. For the
refinement, a line that is left is filled up by the blanks behind the cursor
(`FullShows`), a new line is one more line or one more and the first one less
(`NextLineShows`), and every other step changes the last line or, at its start,
takes the line before for the last (`LastLineShows`, `FrontOfLines`).

**Input devices.** The script of the boot is put together from sequences, and
`ScriptSteps` says what its 22 steps are. `Conversation` lists the states that
`init_mouse` and the controller can be in together, so that a byte is there whenever
one is read and is the one that was asked for; it ends in `Settled`. What is
requested on the keyboard's line means nothing until the end of `init_mouse` (the
answer with the configuration byte has latched it, and the handler then finds that
byte a second time, 69, the code of the press of a key that is no modifier), and from then on
tells whose byte is in the output buffer (`Latches`). Thereby it is defined what each
device has still to deliver (`KeyBytes`, `MouseBytes`). The codes among it, but for the
prefixes, are one for one the events owed (`Carries`), and if these were handled one
after the other from the flags as they are, each would be read as it was meant and the
flags would end as the last use of each pair left its keys (`Leads`): that is `KeysArrive`. The bytes of
the mouse, behind those of the unfinished packet, are three for each movement owed
(`MovesArrive`). An arriving event adds at the end of both, a handler takes from
the front of both; nothing else touches them.

**Images.** That the decoder returns what was written would be an induction over the
chunks of a file. The invariant takes its place: what is left of the file is a `Path` of
`Point`s, each with what the encoder knew there, one chunk (`Written`) from one to the
next, up to the end marker. The encoder makes the path longer at its end, the decoder
takes its first chunk away (`PathShorter`), and what a chunk says is one lemma for all
kinds (`ChunkSays`, from `DifferenceAdds`: differences of channels that wrap around lead
back). The two tables are not the same: a run puts its color into the decoder's only. So
`Knows` lets an entry differ where the encoder's color has another hash, which no index
can point to, and `Settled` says that this is all that a run can do. That no chunk
is taken for the end (`NotAtEnd`): the marker begins with seven bytes 0, a chunk that
begins with 0 is an index and a single byte, and the second of two would index again to
the same pixel, which the format forbids; and when there is only one before the marker,
the 1 comes a byte too late. Without that rule of the format the theorem is false. For
the font, the two index computations are one number written in four digits
(`PixelOfCharacter`).

Assumptions, all evaluated by TLC on the run's values:

* `OvershiftAssumption` (what an int 1 shifted by 63 gives, one of two things: see
  `PageEntry` above; the proofs take both, and no run reaches the shift).
* `WidthAssumption` (a word is two ints), `RegionAssumption` (regions do not
  overlap, page 0 is in none), `HomeAssumption` (some region holds the bitmap, else
  the boot panics, and its last word lies within its pages). `HomeAssumption` excludes real machines: when a multiple of 4096 bytes of
  bitmap is followed by a few pages more, the last word lies outside.
* `LayoutAssumption` (pages and ordinary blocks are whole numbers of entries and
  pages, the header fits in a page, a byte of the bitmap describes more than one
  entry), `RequestAssumption` (there are as many pages as the first block takes;
  with fewer the boot panics).
* `SizeAssumption` of `PageTables` (as many as 65535 frames, 256 MiB: an entry's
  address is proved to read back bit by bit), `PlaceAssumption` (what
  `allocate_pages` hands out begins behind the direct map and inside the kernel's half,
  programs and their stacks are below). The lemmas on entries assume of an old one
  that its bits 48 to 51 are clear: `addr` reads them and `set_addr` does not write
  them, and an address has no more than 48 bits there.
* `PointerAssumption` (there are finitely many vectors and pointers, and `Null` and raw
  memory are no objects).
* `ProcessAssumption` (the kernel process, the first one and the typed ones
  differ), `ShapeAssumption` (no widget is empty).
* `TreeAssumption` (the widgets are one tree of finite depth below the window manager, windows and
  buttons differ, sizes are not negative and the screen is not empty: the widgets are
  made once, at boot, each added to one parent that is there already),
  `DesktopAssumption` (at first each parent lists each of its children once, which is what
  `add_child` leaves, and the window manager lies at the origin, where it
  stays). Windows may lie outside of the screen or of their parents, be empty, and
  overlap in any way.
* `TerminalAssumption` (the window has a cell, the prompt is characters on one line, an
  answer ends with a new line, and what fills an empty cell is in neither; all
  three are strings of `terminal.cpp`).
* `SizeAssumption` of `Images` (an image has a pixel, its sizes are written to two bytes
  of the header, the grid divides it, and a run has as many pixels as a chunk can say).
* `InputAssumption` (the keys have codes, a movement fits in a signed byte), and the
  hypothesis `Patient` of the theorems: nobody types or moves the mouse while the boot
  polls, without which the boot does panic (see below).

Only model-checked: what the iterators of `Iterators` give, that is, that `filter` and the
windows above and below one are those parts of the list (the steps of `Containers` that
`CallsSpec` has not), and that they give values that are in vectors (`CollectAny`);
all liveness, `SearchEnds` included, which the prover does not do; and what a
disagreement says. `Iterators`, and so `Containers`, is recursive
because what it models is, one iterator wrapped in another; the provers cannot do
induction over such data.

SANY and the proof system group `SUBSET` and `UNION` with a set operator behind them
differently (`SUBSET S \ {{}}`), and so a minus before a number that `%` follows; the
modules put parentheses there, so that what is proved is what is checked.

## Abstractions

A panic ends the run; what a call wrote before it panicked is left out, since
nothing executes afterwards. Handlers are one step (interrupts are off in them).
Frames are never given back to the physical allocator, because `free_page` does
not do so; `free_page` and `free_physical_page` have no caller in the kernel
today and are modelled as the interfaces they are. Physical memory is below
4 GiB, as `physical_to_virtual` requires; boot mappings are 1 GiB pages. `update_page`
has no caller and is in `PageEntry` as what it makes of an entry; output is not
modelled.
Coordinates do not wrap: they are those of a screen, far from the ends of an
`i32`. A move adds its rectangles once for each widget below, each time to the
empty list, so they are modelled as added once. The colours of a title, a text
or an outline are one with the rest of the decoration or the client area, the
cursor has no transparent pixels, and a character of the terminal is one pixel.
Whether the rectangles that a move leaves are no list or a list without a pixel,
which `paint` treats as everything and as nothing, is left open.

Of the PS/2 hardware the models assume what QEMU's does: an edge is latched
while its line is masked, a byte enters the output buffer only when that is
empty, the configuration byte starts as firmware leaves it (101: the
keyboard's interrupt and translation on, the mouse disabled), and the controller
answers within the hundred tries of `wait_for`. The keys of `MakeCodes` are all
modifiers and one or two of each kind of other key: letters, characters that shift
changes, a key without either that has a prefix. The cursor keys, for which a keyboard
sends shifts of its own while NumLock or a shift is on, are left out. Whole packets come from the mouse: it loses no bytes.

A vector that is assigned to itself deletes its elements first and
`reorder_child_top` reads the child before it tests the index; neither happens
in the kernel, and neither is an input here.

## What is known and not a property

While the models were written these showed, most with nothing in the repository that
says otherwise; the hazards of `PROJECT.json` name them:

* a key that is typed while `init_mouse` polls is taken for the answer of the
  mouse, which panics, or for the configuration byte;
* a key before `pic::init` leaves the output buffer full; its edge is lost when
  the controllers are initialised, and no further byte ever comes;
* a byte that arrives while line 1 is masked and is read by `init_mouse` leaves the edge
  latched: the keyboard handler then runs once for a byte that was read, which
  before there is a manager does no harm;
* the release of either key of a pair clears the flag the two share, though the
  other one is held (`keyboard.cpp:65`); `ModifiersFollowKeys` says of a flag what
  remains true, that it is on exactly if the key of its pair used last is down;
* `PageOptions` has `executable = false` by default (`paging.hpp:106`) where its comment
  says a kernel RWX page (`paging.hpp:104`); neither is what `update_page` makes of it:
  the page stays executable or is lost (`UpdateNeverForbids`). Nothing calls it;
* a mouse packet before `framebuffer::init` builds the window manager on a canvas
  that is not there yet, and one during it builds it twice.

## Not modelled

* *The GDT and the TSS*: tables of constants. That `rsp0` is the wrong end of its
  stack is a hazard at `gdt.cpp:144`; what lies there is not in any model.
* *A handler inside the boot's own allocations* (the heap, `Vector::push`,
  `allocate_pages` and the guard of a static, entered a second time before the
  first has returned): a model needs the order of loads and stores that the compiler emits, and what
  the second call leaves is then a matter of which block the heap gives next.
  The hazards at `heap_alloc.cpp:188`, `scheduler.cpp:26` and `mouse.cpp:46` say
  where; the models have these calls as one step.
* *Saved registers across a page boundary* (`scheduler.cpp:63`): the layout of
  `Process` is the compiler's.
* *The boot modules, the serial line, the log, formatting, random numbers and the
  build*: a search in a list the boot loader made, pure output, functions that
  nothing calls, no behaviour at run time.
* *The pixels of texts, titles and images on the screen*: one colour for each
  part of a widget is all that the painting order is about.

## What is left

Every safety invariant and every refinement that a run checks is proved; of
`ImplementsObjectLists`, all steps but those that go through the recursive operators of
`Iterators`. The liveness properties stay with TLC. Of the code, what is listed under *Not modelled* is left: first the
boot's own allocations being interrupted, once the order of the compiler's loads and
stores is fixed.
