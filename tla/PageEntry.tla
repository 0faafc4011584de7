----------------------------- MODULE PageEntry -----------------------------
(***************************************************************************)
(* An entry of a page table, bit by bit (kernel/memory/page_entry.cpp): a  *)
(* set of the bits that are one. So is an address, and the value of the    *)
(* bits that the processor leaves to the kernel.                           *)
(***************************************************************************)
EXTENDS Integers

CONSTANT
  Overshift   (* what the build makes of an int 1 shifted by 63 *)

(* The shift has no defined outcome. GCC, at the -O2 of the build, folds   *)
(* it to 0; carried out, it is by 31, and the sign fills the upper half.   *)
ASSUME OvershiftAssumption == Overshift \in {{}, 31 .. 63}

Bit == 0 .. 63

(* 1 << idx of an int, widened to an entry.                                *)
IntBit(idx) == IF idx < 31 THEN {idx} ELSE Overshift

(* set_bit clears the bit it is asked for and sets those of the int.       *)
GetBit(e, idx) == e \cap IntBit(idx) # {}
SetBit(e, idx, value) == (e \ {idx}) \cup (IF value THEN IntBit(idx) ELSE {})

IsPresent(e) == GetBit(e, 0)
SetPresent(e, value) == SetBit(e, 0, value)

IsWritable(e) == GetBit(e, 1)
SetWritable(e, value) == SetBit(e, 1, value)

IsUser(e) == GetBit(e, 2)
SetUser(e, value) == SetBit(e, 2, value)

IsPs(e) == GetBit(e, 7)
SetPs(e, value) == SetBit(e, 7, value)

IsExecutionDisabled(e) == GetBit(e, 63)
SetExecutionDisabled(e, value) == SetBit(e, 63, value)

(* addr takes more bits than set_addr writes.                              *)
Addr(e) == e \cap 12 .. 51
SetAddr(e, addr) == (e \ (12 .. 47)) \cup (addr \cap 12 .. 47)

(* The available bits are 8 to 11 and 52 to 62, which read as the bits 1   *)
(* to 4 and 5 to 15 of the value. Its lowest bit is lost.                  *)
GetAvailable(e) == {b \in 1 .. 4 : b + 7 \in e} \cup {b \in 5 .. 15 : b + 47 \in e}

SetAvailable(e, value) ==
  LET low == (e \ (8 .. 11)) \cup {b \in 8 .. 11 : b - 7 \in value}
  IN  (low \ (52 .. 62)) \cup {b \in 52 .. 62 : b - 47 \in value}

(* 0x4444 and 0xf3f0 *)
MAT_TABLE_MAGIC == {2, 6, 10, 14}
MAT_MAPPED_MAGIC == (4 .. 9) \cup (12 .. 15)

(* What allocate_entry_and_follow makes of an entry.                       *)
TableEntry(e, page) ==
  LET flags == SetWritable(SetPresent(SetAvailable(e, MAT_TABLE_MAGIC), TRUE), TRUE)
  IN  SetAddr(SetExecutionDisabled(SetPs(SetUser(flags, TRUE), FALSE), FALSE), page)

(* What map_page makes of the entry of a page.                             *)
MappedEntry(e, page) ==
  LET flags == SetWritable(SetPresent(SetAvailable(e, MAT_MAPPED_MAGIC), TRUE), TRUE)
  IN  SetAddr(SetExecutionDisabled(SetUser(flags, TRUE), FALSE), page)

(* What update_page makes of an entry, with PageOptions.                   *)
PageOptions == [executable : BOOLEAN, writable : BOOLEAN, user : BOOLEAN]

UpdatedEntry(e, options) ==
  LET disabled == SetExecutionDisabled(e, ~options.executable)
  IN  IF IsPresent(e) THEN SetUser(SetWritable(disabled, options.writable), options.user) ELSE e
=============================================================================
