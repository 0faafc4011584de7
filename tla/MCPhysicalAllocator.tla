------------------------ MODULE MCPhysicalAllocator -------------------------
(***************************************************************************)
(* A machine with words of eight bits, ints of four and pages of four      *)
(* bytes. Eighteen usable pages; three regions are too small for the       *)
(* bitmap, so it starts in the fourth, with the pages numbered 3, 4 and 5: *)
(* the flag of the first is the sign bit of the shifted int, the others    *)
(* share theirs with pages of earlier regions. The third word lies past    *)
(* the Span and covers two pages only.                                     *)
(***************************************************************************)
EXTENDS PhysicalAllocator

MCRegions == <<
  [base |-> 1, pages |-> 1, usable |-> TRUE],
  [base |-> 3, pages |-> 2, usable |-> FALSE],
  [base |-> 5, pages |-> 1, usable |-> TRUE],
  [base |-> 7, pages |-> 1, usable |-> TRUE],
  [base |-> 9, pages |-> 1, usable |-> FALSE],
  [base |-> 10, pages |-> 15, usable |-> TRUE]
>>
=============================================================================
