------------------------------ MODULE PagePool ------------------------------
(***************************************************************************)
(* What a physical page allocator promises, whatever its bookkeeping: a    *)
(* page is handed out only while nobody has it and it is not set aside for *)
(* the allocator itself, and a page goes back only from whoever has it.    *)
(***************************************************************************)
EXTENDS Naturals

CONSTANTS
  Pages,      (* the pages that may be handed out *)
  Reserved    (* the pages the allocator keeps for its own bookkeeping *)

VARIABLES
  holders,    (* how many callers believe each page is theirs *)
  running     (* FALSE once the kernel has panicked *)

vars == <<holders, running>>

Init ==
  /\ holders = [p \in Pages |-> 0]
  /\ running = TRUE

Allocate(p) ==
  /\ running
  /\ p \notin Reserved
  /\ holders[p] = 0
  /\ holders' = [holders EXCEPT ![p] = 1]
  /\ UNCHANGED running

Release(p) ==
  /\ running
  /\ holders[p] = 1
  /\ holders' = [holders EXCEPT ![p] = 0]
  /\ UNCHANGED running

Panic ==
  /\ running
  /\ running' = FALSE
  /\ UNCHANGED holders

Next ==
  \/ \E p \in Pages : Allocate(p) \/ Release(p)
  \/ Panic

Spec == Init /\ [][Next]_vars
=============================================================================
