----------------------------- MODULE AddressMap ------------------------------
(***************************************************************************)
(* What the kernel's paging promises: one mapping of kernel pages that     *)
(* every address space shows, and a private one for each process; a page   *)
(* of memory backs one kernel page or one private page at a time, except   *)
(* that a process also sees the page its program was loaded into.          *)
(***************************************************************************)
EXTENDS Naturals, Functions

CONSTANTS
  KernelPages,
  UserPages,
  None          (* what an unmapped page is mapped to *)

VARIABLES
  kernel,       (* the frame of each kernel page *)
  user,         (* for each process's space, the frame of each user page *)
  given,        (* the frames that have been given out *)
  running       (* FALSE once the kernel has panicked *)

vars == <<kernel, user, given, running>>

Init ==
  /\ kernel = [v \in KernelPages |-> None]
  /\ user = <<>>
  /\ running = TRUE

New(v) == kernel[v] = None /\ kernel'[v] # None

(* Some unmapped kernel pages are mapped to frames nobody had, one each,   *)
(* and no other kernel page changes.                                       *)
MapMore ==
  /\ \A v \in KernelPages : kernel'[v] = kernel[v] \/ New(v)
  /\ \A v, w \in KernelPages : New(v) /\ New(w) /\ v # w => kernel'[v] # kernel'[w]
  /\ \A v \in KernelPages : New(v) => kernel'[v] \in given' \ given
  /\ given \subseteq given'

AllocatePages ==
  /\ running /\ running'
  /\ MapMore
  /\ UNCHANGED user

(* A process begins in a space of its own: its program is in a kernel page *)
(* that is mapped with it, its stack in a frame of its own.                *)
StartProcess(s, code, stack) ==
  /\ running /\ running'
  /\ user'[s][stack] \in given' \ given
  /\ \E v \in KernelPages : New(v) /\ user'[s][code] = kernel'[v]
  /\ \A u \in UserPages \ {code, stack} : user'[s][u] = None
  /\ \A v \in KernelPages : kernel'[v] # user'[s][stack]
  /\ DOMAIN user' = DOMAIN user \cup {s}
  /\ \A r \in DOMAIN user : user'[r] = user[r]
  /\ MapMore

FreePage(v) ==
  /\ running /\ running'
  /\ kernel[v] # None
  /\ kernel' = [kernel EXCEPT ![v] = None]
  /\ UNCHANGED <<user, given>>

Panic ==
  /\ running
  /\ running' = FALSE
  /\ UNCHANGED <<kernel, user, given>>

Next ==
  \/ AllocatePages
  \/ \E s \in DOMAIN user' \ DOMAIN user :
       \E code, stack \in UserPages : StartProcess(s, code, stack)
  \/ \E v \in KernelPages : FreePage(v)
  \/ Panic

Spec == Init /\ [][Next]_vars
=============================================================================
