---------------------------- MODULE DisjointHeap ----------------------------
(***************************************************************************)
(* What a heap promises: whoever asks for memory gets an aligned range of  *)
(* it that no one else has, inside the space the heap may hand out, and    *)
(* keeps it until it is freed by its address.                              *)
(***************************************************************************)
EXTENDS Integers

CONSTANTS
  Owners,     (* whoever holds pointers into the heap *)
  NoRange,    (* what an owner has that holds none *)
  Alignment

VARIABLES
  held,       (* the range each owner holds *)
  space,      (* the addresses the heap may hand out *)
  running     (* FALSE once the kernel has panicked *)

vars == <<held, space, running>>

Bytes(r) == r.ptr .. r.ptr + r.size - 1

Init ==
  /\ held = [o \in Owners |-> NoRange]
  /\ running = TRUE

(* The new range is the one the next state shows. *)
Allocate(o) ==
  /\ running /\ running'
  /\ held[o] = NoRange
  /\ held' = [held EXCEPT ![o] = held'[o]]
  /\ held'[o] # NoRange
  /\ held'[o].size > 0
  /\ held'[o].ptr % Alignment = 0
  /\ Bytes(held'[o]) \subseteq space'
  /\ \A p \in Owners \ {o} :
       held[p] # NoRange => Bytes(held[p]) \cap Bytes(held'[o]) = {}
  /\ space \subseteq space'

Free(o) ==
  /\ running /\ running'
  /\ held[o] # NoRange
  /\ held' = [held EXCEPT ![o] = NoRange]
  /\ UNCHANGED space

Panic ==
  /\ running
  /\ running' = FALSE
  /\ UNCHANGED <<held, space>>

Next == Panic \/ \E o \in Owners : Allocate(o) \/ Free(o)

Spec == Init /\ [][Next]_vars
=============================================================================
