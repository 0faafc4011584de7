----------------------------- MODULE RoundRobin -----------------------------
(***************************************************************************)
(* What a cooperative round-robin scheduler promises: the processes form a *)
(* queue whose head has the CPU; the head goes to the tail when it yields  *)
(* and leaves when it dies, and nobody else ever changes places.           *)
(***************************************************************************)
EXTENDS Naturals, Sequences, SequencesExt

CONSTANT Processes

VARIABLES
  queue,      (* who runs, and who runs next *)
  running     (* FALSE once the kernel has halted *)

vars == <<queue, running>>

Init == queue = <<>> /\ running = TRUE

(* A new process joins somewhere behind the one that runs. *)
Join(p) ==
  /\ running
  /\ p \notin ToSet(queue)
  /\ \E k \in 1 .. Len(queue) + 1 :
       /\ queue # <<>> => k > 1
       /\ queue' = InsertAt(queue, k, p)
  /\ UNCHANGED running

Yield ==
  /\ running
  /\ queue # <<>>
  /\ queue' = Append(Tail(queue), Head(queue))
  /\ UNCHANGED running

(* Whoever dies leaves the CPU to somebody. *)
Die ==
  /\ running
  /\ Len(queue) > 1
  /\ queue' = Tail(queue)
  /\ UNCHANGED running

Halt ==
  /\ running
  /\ running' = FALSE
  /\ UNCHANGED queue

Next ==
  \/ \E p \in Processes : Join(p)
  \/ Yield
  \/ Die
  \/ Halt

Spec == Init /\ [][Next]_vars
=============================================================================
