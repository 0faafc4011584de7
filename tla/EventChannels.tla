--------------------------- MODULE EventChannels ---------------------------
(***************************************************************************)
(* What the drivers of the keyboard and the mouse promise the window       *)
(* manager: every event of a device reaches it once and in order, whatever *)
(* the other device and the start of the kernel do meanwhile. Before there *)
(* is a manager, events are thrown away.                                   *)
(***************************************************************************)
EXTENDS Sequences, SequencesExt

CONSTANT Devices

VARIABLES
  pending, (* what has happened at each device and was not taken yet *)
  given,   (* the last event of each device that the manager was given *)
  open     (* there is a manager *)

vars == <<pending, given, open>>

Init ==
  /\ pending = [d \in Devices |-> <<>>]
  /\ given = [d \in Devices |-> <<>>]
  /\ open = FALSE

Happen(d) ==
  /\ \A other \in Devices \ {d} : pending'[other] = pending[other]
  /\ IsPrefix(pending[d], pending'[d])
  /\ UNCHANGED <<given, open>>

Take(d) ==
  /\ pending[d] # <<>>
  /\ pending' = [pending EXCEPT ![d] = Tail(@)]
  /\ given' = IF open THEN [given EXCEPT ![d] = <<Head(pending[d])>>] ELSE given
  /\ UNCHANGED open

Open ==
  /\ open' = TRUE
  /\ UNCHANGED <<pending, given>>

Next == Open \/ \E d \in Devices : Happen(d) \/ Take(d)

Spec == Init /\ [][Next]_vars
=============================================================================
