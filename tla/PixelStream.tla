---------------------------- MODULE PixelStream ----------------------------
(***************************************************************************)
(* What a decoder of images promises: the pixels that were written, one by *)
(* one and in their order, and it is finished when there are no more.      *)
(***************************************************************************)
EXTENDS Sequences, SequencesExt

VARIABLES
  left,      (* the pixels not returned yet *)
  pixel,     (* the last one returned *)
  finished

vars == <<left, pixel, finished>>

Init == left = <<>> /\ ~finished

Write == IsPrefix(left, left') /\ UNCHANGED <<pixel, finished>>

Return ==
  /\ left # <<>>
  /\ left' = Tail(left) /\ pixel' = Head(left)
  /\ UNCHANGED finished

Finish ==
  /\ left = <<>>
  /\ finished' = TRUE
  /\ UNCHANGED <<left, pixel>>

Spec == Init /\ [][Write \/ Return \/ Finish]_vars
=============================================================================
