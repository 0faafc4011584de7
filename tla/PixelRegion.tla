----------------------------- MODULE PixelRegion -----------------------------
(***************************************************************************)
(* What a clipping context promises: it is a set of pixels, to which       *)
(* rectangles are added, from which they are taken away, and which can be  *)
(* put aside and given back piece by piece.                                *)
(***************************************************************************)
CONSTANT Areas    (* the sets of pixels that are added and taken away *)

VARIABLES
  region,     (* the pixels that may be drawn *)
  kept        (* the pixels that were put aside *)

vars == <<region, kept>>

Init == region = {} /\ kept = {}

Add(area) == region' = region \cup area /\ UNCHANGED kept

Subtract(area) == region' = region \ area /\ UNCHANGED kept

Intersect(area) == region' = region \cap area /\ UNCHANGED kept

Clear == region' = {} /\ UNCHANGED kept

PutAside == kept' = region /\ region' = {}

(* Some of the kept pixels come back, and none of them is lost. *)
GiveBack ==
  /\ kept' \subseteq kept
  /\ region' = region \cup (kept \ kept')

Next ==
  \/ \E area \in Areas : Add(area) \/ Subtract(area) \/ Intersect(area)
  \/ Clear
  \/ PutAside
  \/ GiveBack

Spec == Init /\ [][Next]_vars
=============================================================================
