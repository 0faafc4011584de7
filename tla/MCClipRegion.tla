---------------------------- MODULE MCClipRegion -----------------------------
(***************************************************************************)
(* Widgets on a screen of six by six pixels: a large one, one inside it,   *)
(* one that crosses its right edge, and one as wide as the screen that     *)
(* shares edges with the small ones.                                       *)
(***************************************************************************)
EXTENDS ClipRegion

MCShapes == {
  Rect(1, 1, 4, 4),
  Rect(2, 2, 2, 1),
  Rect(4, 0, 2, 3),
  Rect(0, 2, 6, 2)
}
=============================================================================
