--------------------------- MODULE MCInputDevices ---------------------------
(* Instance for TLC: a letter, both keys that share a flag, a key behind a *)
(* prefix, caps, and a movement at both ends of a signed byte, whose three *)
(* bytes differ.                                                           *)
EXTENDS InputDevices

MCKeys == {"a", "left_shift", "right_shift", "right_ctrl", "caps"}
MCMoves == {[dx |-> 127, dy |-> -128, left |-> TRUE]}
=============================================================================
