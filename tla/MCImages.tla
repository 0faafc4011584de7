------------------------------ MODULE MCImages ------------------------------
(* Instance for TLC: differences that wrap around, one that only two bytes *)
(* hold, a transparent color and one whose hash is that of black.          *)
EXTENDS Images, Iterators

MCColors ==
  {Black, Clear, Color(255, 254, 1, 255), Color(20, 24, 17, 255), Color(192, 0, 0, 255)}
MCRuns == {1, 60, 61, 62}

(* That seven bytes are zero is what finished asks its iterators.          *)
ASSUME EndIsTheLoop ==
  \A data \in [1 .. 8 -> {0, 1, 255}] :
    Finished([data |-> data, run_counter |-> 0])
      <=> ~AnyOf(TakeOf(MapOf(ItPair(data), [byte \in Byte |-> byte # 0]), 7)) /\ data[8] = 1
=============================================================================
