----------------------------- MODULE TextWindow ------------------------------
(***************************************************************************)
(* What a program that writes to a terminal relies on: lines of text, of   *)
(* which the last few are to be seen. A character goes to the end of the   *)
(* last line, and an erasure takes it back; an erasure at the start of a   *)
(* line goes up to the last column of the line before. A line is filled    *)
(* with blanks once it is left.                                            *)
(***************************************************************************)
EXTENDS Naturals, Sequences, SequencesExt

CONSTANTS
  Cols, Rows, Characters, Blank, NewLine, Backspace

VARIABLE lines

Full(line) == [i \in 1 .. Cols |-> IF i <= Len(line) THEN line[i] ELSE Blank]

NextLine(text, line) ==
  LET longer == Append(Front(text), Full(Last(text))) \o <<line>>
  IN  IF Len(longer) > Rows THEN Tail(longer) ELSE longer

WithLast(text, line) == Append(Front(text), line)

Break == lines' = NextLine(lines, <<>>)

Erase ==
  lines' = IF Last(lines) # <<>> THEN WithLast(lines, Front(Last(lines)))
           ELSE IF Len(lines) = 1 THEN lines
           ELSE WithLast(Front(lines), Front(Last(Front(lines))))

Write(ch) ==
  lines' = IF Len(Last(lines)) = Cols THEN NextLine(lines, <<ch>>)
           ELSE WithLast(lines, Append(Last(lines), ch))

Init == lines = <<<<>>>>
Next == Break \/ Erase \/ \E ch \in Characters : Write(ch)
Spec == Init /\ [][Next]_lines
=============================================================================
