------------------------------ MODULE Terminal -------------------------------
(***************************************************************************)
(* The terminal window (kernel/terminal/window.cpp) and the commands typed *)
(* into it (terminal.cpp). A key press is handled with interrupts off, but *)
(* what it writes is written one character at a time and drawn as it goes, *)
(* so each character is a step; no key is taken while there is output.     *)
(***************************************************************************)
EXTENDS Naturals, Sequences, SequencesExt, FiniteSets

CONSTANTS
  Cols, Rows,             (* m_columns, m_rows *)
  Letters,                (* the characters of the keys *)
  Blank,                  (* '\0', a cell without a character *)
  NewLine, Backspace,     (* '\n', '\x08' *)
  Prompt,                 (* what show_prompt writes *)
  Greetings,              (* what is answered to hello and bye *)
  Unknown,                (* what is answered to other lines *)
  Replies,                (* the characters of the prompt and the answers *)
  R, Space,               (* the command that runs a program *)
  HexValue,               (* the value of a hex digit *)
  MaxLine                 (* bound: the keys of a line *)

ASSUME TerminalAssumption ==
  /\ Cols \in Nat \ {0} /\ Rows \in Nat \ {0} /\ MaxLine \in Nat
  /\ Blank \notin Letters \cup Replies \cup {NewLine, Backspace}
  /\ NewLine \notin Replies /\ Prompt \in Seq(Replies)
  /\ \A text \in {Greetings[line] : line \in DOMAIN Greetings} \cup {Unknown} :
       text \in Seq(Replies \cup {NewLine}) /\ text # <<>> /\ Last(text) = NewLine
  /\ NewLine \notin Letters /\ Backspace \notin Letters \cup {NewLine}
  /\ {R, Space} \subseteq Letters /\ DOMAIN HexValue \subseteq Letters
  /\ HexValue \in [DOMAIN HexValue -> 0 .. 15]

VARIABLES
  buffer,     (* m_buffer *)
  offset,     (* m_offset, modulo the size of the buffer *)
  row, column,
  input,      (* m_input *)
  output,     (* what is still to be written *)
  shown,      (* the cells on the screen *)
  program,    (* what was last put into memory as a program *)
  halted

vars == <<buffer, offset, row, column, input, output, shown, program, halted>>

Size == Cols * Rows
Cells == (0 .. Cols - 1) \X (0 .. Rows - 1)

-----------------------------------------------------------------------------
(* Writing. *)

IndexOf(cell, off) == (off + cell[2] * Cols + cell[1]) % Size

(* What draw would put in every cell. *)
View(b, off) == [cell \in Cells |-> b[IndexOf(cell, off)]]
CharAt(cell) == buffer[IndexOf(cell, offset)]

(* invalidate_at, after a cell was set. *)
SetCell(cell, ch) ==
  /\ buffer' = [buffer EXCEPT ![IndexOf(cell, offset)] = ch]
  /\ shown' = [shown EXCEPT ![cell] = ch]
  /\ UNCHANGED offset

(* Mutant: the row before the last is taken for it. *)
ScrollsEarly == row + 2 >= Rows

(* Mutant: a scroll does not draw. *)
ShownUnscrolled == shown

(* The effects of next_line; only a scroll draws. *)
Cleared == [i \in DOMAIN buffer |->
              IF i \in {IndexOf(<<c, 0>>, offset) : c \in 0 .. Cols - 1} THEN Blank ELSE buffer[i]]
Scrolls == row = Rows - 1
OffsetAfter == IF Scrolls THEN (offset + Cols) % Size ELSE offset
BufferAfter == IF Scrolls THEN Cleared ELSE buffer
ShownAfter == IF Scrolls THEN View(Cleared, OffsetAfter) ELSE shown
RowAfter == IF Scrolls THEN row ELSE row + 1

AppendNewLine ==
  /\ buffer' = BufferAfter /\ offset' = OffsetAfter /\ shown' = ShownAfter
  /\ row' = RowAfter /\ column' = 0

(* Mutant: the column stays when the cursor goes up. *)
BackspaceStart ==
  LET up == column = 0 /\ row > 0
      cell == IF up THEN <<0, row - 1>> ELSE IF column > 0 THEN <<column - 1, row>> ELSE <<0, row>>
  IN  /\ column' = cell[1] /\ row' = cell[2]
      /\ SetCell(cell, Blank)

AppendBackspace ==
  LET up == column = 0 /\ row > 0
      cell == IF up THEN <<Cols - 1, row - 1>>
              ELSE IF column > 0 THEN <<column - 1, row>> ELSE <<0, row>>
  IN  /\ column' = cell[1] /\ row' = cell[2]
      /\ SetCell(cell, Blank)

(* Mutant: a full row is not noticed. *)
AppendAnyway(ch) ==
  SetCell(<<column, row>>, ch) /\ column' = column + 1 /\ UNCHANGED row

AppendHere(ch) ==
  /\ column < Cols
  /\ SetCell(<<column, row>>, ch)
  /\ column' = column + 1 /\ UNCHANGED row

AppendOnNextLine(ch) ==
  /\ column = Cols
  /\ offset' = OffsetAfter /\ row' = RowAfter /\ column' = 1
  /\ LET cell == <<0, RowAfter>>
     IN  /\ buffer' = [BufferAfter EXCEPT ![IndexOf(cell, OffsetAfter)] = ch]
         /\ shown' = [ShownAfter EXCEPT ![cell] = ch]

Put ==
  LET ch == Head(output)
  IN  /\ ~halted /\ output # <<>> /\ output' = Tail(output)
      /\ CASE ch = NewLine -> AppendNewLine
           [] ch = Backspace -> AppendBackspace
           [] OTHER -> AppendHere(ch) \/ AppendOnNextLine(ch)
      /\ UNCHANGED <<input, program, halted>>

-----------------------------------------------------------------------------
(* Commands. *)

(* What a character makes of what was read of a program; temp is an u8. *)
NothingRead == [temp |-> 0, digit |-> 0, data |-> <<>>]
ReadDigit(s, c) ==
  LET temp == (s.temp + HexValue[c]) % 256
  IN  IF c \notin DOMAIN HexValue THEN s
      ELSE IF s.digit = 0 THEN [temp |-> (temp * 16) % 256, digit |-> 1, data |-> s.data]
      ELSE [temp |-> 0, digit |-> 0, data |-> Append(s.data, temp)]

(* The loop over the hex digits. *)
Parsed(line) ==
  LET read[i \in 0 .. Len(line)] ==
        IF i = 0 THEN NothingRead ELSE ReadDigit(read[i - 1], line[i])
  IN  read[Len(line)].data

(* handle_input. A line of no character is read through null and one that  *)
(* is an r past its end: the processor may fault, and the second may find  *)
(* a space there, whose rest then has no end. Else it is an unknown line.  *)
HandleInput(line) ==
  LET Answer(text) == output' = <<NewLine>> \o text \o Prompt
      runs == Len(line) >= 2 /\ line[1] = R /\ line[2] = Space
  IN  \/ /\ line \in DOMAIN Greetings /\ Answer(Greetings[line])
         /\ UNCHANGED <<program, halted>>
      \/ /\ line \notin DOMAIN Greetings /\ runs /\ Answer(<<>>)
         /\ program' = Parsed(SubSeq(line, 3, Len(line)))
         /\ UNCHANGED halted
      \/ /\ line \notin DOMAIN Greetings /\ ~runs
         /\ Answer(IF line = <<>> THEN <<>> ELSE Unknown)
         /\ UNCHANGED <<program, halted>>
      \/ /\ line \in {<<>>, <<R>>} /\ line \notin DOMAIN Greetings
         /\ halted' = TRUE /\ output' = <<NewLine>>
         /\ UNCHANGED program

Enter ==
  /\ ~halted /\ output = <<>>
  /\ HandleInput(input) /\ input' = <<>>
  /\ UNCHANGED <<buffer, offset, row, column, shown>>

Type(ch) ==
  /\ ~halted /\ output = <<>> /\ Len(input) < MaxLine
  /\ input' = Append(input, ch) /\ output' = <<ch>>
  /\ UNCHANGED <<buffer, offset, row, column, shown, program, halted>>

-----------------------------------------------------------------------------
Init ==
  /\ buffer = [i \in 0 .. Size - 1 |-> Blank] /\ shown = [cell \in Cells |-> Blank]
  /\ offset = 0 /\ row = 0 /\ column = 0
  /\ input = <<>> /\ output = Prompt
  /\ program = <<>> /\ halted = FALSE

Next ==
  \/ Put
  \/ Enter
  \/ \E ch \in Letters \cup {Backspace} : Type(ch)

Spec == Init /\ [][Next]_vars

-----------------------------------------------------------------------------
(* Every variable keeps its type; the cursor stays in the window, but for  *)
(* the column after a full row.                                            *)
Characters == Letters \cup Replies
TypeOK ==
  /\ buffer \in [0 .. Size - 1 -> Characters \cup {Blank}]
  /\ shown \in [Cells -> Characters \cup {Blank}]
  /\ offset \in {n * Cols : n \in 0 .. Rows - 1}
  /\ row \in 0 .. Rows - 1 /\ column \in 0 .. Cols
  /\ input \in Seq(Letters \cup {Backspace}) /\ Len(input) <= MaxLine
  /\ output \in Seq(Characters \cup {NewLine, Backspace})
  /\ program \in Seq(0 .. 255)
  /\ halted \in BOOLEAN

(* The cells in reading order, and how many of them come before the cursor. *)
Reading(k) == <<k % Cols, k \div Cols>>
Cursor == row * Cols + column

(* The screen shows the buffer: each write redraws the cell it changed and *)
(* a scroll, which moves them all, redraws everything before the next      *)
(* character is put.                                                       *)
ScreenShowsBuffer == shown = View(buffer, offset)

(* What the user sees of the line: the prompt and the keys, with a key     *)
(* taken back by each backspace, ends at the cursor. Not so when the       *)
(* prompt was erased and more, or the line is longer than the window.      *)
NothingSeen == [text |-> <<>>, lost |-> FALSE]
SeenAfter(s, ch) ==
  IF ch = Backspace
  THEN [text |-> IF s.text = <<>> THEN <<>> ELSE Front(s.text),
        lost |-> s.lost \/ s.text = <<>>]
  ELSE [text |-> Append(s.text, ch), lost |-> s.lost \/ Len(s.text) >= Size]

Seen(keys) ==
  LET seen[i \in 0 .. Len(keys)] ==
        IF i = 0 THEN NothingSeen ELSE SeenAfter(seen[i - 1], keys[i])
  IN  seen[Len(keys)]

Line == Seen(Prompt \o input)

TypedIsShown ==
  output = <<>> /\ ~halted /\ ~Line.lost =>
    /\ Len(Line.text) <= Cursor
    /\ \A i \in 1 .. Len(Line.text) :
         shown[Reading(Cursor - Len(Line.text) + i - 1)] = Line.text[i]

(* The ring of cells is the last lines of a text, through every scroll,    *)
(* wrap and erasure.                                                       *)
RowOf(r, n) == [c \in 1 .. n |-> CharAt(<<c - 1, r>>)]

TextLines == [i \in 1 .. row + 1 |-> RowOf(i - 1, IF i <= row THEN Cols ELSE column)]

Text == INSTANCE TextWindow WITH lines <- TextLines

ImplementsTextWindow == Text!Spec
=============================================================================
