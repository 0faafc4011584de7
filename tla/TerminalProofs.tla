--------------------------- MODULE TerminalProofs ---------------------------
(***************************************************************************)
(* The terminal shows the last lines of what was written to it, and the    *)
(* line being typed, for every size of the window.                         *)
(*                                                                         *)
(* The argument: the row of a cell in the ring is the sum of its row on    *)
(* the screen and of that of the offset, less the number of rows when      *)
(* there is no such row. So no two cells of the screen share a cell of the *)
(* ring, and a scroll moves every row up by one; what is drawn is then all *)
(* that has to be followed. The cells from the cursor on are blank, which  *)
(* makes the rows up to the cursor the lines of a text. The line that is   *)
(* typed starts in the first column, so that a scroll that takes its first *)
(* character away needs a line as long as the window.                      *)
(*                                                                         *)
(* Its characters are drawn with the font that is built from an image, and *)
(* that the decoder of the image returns what any encoder wrote is proved  *)
(* here as well, for every image and every choice of chunks.               *)
(*                                                                         *)
(* The argument: what the decoder has left is a path from one chunk of the *)
(* encoder to the next. Along it the two tables agree but for entries that *)
(* no index uses, as a run puts its color into that of the decoder only.   *)
(* The end is told from chunks as two bytes 0 in a row are not chunks: the *)
(* second one would index once more to the same pixel, which the format    *)
(* forbids, and a single one leaves the last byte of the marker a place    *)
(* too late.                                                               *)
(***************************************************************************)
EXTENDS Terminal, Images, DataFacts

-----------------------------------------------------------------------------
(* Characters read one after the other.                                    *)

LEMMA FrontFacts ==
  ASSUME NEW S, NEW s \in Seq(S), s # <<>>
  PROVE  /\ Len(s) - 1 \in Nat
         /\ FirstPart(Front(s), S, s, Len(s) - 1)
  <1>1. Len(s) \in Nat /\ Len(s) # 0
    BY EmptySeq, SMT
  <1>2. Len(s) - 1 \in 0 .. Len(s) /\ Len(s) - 1 \in Nat
    BY <1>1
  <1>3. FirstPart(SubSeq(s, 1, Len(s) - 1), S, s, Len(s) - 1)
    BY <1>2, PrefixFacts
  <1> QED  BY <1>2, <1>3, Zenon DEF Front

LEMMA AppendFacts ==
  ASSUME NEW S, NEW s \in Seq(S), NEW x \in S, NEW n, Len(s) = n
  PROVE  /\ n \in Nat
         /\ Append(s, x) \in Seq(S) /\ Len(Append(s, x)) = n + 1
         /\ Append(s, x)[n + 1] = x
         /\ \A i \in 1 .. n : Append(s, x)[i] = s[i]
  OBVIOUS

Keys == Characters \cup {Backspace}
SeenType == [text : Seq(Keys), lost : BOOLEAN]

LEMMA SeenAfterType ==
  ASSUME NEW s \in SeenType, NEW ch \in Keys
  PROVE  SeenAfter(s, ch) \in SeenType
  <1>1. s.text \in Seq(Keys) /\ s.lost \in BOOLEAN
    BY DEF SeenType
  <1>2. CASE ch = Backspace
    <2> DEFINE text == IF s.text = <<>> THEN <<>> ELSE Front(s.text)
               lost == s.lost \/ s.text = <<>>
    <2>1. <<>> \in Seq(Keys)
      OBVIOUS
    <2>2. ASSUME s.text # <<>> PROVE Front(s.text) \in Seq(Keys)
      BY <1>1, <2>2, FrontFacts, Zenon DEF FirstPart
    <2>3. text \in Seq(Keys)
      BY <2>1, <2>2, Zenon
    <2>4. lost \in BOOLEAN
      OBVIOUS
    <2>5. SeenAfter(s, ch) = [text |-> text, lost |-> lost]
      BY <1>2 DEF SeenAfter
    <2> HIDE DEF text, lost
    <2> QED  BY <2>3, <2>4, <2>5 DEF SeenType
  <1>3. CASE ch # Backspace
    <2> DEFINE text == Append(s.text, ch)
               lost == s.lost \/ Len(s.text) >= Size
    <2>1. text \in Seq(Keys)
      BY <1>1
    <2>2. lost \in BOOLEAN
      OBVIOUS
    <2>3. SeenAfter(s, ch) = [text |-> text, lost |-> lost]
      BY <1>3 DEF SeenAfter
    <2> HIDE DEF text, lost
    <2> QED  BY <2>1, <2>2, <2>3 DEF SeenType
  <1> QED  BY <1>2, <1>3

SeenSteps(keys) ==
  [i \in Nat |->
     [s \in SeenType |-> IF i \in 1 .. Len(keys) THEN SeenAfter(s, keys[i]) ELSE s]]

LEMMA SeenStepsType ==
  ASSUME NEW keys \in Seq(Keys)
  PROVE  SeenSteps(keys) \in [Nat -> [SeenType -> SeenType]]
  <1>1. ASSUME NEW i \in Nat, NEW s \in SeenType
        PROVE  (IF i \in 1 .. Len(keys) THEN SeenAfter(s, keys[i]) ELSE s) \in SeenType
    <2>1. CASE i \in 1 .. Len(keys)
      <3>1. keys[i] \in Keys
        BY <2>1, ElementOfSeq, Zenon
      <3>2. SeenAfter(s, keys[i]) \in SeenType
        BY <3>1, SeenAfterType
      <3> QED  BY <2>1, <3>2, Zenon
    <2> QED  BY <2>1, Zenon
  <1> QED  BY <1>1, Zenon DEF SeenSteps

LEMMA SeenIterates ==
  ASSUME NEW keys \in Seq(Keys)
  PROVE  \E f : /\ Iterates(f, Len(keys), SeenType, NothingSeen, SeenSteps(keys))
                /\ Seen(keys) = f[Len(keys)]
  <1> DEFINE n == Len(keys)
             g == SeenSteps(keys)
             Defined(f) == f = [i \in 0 .. n |-> IF i = 0 THEN NothingSeen
                                                 ELSE SeenAfter(f[i - 1], keys[i])]
             seen == CHOOSE f : Defined(f)
  <1>1. n \in Nat /\ g \in [Nat -> [SeenType -> SeenType]]
    BY SeenStepsType
  <1>2. Seen(keys) = seen[n]
    BY Zenon DEF Seen
  <1>3. NothingSeen \in SeenType
    <2>1. <<>> \in Seq(Keys)
      OBVIOUS
    <2> QED  BY <2>1 DEF NothingSeen, SeenType
  <1>4. ASSUME NEW i \in 1 .. n, NEW s \in SeenType PROVE g[i][s] = SeenAfter(s, keys[i])
    <2>1. i \in Nat
      BY <1>1
    <2> QED  BY <2>1, Zenon DEF SeenSteps
  <1> HIDE DEF g, n
  <1>5. \E f : Defined(f)
    <2>1. PICK f : Iterates(f, n, SeenType, NothingSeen, g)
      BY <1>1, <1>3, IterationExists
    <2>2. f \in [0 .. n -> SeenType] /\ f[0] = NothingSeen
          /\ \A i \in 1 .. n : f[i] = g[i][f[i - 1]]
      BY <2>1 DEF Iterates
    <2>3. ASSUME NEW i \in 0 .. n
          PROVE  f[i] = IF i = 0 THEN NothingSeen ELSE SeenAfter(f[i - 1], keys[i])
      <3>1. CASE i = 0
        BY <2>2, <3>1, Zenon
      <3>2. CASE i # 0
        <4>1. i \in 1 .. n /\ i - 1 \in 0 .. n
          BY <1>1, <3>2
        <4>2. f[i - 1] \in SeenType
          BY <2>2, <4>1
        <4> QED  BY <1>4, <2>2, <3>2, <4>1, <4>2, Zenon
      <3> QED  BY <3>1, <3>2
    <2>4. Defined(f)
      BY <2>2, <2>3
    <2> QED  BY <2>4, Zenon
  <1>6. Defined(seen)
    BY <1>5, Zenon
  <1> HIDE DEF seen
  <1>7. seen[0] = NothingSeen
    <2>1. 0 \in 0 .. n
      BY <1>1
    <2> QED  BY <1>6, <2>1
  <1>8. ASSUME NEW i \in 1 .. n, seen[i - 1] \in SeenType PROVE seen[i] = g[i][seen[i - 1]]
    <2>1. i \in 0 .. n /\ i # 0
      BY <1>1
    <2>2. seen[i] = SeenAfter(seen[i - 1], keys[i])
      BY <1>6, <2>1
    <2> QED  BY <1>4, <1>8, <2>2, Zenon
  <1>9. seen = [i \in 0 .. n |-> seen[i]]
    BY <1>6
  <1>10. Iterates(seen, n, SeenType, NothingSeen, g)
    <2> HIDE DEF Defined
    <2> QED  BY <1>1, <1>3, <1>7, <1>8, <1>9, IterationTyped
  <1> QED  BY <1>2, <1>10, Zenon DEF g, n

LEMMA SeenNothing == Seen(<<>>) = NothingSeen
  <1>1. <<>> \in Seq(Keys) /\ Len(<<>>) = 0
    OBVIOUS
  <1> QED  BY <1>1, SeenIterates DEF Iterates

LEMMA SeenOneMore ==
  ASSUME NEW keys \in Seq(Keys), NEW ch \in Keys
  PROVE  /\ Seen(keys) \in SeenType
         /\ Seen(Append(keys, ch)) = SeenAfter(Seen(keys), ch)
  <1> DEFINE n == Len(keys)
             more == Append(keys, ch)
             g == SeenSteps(keys)
             k == SeenSteps(more)
  <1>1. /\ n \in Nat /\ more \in Seq(Keys) /\ Len(more) = n + 1 /\ more[n + 1] = ch
        /\ \A i \in 1 .. n : more[i] = keys[i]
    BY AppendFacts
  <1>2. PICK f : Iterates(f, n, SeenType, NothingSeen, g) /\ Seen(keys) = f[n]
    BY SeenIterates
  <1> HIDE DEF more
  <1>3. PICK h : Iterates(h, n + 1, SeenType, NothingSeen, k) /\ Seen(more) = h[n + 1]
    BY <1>1, SeenIterates
  <1> HIDE DEF n
  <1>4. ASSUME NEW i \in 1 .. n PROVE k[i] = g[i]
    <2>1. i \in Nat /\ i \in 1 .. n + 1
      BY <1>1
    <2>2. k[i] = [s \in SeenType |-> SeenAfter(s, more[i])]
      BY <1>1, <2>1, Zenon DEF SeenSteps
    <2>3. g[i] = [s \in SeenType |-> SeenAfter(s, keys[i])]
      BY <1>1, <2>1, Zenon DEF SeenSteps, n
    <2> QED  BY <1>1, <2>2, <2>3, Zenon
  <1>5. n + 1 \in Nat /\ n \in 0 .. n + 1 /\ n \in 0 .. n /\ n + 1 \in 1 .. n + 1 /\ (n + 1) - 1 = n
    BY <1>1
  <1> HIDE DEF g
  <1>6. k[n + 1] = [s \in SeenType |-> SeenAfter(s, ch)]
    BY <1>1, <1>5, Zenon DEF SeenSteps
  <1> HIDE DEF k
  <1>7. h[n] = f[n]
    BY <1>2, <1>3, <1>4, <1>5, IterationUnique
  <1>8. f[n] \in SeenType
    BY <1>2, <1>5 DEF Iterates
  <1>9. h[n + 1] = k[n + 1][h[n]]
    BY <1>3, <1>5 DEF Iterates
  <1>10. h[n + 1] = SeenAfter(f[n], ch)
    BY <1>6, <1>7, <1>8, <1>9, Zenon
  <1> QED  BY <1>2, <1>3, <1>8, <1>10, Zenon DEF more

(* The bytes of a program are bytes. *)
DigitsType == [temp : 0 .. 255, digit : 0 .. 1, data : Seq(0 .. 255)]

LEMMA ByteOf ==
  ASSUME NEW i \in Nat
  PROVE  i % 256 \in 0 .. 255
  <1>1. i % 256 \in 0 .. 256 - 1
    BY DivMod
  <1>2. 256 - 1 = 255
    OBVIOUS
  <1> QED  BY <1>1, <1>2, Zenon

LEMMA ReadDigitType ==
  ASSUME NEW s \in DigitsType, NEW c
  PROVE  ReadDigit(s, c) \in DigitsType
  <1>1. s.temp \in 0 .. 255 /\ s.digit \in 0 .. 1 /\ s.data \in Seq(0 .. 255)
    BY DEF DigitsType
  <1>2. CASE c \notin DOMAIN HexValue
    BY <1>2, Zenon DEF ReadDigit
  <1>3. CASE c \in DOMAIN HexValue
    <2> DEFINE sum == s.temp + HexValue[c]
               temp == sum % 256
               high == (temp * 16) % 256
               first == [temp |-> high, digit |-> 1, data |-> s.data]
               second == [temp |-> 0, digit |-> 0, data |-> Append(s.data, temp)]
    <2>1. ReadDigit(s, c) = IF s.digit = 0 THEN first ELSE second
      BY <1>3, Zenon DEF ReadDigit
    <2>2. HexValue[c] \in 0 .. 15
      BY <1>3, TerminalAssumption
    <2>3. sum \in Nat
      <3> DEFINE x == s.temp
                 v == HexValue[c]
      <3>1. x \in 0 .. 255 /\ v \in 0 .. 15
        BY <1>1, <2>2
      <3> HIDE DEF x, v
      <3>2. x + v \in Nat
        BY <3>1
      <3> QED  BY <3>2 DEF x, v
    <2> HIDE DEF sum
    <2>4. temp \in 0 .. 255
      BY <2>3, ByteOf
    <2> HIDE DEF temp
    <2>5. temp * 16 \in Nat
      BY <2>4
    <2>6. high \in 0 .. 255
      BY <2>5, ByteOf
    <2> HIDE DEF high
    <2>7. first \in DigitsType
      BY <1>1, <2>6 DEF DigitsType
    <2>8. second \in DigitsType
      BY <1>1, <2>4 DEF DigitsType
    <2> HIDE DEF first, second
    <2> QED  BY <2>1, <2>7, <2>8, Zenon
  <1> QED  BY <1>2, <1>3

LEMMA ParsedType ==
  ASSUME NEW K, NEW line \in Seq(K)
  PROVE  Parsed(line) \in Seq(0 .. 255)
  <1> DEFINE n == Len(line)
             g == [i \in Nat |-> [s \in DigitsType |-> ReadDigit(s, line[i])]]
             Defined(f) == f = [i \in 0 .. n |-> IF i = 0 THEN NothingRead
                                                 ELSE ReadDigit(f[i - 1], line[i])]
             read == CHOOSE f : Defined(f)
  <1>1. n \in Nat /\ g \in [Nat -> [DigitsType -> DigitsType]]
    <2>1. \A i \in Nat, s \in DigitsType : ReadDigit(s, line[i]) \in DigitsType
      BY ReadDigitType, Zenon
    <2>2. n \in Nat
      OBVIOUS
    <2> QED  BY <2>1, <2>2, Zenon
  <1>2. Parsed(line) = read[n].data
    BY Zenon DEF Parsed
  <1>3. NothingRead \in DigitsType
    <2>1. <<>> \in Seq(0 .. 255)
      OBVIOUS
    <2> QED  BY <2>1 DEF NothingRead, DigitsType
  <1>4. ASSUME NEW i \in 1 .. n, NEW s \in DigitsType PROVE g[i][s] = ReadDigit(s, line[i])
    <2>1. i \in Nat
      BY <1>1
    <2> QED  BY <2>1, Zenon
  <1> HIDE DEF g, n
  <1>5. \E f : Defined(f)
    <2>1. PICK f : Iterates(f, n, DigitsType, NothingRead, g)
      BY <1>1, <1>3, IterationExists
    <2>2. f \in [0 .. n -> DigitsType] /\ f[0] = NothingRead
          /\ \A i \in 1 .. n : f[i] = g[i][f[i - 1]]
      BY <2>1 DEF Iterates
    <2>3. ASSUME NEW i \in 0 .. n
          PROVE  f[i] = IF i = 0 THEN NothingRead ELSE ReadDigit(f[i - 1], line[i])
      <3>1. CASE i = 0
        BY <2>2, <3>1, Zenon
      <3>2. CASE i # 0
        <4>1. i \in 1 .. n /\ i - 1 \in 0 .. n
          BY <1>1, <3>2
        <4>2. f[i - 1] \in DigitsType
          BY <2>2, <4>1
        <4> QED  BY <1>4, <2>2, <3>2, <4>1, <4>2, Zenon
      <3> QED  BY <3>1, <3>2
    <2>4. Defined(f)
      BY <2>2, <2>3
    <2> QED  BY <2>4, Zenon
  <1>6. Defined(read)
    BY <1>5, Zenon
  <1> HIDE DEF read
  <1>7. read[0] = NothingRead
    <2>1. 0 \in 0 .. n
      BY <1>1
    <2> QED  BY <1>6, <2>1
  <1>8. ASSUME NEW i \in 1 .. n, read[i - 1] \in DigitsType PROVE read[i] = g[i][read[i - 1]]
    <2>1. i \in 0 .. n /\ i # 0
      BY <1>1
    <2>2. read[i] = ReadDigit(read[i - 1], line[i])
      BY <1>6, <2>1
    <2> QED  BY <1>4, <1>8, <2>2, Zenon
  <1>9. read = [i \in 0 .. n |-> read[i]]
    BY <1>6
  <1>10. Iterates(read, n, DigitsType, NothingRead, g)
    <2> HIDE DEF Defined
    <2> QED  BY <1>1, <1>3, <1>7, <1>8, <1>9, IterationTyped
  <1>11. n \in 0 .. n
    BY <1>1
  <1>12. read[n] \in DigitsType
    BY <1>10, <1>11 DEF Iterates
  <1> QED  BY <1>2, <1>12 DEF DigitsType

-----------------------------------------------------------------------------
(* The ring.                                                               *)

Wrapped(k) == IF k < Rows THEN k ELSE k - Rows

LEMMA SizeFacts ==
         /\ Cols \in Nat \ {0} /\ Rows \in Nat \ {0} /\ Size \in Nat \ {0}
         /\ Size = Rows * Cols
         /\ Rows - 1 \in Nat
         /\ Size = ((Rows - 1) * Cols) + Cols
  <1>1. Cols \in Nat \ {0} /\ Rows \in Nat \ {0}
    BY TerminalAssumption
  <1>2. Size = Rows * Cols /\ Rows * Cols \in Nat
    BY <1>1, Products DEF Size
  <1>3. Rows - 1 \in Nat /\ Rows = (Rows - 1) + 1
    BY <1>1
  <1>4. ((Rows - 1) + 1) * Cols = ((Rows - 1) * Cols) + (1 * Cols)
    BY <1>1, <1>3, Products
  <1>5. 1 * Cols = Cols /\ (Rows - 1) * Cols \in Nat
    BY <1>1, <1>3, Products
  <1>6. Rows * Cols = ((Rows - 1) * Cols) + Cols
    BY <1>3, <1>4, <1>5, Zenon
  <1>7. Size # 0
    BY <1>1, <1>2, <1>5, <1>6
  <1> QED  BY <1>1, <1>2, <1>3, <1>6, <1>7

LEMMA WrappedIs ==
  ASSUME NEW n \in Nat \ {0}, n = Rows, NEW k \in 0 .. (2 * n) - 1
  PROVE  /\ Wrapped(k) \in Nat /\ Wrapped(k) < n
         /\ k = Wrapped(k) \/ k = n + Wrapped(k)
  BY DEF Wrapped

(* The cell c of the row k of the ring, when k may be past its last row. *)
LEMMA RingIndex ==
  ASSUME NEW k \in 0 .. (2 * Rows) - 1, NEW c \in 0 .. Cols - 1
  PROVE  /\ Wrapped(k) \in 0 .. Rows - 1
         /\ ((k * Cols) + c) % Size = (Wrapped(k) * Cols) + c
         /\ (Wrapped(k) * Cols) + c \in 0 .. Size - 1
  <1>1. /\ Cols \in Nat \ {0} /\ Rows \in Nat \ {0} /\ Size \in Nat \ {0} /\ Size = Rows * Cols
    BY SizeFacts, Zenon
  <1> DEFINE w == Wrapped(k)
  <1>2. w \in Nat /\ w < Rows /\ (k = w \/ k = Rows + w)
    BY <1>1, WrappedIs, Zenon
  <1> HIDE DEF w
  <1>7. w \in 0 .. Rows - 1
    BY <1>1, <1>2
  <1> DEFINE p == w * Cols
             x == p + c
  <1>3. p \in Nat /\ p + Cols <= Rows * Cols
    BY <1>1, <1>2, Products
  <1> HIDE DEF p
  <1>4. x \in 0 .. Size - 1
    <2>1. p + Cols <= Size
      BY <1>1, <1>3, Zenon
    <2> QED  BY <1>1, <1>3, <2>1
  <1>5. CASE k = w
    <2>1. (k * Cols) + c = x
      BY <1>5 DEF p
    <2> HIDE DEF x
    <2>2. x % Size = x
      BY <1>1, <1>4, ModOfSmall
    <2> QED  BY <1>7, <1>4, <2>1, <2>2, Zenon DEF w, x, p
  <1>6. CASE k = Rows + w
    <2>1. w \in Nat
      BY <1>2
    <2>2. (Rows + w) * Cols = (Rows * Cols) + p
      BY <1>1, <2>1, Products DEF p
    <2>3. (k * Cols) + c = Size + x
      BY <1>1, <1>3, <1>6, <2>2
    <2>4. Size + x = (1 * Size) + x
      BY <1>1
    <2> HIDE DEF x
    <2>5. ((1 * Size) + x) % Size = x
      BY <1>1, <1>4, DivModUnique
    <2> QED  BY <1>7, <1>4, <2>3, <2>4, <2>5, Zenon DEF w, x, p
  <1> QED  BY <1>2, <1>5, <1>6

Offsets == {n * Cols : n \in 0 .. Rows - 1}

LEMMA CellIndex ==
  ASSUME NEW n \in 0 .. Rows - 1,
         NEW c \in 0 .. Cols - 1, NEW r \in 0 .. Rows - 1
  PROVE  /\ Wrapped(n + r) \in 0 .. Rows - 1
         /\ IndexOf(<<c, r>>, n * Cols) = (Wrapped(n + r) * Cols) + c
         /\ IndexOf(<<c, r>>, n * Cols) \in 0 .. Size - 1
  <1>1. Cols \in Nat \ {0} /\ Rows \in Nat \ {0}
    BY SizeFacts, Zenon
  <1>2. n \in Nat /\ r \in Nat /\ Cols \in Nat /\ n + r \in 0 .. (2 * Rows) - 1
    BY <1>1
  <1>3. (n + r) * Cols = (n * Cols) + (r * Cols)
    <2> DEFINE s == r
    <2>1. n \in Nat /\ Cols \in Nat /\ s \in Nat
      BY <1>2
    <2> HIDE DEF s
    <2>2. (n + s) * Cols = (n * Cols) + (s * Cols)
      BY <2>1, Products
    <2> QED  BY <2>2 DEF s
  <1>4. ((n * Cols) + (r * Cols)) + c = ((n + r) * Cols) + c
    BY <1>3, Zenon
  <1>5. IndexOf(<<c, r>>, n * Cols) = (((n + r) * Cols) + c) % Size
    BY <1>4, Zenon DEF IndexOf
  <1> QED  BY <1>2, <1>5, RingIndex, Zenon

(* The same row of the ring, seen before a scroll and after. *)
LEMMA ScrolledRow ==
  ASSUME NEW n \in 0 .. Rows - 1, NEW r \in 0 .. Rows - 1
  PROVE  /\ r < Rows - 1 => Wrapped(Wrapped(n + 1) + r) = Wrapped(n + (r + 1))
         /\ r = Rows - 1 => Wrapped(Wrapped(n + 1) + r) = Wrapped(n + 0)
         /\ Wrapped(n + 1) \in 0 .. Rows - 1
  <1>1. Rows \in Nat \ {0}
    BY SizeFacts, Zenon
  <1> DEFINE m == Wrapped(n + 1)
             q == Wrapped(m + r)
             x == Wrapped(n + (r + 1))
             y == Wrapped(n + 0)
  <1>2. n + 1 \in 0 .. (2 * Rows) - 1 /\ n + 0 \in 0 .. (2 * Rows) - 1
    BY <1>1
  <1>3. m \in Nat /\ m < Rows /\ (n + 1 = m \/ n + 1 = Rows + m)
    BY <1>1, <1>2, WrappedIs, Zenon
  <1>4. y \in Nat /\ y < Rows /\ (n + 0 = y \/ n + 0 = Rows + y)
    BY <1>1, <1>2, WrappedIs, Zenon
  <1> HIDE DEF m, y
  <1>5. m + r \in 0 .. (2 * Rows) - 1
    BY <1>1, <1>3
  <1>6. q \in Nat /\ q < Rows /\ (m + r = q \/ m + r = Rows + q)
    BY <1>1, <1>5, WrappedIs, Zenon
  <1> HIDE DEF q
  <1>10. n \in Nat /\ n < Rows /\ r \in Nat /\ r < Rows
    BY <1>1
  <1>7. ASSUME r < Rows - 1 PROVE q = x
    <2>1. CASE n + 1 = m
      <3>1. m + r = n + (r + 1)
        BY <1>10, <2>1
      <3> QED  BY <3>1, Zenon DEF q
    <2>2. CASE n + 1 = Rows + m
      <3>1. m = 0 /\ n + (r + 1) = Rows + r /\ m + r = r
        BY <1>1, <1>3, <1>10, <2>2
      <3>2. n + (r + 1) \in 0 .. (2 * Rows) - 1
        BY <1>1, <1>10, <3>1
      <3>3. x \in Nat /\ x < Rows /\ (n + (r + 1) = x \/ n + (r + 1) = Rows + x)
        BY <1>1, <3>2, WrappedIs, Zenon
      <3> HIDE DEF x
      <3>4. x = r
        BY <1>1, <1>10, <3>1, <3>3
      <3>5. q = r
        BY <1>1, <1>6, <1>10, <3>1
      <3> QED  BY <3>4, <3>5, Zenon
    <2> QED  BY <1>3, <2>1, <2>2, Zenon
  <1>8. ASSUME r = Rows - 1 PROVE q = y
    <2>1. y = n
      BY <1>1, <1>4, <1>10
    <2>2. CASE n + 1 = m
      <3>1. m + r = Rows + n
        BY <1>1, <1>8, <1>10, <2>2
      <3>2. q = n
        BY <1>1, <1>6, <1>10, <3>1
      <3> QED  BY <2>1, <3>2, Zenon
    <2>3. CASE n + 1 = Rows + m
      <3>1. m + r = n
        BY <1>1, <1>3, <1>8, <1>10, <2>3
      <3>2. q = n
        BY <1>1, <1>6, <1>10, <3>1
      <3> QED  BY <2>1, <3>2, Zenon
    <2> QED  BY <1>3, <2>2, <2>3, Zenon
  <1>9. m \in 0 .. Rows - 1
    BY <1>1, <1>3
  <1> QED  BY <1>7, <1>8, <1>9, Zenon DEF m, q, x, y

LEMMA CellsAre ==
  ASSUME NEW cell \in Cells
  PROVE  \E c \in 0 .. Cols - 1, r \in 0 .. Rows - 1 : cell = <<c, r>>
  BY DEF Cells

(* No two cells of the screen are the same cell of the ring. *)
LEMMA CellsApart ==
  ASSUME NEW off \in Offsets, NEW x \in Cells, NEW y \in Cells,
         IndexOf(x, off) = IndexOf(y, off)
  PROVE  x = y
  <1>1. PICK n \in 0 .. Rows - 1 : off = n * Cols
    BY DEF Offsets
  <1>2. PICK c \in 0 .. Cols - 1, r \in 0 .. Rows - 1 : x = <<c, r>>
    BY CellsAre, Zenon
  <1>3. PICK d \in 0 .. Cols - 1, s \in 0 .. Rows - 1 : y = <<d, s>>
    BY CellsAre, Zenon
  <1> DEFINE a == Wrapped(n + r)
             b == Wrapped(n + s)
  <1>4. a \in 0 .. Rows - 1 /\ IndexOf(x, off) = (a * Cols) + c
    BY <1>1, <1>2, CellIndex, Zenon
  <1>5. b \in 0 .. Rows - 1 /\ IndexOf(y, off) = (b * Cols) + d
    BY <1>1, <1>3, CellIndex, Zenon
  <1>6. Rows \in Nat \ {0} /\ Cols \in Nat \ {0}
    BY SizeFacts, Zenon
  <1> HIDE DEF a, b
  <1>7. a \in Nat /\ b \in Nat
    BY <1>4, <1>5, <1>6
  <1>8. ((a * Cols) + c) \div Cols = a /\ ((a * Cols) + c) % Cols = c
    BY <1>6, <1>7, DivModUnique
  <1>9. ((b * Cols) + d) \div Cols = b /\ ((b * Cols) + d) % Cols = d
    BY <1>6, <1>7, DivModUnique
  <1>10. a = b /\ c = d
    BY <1>4, <1>5, <1>8, <1>9, Zenon
  <1>11. r = s
    <2>1. n + r \in 0 .. (2 * Rows) - 1 /\ n + s \in 0 .. (2 * Rows) - 1
      BY <1>6
    <2>2. a \in Nat /\ a < Rows /\ (n + r = a \/ n + r = Rows + a)
      BY <1>6, <2>1, WrappedIs, Zenon DEF a
    <2>3. b \in Nat /\ b < Rows /\ (n + s = b \/ n + s = Rows + b)
      BY <1>6, <2>1, WrappedIs, Zenon DEF b
    <2> QED  BY <1>6, <1>10, <2>2, <2>3
  <1> QED  BY <1>2, <1>3, <1>10, <1>11, Zenon

-----------------------------------------------------------------------------
(* What is drawn.                                                          *)

Char == Characters \cup {Blank}
Buffers == [0 .. Size - 1 -> Char]
Screens == [Cells -> Char]

SetAt(f, x, y) == [f EXCEPT ![x] = y]

(* Every row moves up by one, and the last one is blank. *)
Up(screen) ==
  [cell \in Cells |-> IF cell[2] = Rows - 1 THEN Blank ELSE screen[<<cell[1], cell[2] + 1>>]]

LEMMA IndexType ==
  ASSUME NEW off \in Offsets, NEW cell \in Cells
  PROVE  IndexOf(cell, off) \in 0 .. Size - 1
  BY CellsAre, CellIndex, Zenon DEF Offsets

LEMMA ViewType ==
  ASSUME NEW off \in Offsets, NEW b \in Buffers
  PROVE  View(b, off) \in Screens
  BY IndexType DEF View, Buffers, Screens

LEMMA UpType ==
  ASSUME NEW screen \in Screens
  PROVE  Up(screen) \in Screens
  <1>1. ASSUME NEW cell \in Cells, cell[2] # Rows - 1
        PROVE  <<cell[1], cell[2] + 1>> \in Cells
    <2>1. PICK c \in 0 .. Cols - 1, r \in 0 .. Rows - 1 : cell = <<c, r>>
      BY CellsAre, Zenon
    <2>2. Rows \in Nat \ {0}
      BY SizeFacts, Zenon
    <2>3. r + 1 \in 0 .. Rows - 1
      BY <1>1, <2>1, <2>2
    <2> QED  BY <2>1, <2>3 DEF Cells
  <1> QED  BY <1>1 DEF Up, Screens, Char

LEMMA ViewOfSet ==
  ASSUME NEW off \in Offsets, NEW b \in Buffers, NEW cell \in Cells,
         NEW ch \in Char
  PROVE  /\ View(SetAt(b, IndexOf(cell, off), ch), off) = SetAt(View(b, off), cell, ch)
         /\ SetAt(b, IndexOf(cell, off), ch) \in Buffers
  <1> DEFINE i == IndexOf(cell, off)
             set == SetAt(b, i, ch)
  <1>1. i \in 0 .. Size - 1
    BY IndexType, Zenon
  <1>2. ASSUME NEW x \in Cells
        PROVE  set[IndexOf(x, off)] = IF x = cell THEN ch ELSE View(b, off)[x]
    <2>1. IndexOf(x, off) \in 0 .. Size - 1
      BY IndexType, Zenon
    <2>2. CASE x = cell
      BY <1>1, <2>2 DEF SetAt, Buffers
    <2>3. CASE x # cell
      <3>1. IndexOf(x, off) # i
        BY <2>3, CellsApart, Zenon
      <3> HIDE DEF i
      <3>2. set[IndexOf(x, off)] = b[IndexOf(x, off)]
        BY <1>1, <2>1, <3>1, Zenon DEF SetAt, Buffers
      <3> QED  BY <2>3, <3>2, Zenon DEF View
    <2> QED  BY <2>2, <2>3
  <1> HIDE DEF set
  <1>3. SetAt(View(b, off), cell, ch) = [x \in Cells |-> IF x = cell THEN ch ELSE View(b, off)[x]]
    BY DEF SetAt, View
  <1>4. View(set, off) = SetAt(View(b, off), cell, ch)
    BY <1>2, <1>3, Zenon DEF View
  <1>5. set \in Buffers
    BY <1>1, Zenon DEF SetAt, Buffers, set
  <1> QED  BY <1>4, <1>5 DEF set, i

LEMMA ViewScrolled ==
  ASSUME offset \in Offsets, buffer \in Buffers, Scrolls
  PROVE  /\ OffsetAfter \in Offsets /\ Cleared \in Buffers
         /\ View(Cleared, OffsetAfter) = Up(View(buffer, offset))
  <1> DEFINE clear == {IndexOf(<<c, 0>>, offset) : c \in 0 .. Cols - 1}
             old == View(buffer, offset)
  <1>1. PICK n \in 0 .. Rows - 1 : offset = n * Cols
    BY DEF Offsets
  <1> DEFINE m == Wrapped(n + 1)
  <1>2. Rows \in Nat \ {0} /\ Cols \in Nat \ {0}
    BY SizeFacts, Zenon
  <1>3. m \in 0 .. Rows - 1
    BY ScrolledRow, Zenon
  <1>4. OffsetAfter = m * Cols
    <2>1. n + 1 \in 0 .. (2 * Rows) - 1 /\ 0 \in 0 .. Cols - 1 /\ n \in Nat
      BY <1>2
    <2>2. (((n + 1) * Cols) + 0) % Size = (m * Cols) + 0
      BY <2>1, RingIndex, Zenon
    <2>3. (n + 1) * Cols = (n * Cols) + (1 * Cols)
      BY <1>2, <2>1, Products
    <2>4. n * Cols \in Nat /\ m \in Nat /\ 1 * Cols = Cols
      BY <1>2, <1>3, <2>1, Products
    <2>5. m * Cols \in Nat
      BY <1>2, <2>4, Products
    <2>6. ((n + 1) * Cols) + 0 = offset + Cols
      BY <1>1, <1>2, <2>3, <2>4
    <2> HIDE DEF m
    <2>7. (m * Cols) + 0 = m * Cols
      BY <2>5
    <2>8. (offset + Cols) % Size = m * Cols
      BY <2>2, <2>6, <2>7, Zenon
    <2> QED  BY <2>8, Zenon DEF OffsetAfter
  <1>5. OffsetAfter \in Offsets
    BY <1>3, <1>4, Zenon DEF Offsets
  <1>6. Cleared = [i \in 0 .. Size - 1 |-> IF i \in clear THEN Blank ELSE buffer[i]]
    BY Zenon DEF Cleared, Buffers
  <1>7. Cleared \in Buffers
    BY <1>6 DEF Buffers, Char
  <1>8. ASSUME NEW cell \in Cells
        PROVE  Cleared[IndexOf(cell, OffsetAfter)] = Up(old)[cell]
    <2>1. PICK c \in 0 .. Cols - 1, r \in 0 .. Rows - 1 : cell = <<c, r>>
      BY CellsAre, Zenon
    <2> DEFINE i == IndexOf(cell, OffsetAfter)
    <2>2. i = (Wrapped(m + r) * Cols) + c /\ i \in 0 .. Size - 1
      BY <1>3, <1>4, <2>1, CellIndex, Zenon
    <2>3. CASE r = Rows - 1
      <3>1. Wrapped(m + r) = Wrapped(n + 0)
        BY <2>3, ScrolledRow, Zenon
      <3>2. 0 \in 0 .. Rows - 1
        BY <1>2
      <3>3. IndexOf(<<c, 0>>, offset) = (Wrapped(n + 0) * Cols) + c
        BY <1>1, <3>2, CellIndex, Zenon
      <3>4. i \in clear
        BY <2>2, <3>1, <3>3, Zenon
      <3> HIDE DEF i, clear
      <3>5. Cleared[i] = Blank
        BY <1>6, <2>2, <3>4, Zenon
      <3>6. Up(old)[cell] = Blank
        BY <2>1, <2>3 DEF Up
      <3> QED  BY <3>5, <3>6, Zenon DEF i
    <2>4. CASE r < Rows - 1
      <3> DEFINE below == <<c, r + 1>>
      <3>1. Wrapped(m + r) = Wrapped(n + (r + 1))
        BY <2>4, ScrolledRow, Zenon
      <3>2. r + 1 \in 0 .. Rows - 1 /\ r + 1 # 0 /\ 0 \in 0 .. Rows - 1
        BY <1>2, <2>4
      <3>3. IndexOf(below, offset) = (Wrapped(n + (r + 1)) * Cols) + c
        BY <1>1, <3>2, CellIndex, Zenon
      <3>4. i = IndexOf(below, offset)
        BY <2>2, <3>1, <3>3, Zenon
      <3>5. below \in Cells
        BY <3>2 DEF Cells
      <3>6. i \notin clear
        <4> SUFFICES ASSUME NEW d \in 0 .. Cols - 1,
                            IndexOf(below, offset) = IndexOf(<<d, 0>>, offset)
                     PROVE  FALSE
          BY <3>4, Zenon
        <4>1. <<d, 0>> \in Cells
          BY <3>2 DEF Cells
        <4> HIDE DEF below
        <4>2. below = <<d, 0>>
          BY <3>5, <4>1, CellsApart, Zenon
        <4> QED  BY <3>2, <4>2 DEF below
      <3> HIDE DEF i, clear
      <3>7. Cleared[i] = buffer[i]
        BY <1>6, <2>2, <3>6, Zenon
      <3>8. old[below] = buffer[i]
        <4> HIDE DEF below
        <4> QED  BY <3>4, <3>5, Zenon DEF View
      <3>9. r # Rows - 1
        BY <1>2, <2>4
      <3> HIDE DEF old
      <3>10. Up(old)[cell] = old[below]
        BY <2>1, <3>9 DEF Up
      <3> QED  BY <3>7, <3>8, <3>10, Zenon DEF i
    <2>5. r = Rows - 1 \/ r < Rows - 1
      BY <1>2
    <2> QED  BY <2>3, <2>4, <2>5, Zenon
  <1>9. View(Cleared, OffsetAfter) = [cell \in Cells |-> Up(old)[cell]]
    BY <1>8, Zenon DEF View
  <1>10. Up(old) = [cell \in Cells |-> Up(old)[cell]]
    BY DEF Up
  <1> QED  BY <1>5, <1>7, <1>9, <1>10, Zenon

-----------------------------------------------------------------------------
(* The cells in reading order.                                             *)

LEMMA ReadingOf ==
  ASSUME NEW c \in 0 .. Cols - 1, NEW r \in 0 .. Rows - 1
  PROVE  /\ (r * Cols) + c \in 0 .. Size - 1
         /\ Reading((r * Cols) + c) = <<c, r>>
  <1>1. Cols \in Nat \ {0} /\ Rows \in Nat \ {0} /\ Size = Rows * Cols
    BY SizeFacts, Zenon
  <1>2. r \in Nat /\ r < Rows
    BY <1>1
  <1>3. ((r * Cols) + c) \div Cols = r /\ ((r * Cols) + c) % Cols = c
    BY <1>1, <1>2, DivModUnique
  <1>4. r * Cols \in Nat /\ (r * Cols) + Cols <= Rows * Cols /\ Rows * Cols \in Nat
    BY <1>1, <1>2, Products
  <1>5. (r * Cols) + c \in 0 .. Size - 1
    <2> DEFINE p == r * Cols
               size == Rows * Cols
    <2> HIDE DEF p, size
    <2>1. p \in Nat /\ p + Cols <= size /\ size \in Nat
      BY <1>4 DEF p, size
    <2>2. p + c \in 0 .. size - 1
      BY <1>1, <2>1
    <2> QED  BY <1>1, <2>2, Zenon DEF p, size
  <1> QED  BY <1>3, <1>5, Zenon DEF Reading

LEMMA Placed ==
  ASSUME NEW k \in 0 .. Size - 1
  PROVE  \E c \in 0 .. Cols - 1, r \in 0 .. Rows - 1 :
           k = (r * Cols) + c /\ Reading(k) = <<c, r>>
  <1>1. Cols \in Nat \ {0} /\ Rows \in Nat \ {0} /\ Size = Rows * Cols /\ Size \in Nat \ {0}
    BY SizeFacts, Zenon
  <1>2. k \in Nat /\ k < Size
    BY <1>1
  <1> DEFINE r == k \div Cols
             c == k % Cols
  <1>3. r \in Nat /\ c \in 0 .. Cols - 1 /\ k = (r * Cols) + c
    BY <1>1, <1>2, DivMod
  <1> HIDE DEF r, c
  <1>4. r < Rows
    <2> SUFFICES ASSUME Rows <= r PROVE FALSE
      BY <1>1, <1>3
    <2>1. Rows * Cols <= r * Cols /\ r * Cols \in Nat
      BY <1>1, <1>3, Products
    <2> DEFINE p == r * Cols
    <2> HIDE DEF p
    <2>2. Size <= p /\ p \in Nat /\ k = p + c
      BY <1>1, <1>3, <2>1, Zenon DEF p
    <2> QED  BY <1>1, <1>2, <1>3, <2>2
  <1>5. r \in 0 .. Rows - 1
    BY <1>1, <1>3, <1>4
  <1>6. Reading(k) = <<c, r>>
    BY Zenon DEF Reading, c, r
  <1> QED  BY <1>3, <1>5, <1>6, Zenon

LEMMA ReadingInCells ==
  ASSUME NEW k \in 0 .. Size - 1
  PROVE  Reading(k) \in Cells
  <1>1. PICK c \in 0 .. Cols - 1, r \in 0 .. Rows - 1 : Reading(k) = <<c, r>>
    BY Placed, Zenon
  <1> QED  BY <1>1 DEF Cells

LEMMA ReadingApart ==
  ASSUME NEW j \in 0 .. Size - 1, NEW k \in 0 .. Size - 1,
         Reading(j) = Reading(k)
  PROVE  j = k
  <1>1. PICK c \in 0 .. Cols - 1, r \in 0 .. Rows - 1 : j = (r * Cols) + c /\ Reading(j) = <<c, r>>
    BY Placed, Zenon
  <1>2. PICK d \in 0 .. Cols - 1, s \in 0 .. Rows - 1 : k = (s * Cols) + d /\ Reading(k) = <<d, s>>
    BY Placed, Zenon
  <1>3. c = d /\ r = s
    BY <1>1, <1>2
  <1> QED  BY <1>1, <1>2, <1>3, Zenon

LEMMA UpReads ==
  ASSUME NEW screen, NEW k \in 0 .. Size - 1, k < (Rows - 1) * Cols
  PROVE  /\ k + Cols \in 0 .. Size - 1
         /\ Up(screen)[Reading(k)] = screen[Reading(k + Cols)]
  <1>1. PICK c \in 0 .. Cols - 1, r \in 0 .. Rows - 1 : k = (r * Cols) + c /\ Reading(k) = <<c, r>>
    BY Placed, Zenon
  <1>2. Cols \in Nat \ {0} /\ Rows \in Nat \ {0} /\ r \in Nat /\ Rows - 1 \in Nat
    BY SizeFacts
  <1>3. r # Rows - 1
    <2> SUFFICES ASSUME r = Rows - 1 PROVE FALSE
      OBVIOUS
    <2> DEFINE p == r * Cols
    <2>1. p \in Nat
      BY <1>2, Products
    <2> HIDE DEF p
    <2>2. k < p /\ k = p + c
      BY <1>1, Zenon DEF p
    <2> QED  BY <1>2, <2>1, <2>2
  <1>4. r + 1 \in 0 .. Rows - 1
    BY <1>2, <1>3
  <1>5. (r + 1) * Cols = (r * Cols) + Cols /\ r * Cols \in Nat
    <2>1. Cols \in Nat
      BY <1>2
    <2> QED  BY <1>2, <2>1, NextMultiple, Zenon
  <1>6. k + Cols = ((r + 1) * Cols) + c
    <2> DEFINE p == r * Cols
               q == (r + 1) * Cols
    <2> HIDE DEF p, q
    <2>1. q = p + Cols /\ p \in Nat /\ k = p + c
      BY <1>1, <1>5, Zenon DEF p, q
    <2>2. k + Cols = q + c
      BY <1>2, <2>1
    <2> QED  BY <2>2, Zenon DEF q
  <1>7. k + Cols \in 0 .. Size - 1 /\ Reading(k + Cols) = <<c, r + 1>>
    BY <1>4, <1>6, ReadingOf, Zenon
  <1>8. <<c, r>> \in Cells
    BY DEF Cells
  <1>9. Up(screen)[<<c, r>>] = screen[<<c, r + 1>>]
    BY <1>3, <1>8 DEF Up
  <1> QED  BY <1>1, <1>7, <1>9, Zenon

DiffersAt(after, screen, j, ch) ==
  /\ after[Reading(j)] = ch
  /\ \A k \in 0 .. Size - 1 : k # j => after[Reading(k)] = screen[Reading(k)]

LEMMA SetReads ==
  ASSUME NEW screen \in Screens, NEW j \in 0 .. Size - 1, NEW ch
  PROVE  DiffersAt(SetAt(screen, Reading(j), ch), screen, j, ch)
  <1>1. \A k \in 0 .. Size - 1 : Reading(k) \in Cells
    BY ReadingInCells, Zenon
  <1>2. \A k \in 0 .. Size - 1 : k # j => Reading(k) # Reading(j)
    BY ReadingApart, Zenon
  <1> QED  BY <1>1, <1>2, Zenon DEF SetAt, Screens, DiffersAt

-----------------------------------------------------------------------------
(* A line that is shown: it begins in the first column of a row and ends   *)
(* before the cell at.                                                     *)

Displays(text, screen, at) ==
  \E row0 \in Nat : /\ at = (row0 * Cols) + Len(text)
                    /\ \A i \in 1 .. Len(text) :
                         screen[Reading((row0 * Cols) + (i - 1))] = text[i]

LEMMA DisplaysNothing ==
  ASSUME NEW r \in Nat, NEW screen
  PROVE  Displays(<<>>, screen, r * Cols)
  <1>1. Cols \in Nat
    BY SizeFacts, Zenon
  <1>2. r * Cols \in Nat
    BY <1>1, Products
  <1>3. r * Cols = (r * Cols) + Len(<<>>) /\ 1 .. Len(<<>>) = {}
    BY <1>2
  <1> QED  BY <1>3, Zenon DEF Displays

LEMMA DisplaysAppended ==
  ASSUME NEW T, NEW text \in Seq(T), NEW ch \in T, NEW screen \in Screens,
         NEW at \in 0 .. Size - 1, Displays(text, screen, at)
  PROVE  Displays(Append(text, ch), SetAt(screen, Reading(at), ch), at + 1)
  <1> DEFINE n == Len(text)
             longer == Append(text, ch)
             after == SetAt(screen, Reading(at), ch)
  <1>1. /\ n \in Nat /\ Len(longer) = n + 1 /\ longer[n + 1] = ch
        /\ \A i \in 1 .. n : longer[i] = text[i]
    BY AppendFacts
  <1>2. PICK b \in Nat : /\ at = (b * Cols) + n
                         /\ \A i \in 1 .. n : screen[Reading((b * Cols) + (i - 1))] = text[i]
    BY DEF Displays
  <1>3. /\ after[Reading(at)] = ch
        /\ \A k \in 0 .. Size - 1 : k # at => after[Reading(k)] = screen[Reading(k)]
    <2>1. DiffersAt(after, screen, at, ch)
      BY SetReads, Zenon
    <2> QED  BY <2>1, Zenon DEF DiffersAt
  <1> HIDE DEF longer, after, n
  <1> DEFINE p == b * Cols
  <1>4. p \in Nat /\ Size \in Nat \ {0}
    BY SizeFacts, Products
  <1> HIDE DEF p
  <1>5. at = p + n
    BY <1>2, Zenon DEF p
  <1>6. ASSUME NEW i \in 1 .. n + 1 PROVE after[Reading(p + (i - 1))] = longer[i]
    <2>1. CASE i = n + 1
      <3>1. p + (i - 1) = at
        BY <1>1, <1>4, <1>5, <2>1
      <3> QED  BY <1>1, <1>3, <2>1, <3>1, Zenon
    <2>2. CASE i # n + 1
      <3>1. i \in 1 .. n /\ p + (i - 1) \in 0 .. Size - 1 /\ p + (i - 1) # at
        BY <1>1, <1>4, <1>5, <2>2
      <3>2. after[Reading(p + (i - 1))] = screen[Reading(p + (i - 1))]
        BY <1>3, <3>1, Zenon
      <3> QED  BY <1>1, <1>2, <3>1, <3>2, Zenon DEF p
    <2> QED  BY <2>1, <2>2
  <1>7. at + 1 = p + (n + 1)
    BY <1>1, <1>4, <1>5
  <1> QED  BY <1>1, <1>6, <1>7, Zenon DEF Displays, longer, after, p

LEMMA DisplaysErased ==
  ASSUME NEW T, NEW text \in Seq(T), text # <<>>, NEW screen \in Screens,
         NEW at \in 0 .. Size, Displays(text, screen, at), NEW ch
  PROVE  /\ at - 1 \in 0 .. Size - 1
         /\ Displays(Front(text), SetAt(screen, Reading(at - 1), ch), at - 1)
  <1> DEFINE n == Len(text)
             m == n - 1
             shorter == Front(text)
             last == at - 1
             after == SetAt(screen, Reading(last), ch)
  <1>1. /\ m \in Nat /\ Len(shorter) = m
        /\ \A i \in 1 .. m : shorter[i] = text[i]
    BY FrontFacts, Zenon DEF FirstPart
  <1>2. PICK b \in Nat : /\ at = (b * Cols) + n
                         /\ \A i \in 1 .. n : screen[Reading((b * Cols) + (i - 1))] = text[i]
    BY DEF Displays
  <1>8. n \in Nat /\ n = m + 1
    BY <1>1
  <1> HIDE DEF shorter, n, m
  <1> DEFINE p == b * Cols
  <1>4. p \in Nat /\ Size \in Nat \ {0}
    BY SizeFacts, Products
  <1> HIDE DEF p
  <1>5. at = p + n
    BY <1>2, Zenon DEF p
  <1>9. last \in 0 .. Size - 1 /\ last = p + m
    BY <1>1, <1>4, <1>5, <1>8
  <1> HIDE DEF last
  <1>3. \A k \in 0 .. Size - 1 : k # last => after[Reading(k)] = screen[Reading(k)]
    <2>1. DiffersAt(after, screen, last, ch)
      BY <1>9, SetReads, Zenon
    <2> QED  BY <2>1, Zenon DEF DiffersAt
  <1> HIDE DEF after
  <1>6. ASSUME NEW i \in 1 .. m PROVE after[Reading(p + (i - 1))] = shorter[i]
    <2>1. i \in 1 .. n /\ p + (i - 1) \in 0 .. Size - 1 /\ p + (i - 1) # last
      BY <1>1, <1>4, <1>8, <1>9
    <2>2. after[Reading(p + (i - 1))] = screen[Reading(p + (i - 1))]
      BY <1>3, <2>1, Zenon
    <2> QED  BY <1>1, <1>2, <2>1, <2>2, Zenon DEF p
  <1>7. Displays(shorter, after, last)
    BY <1>1, <1>6, <1>9, Zenon DEF Displays, p
  <1> QED  BY <1>7, <1>9, Zenon DEF shorter, after, last

LEMMA DisplaysScrolled ==
  ASSUME NEW T, NEW text \in Seq(T), Len(text) < Size, NEW screen \in Screens,
         Displays(text, screen, Size)
  PROVE  Displays(text, Up(screen), (Rows - 1) * Cols)
  <1> DEFINE n == Len(text)
             end == (Rows - 1) * Cols
             after == Up(screen)
  <1>1. /\ n \in Nat /\ Cols \in Nat \ {0} /\ Rows - 1 \in Nat /\ Size \in Nat
        /\ Size = end + Cols
    BY SizeFacts
  <1>2. PICK b \in Nat : /\ Size = (b * Cols) + n
                         /\ \A i \in 1 .. n : screen[Reading((b * Cols) + (i - 1))] = text[i]
    BY DEF Displays
  <1>3. b # 0
    <2> SUFFICES ASSUME b = 0 PROVE FALSE
      OBVIOUS
    <2>1. 0 * Cols = 0
      BY <1>1
    <2>2. Size = 0 + n
      BY <1>2, <2>1, Zenon
    <2> QED  BY <1>1, <2>2
  <1>4. end \in Nat
    BY <1>1, Products
  <1> DEFINE a == b - 1
             p == b * Cols
             q == a * Cols
  <1>5. a \in Nat /\ b = a + 1
    BY <1>3
  <1>6. q \in Nat /\ p = q + Cols
    <2>1. Cols \in Nat
      BY <1>1
    <2> HIDE DEF a
    <2>2. (a + 1) * Cols = (a * Cols) + Cols /\ a * Cols \in Nat
      BY <1>5, <2>1, NextMultiple, Zenon
    <2> QED  BY <1>5, <2>2, Zenon
  <1>7. Size = p + n
    BY <1>2, Zenon
  <1> HIDE DEF p, q, end, n, after
  <1>8. end = q + n
    BY <1>1, <1>4, <1>6, <1>7
  <1>9. ASSUME NEW i \in 1 .. n PROVE after[Reading(q + (i - 1))] = text[i]
    <2> DEFINE k == q + (i - 1)
    <2>1. k \in 0 .. Size - 1 /\ k < end /\ k + Cols = p + (i - 1)
      BY <1>1, <1>4, <1>6, <1>7, <1>8
    <2> HIDE DEF k
    <2>2. after[Reading(k)] = screen[Reading(k + Cols)]
      BY <2>1, UpReads, Zenon DEF end, after
    <2> QED  BY <1>2, <2>1, <2>2, Zenon DEF p, k, n
  <1>10. Displays(text, after, end)
    BY <1>5, <1>8, <1>9, Zenon DEF Displays, q, n
  <1> QED  BY <1>10, Zenon DEF after, end

-----------------------------------------------------------------------------
(* What a character does to the screen.                                    *)

ScreenType ==
  /\ buffer \in Buffers /\ shown \in Screens /\ offset \in Offsets
  /\ row \in 0 .. Rows - 1 /\ column \in 0 .. Cols

(* Nothing is written from the cursor on. *)
After(r, c) == r > row \/ (r = row /\ c >= column)
BlankBelow ==
  \A c \in 0 .. Cols - 1, r \in 0 .. Rows - 1 : After(r, c) => shown[<<c, r>>] = Blank

Drawn == ScreenType /\ ScreenShowsBuffer /\ BlankBelow

LEMMA NextRow ==
  ASSUME Drawn
  PROVE  /\ OffsetAfter \in Offsets /\ BufferAfter \in Buffers /\ ShownAfter \in Screens
         /\ ShownAfter = View(BufferAfter, OffsetAfter)
         /\ ShownAfter = IF Scrolls THEN Up(shown) ELSE shown
         /\ RowAfter \in 0 .. Rows - 1
         /\ \A c \in 0 .. Cols - 1, r \in 0 .. Rows - 1 :
              r >= RowAfter => ShownAfter[<<c, r>>] = Blank
  <1>1. /\ buffer \in Buffers /\ shown \in Screens /\ offset \in Offsets
        /\ row \in 0 .. Rows - 1 /\ column \in 0 .. Cols
        /\ shown = View(buffer, offset)
    BY Zenon DEF Drawn, ScreenType, ScreenShowsBuffer
  <1>2. Rows \in Nat \ {0} /\ Cols \in Nat \ {0}
    BY SizeFacts, Zenon
  <1>3. CASE Scrolls
    <2>1. OffsetAfter \in Offsets /\ Cleared \in Buffers
          /\ View(Cleared, OffsetAfter) = Up(View(buffer, offset))
      BY <1>1, <1>3, ViewScrolled, Zenon
    <2>2. BufferAfter = Cleared /\ ShownAfter = View(Cleared, OffsetAfter) /\ RowAfter = row
      BY <1>3, Zenon DEF BufferAfter, ShownAfter, RowAfter
    <2>3. ShownAfter = Up(shown) /\ Up(shown) \in Screens
      BY <1>1, <2>1, <2>2, UpType, Zenon
    <2>4. row = Rows - 1
      BY <1>3, Zenon DEF Scrolls
    <2>5. ASSUME NEW c \in 0 .. Cols - 1, NEW r \in 0 .. Rows - 1, r >= RowAfter
          PROVE  ShownAfter[<<c, r>>] = Blank
      <3>1. r = Rows - 1
        BY <1>2, <2>2, <2>4, <2>5
      <3>2. <<c, r>> \in Cells
        BY DEF Cells
      <3>3. Up(shown)[<<c, r>>] = Blank
        BY <3>1, <3>2 DEF Up
      <3> QED  BY <2>3, <3>3, Zenon
    <2> QED  BY <1>1, <1>3, <2>1, <2>2, <2>3, <2>5, Zenon
  <1>4. CASE ~Scrolls
    <2>1. OffsetAfter = offset /\ BufferAfter = buffer /\ ShownAfter = shown /\ RowAfter = row + 1
      BY <1>4, Zenon DEF OffsetAfter, BufferAfter, ShownAfter, RowAfter
    <2>2. row # Rows - 1
      BY <1>4, Zenon DEF Scrolls
    <2>3. row + 1 \in 0 .. Rows - 1
      BY <1>1, <1>2, <2>2
    <2>4. ASSUME NEW c \in 0 .. Cols - 1, NEW r \in 0 .. Rows - 1, r >= RowAfter
          PROVE  ShownAfter[<<c, r>>] = Blank
      <3>1. r > row
        BY <1>1, <2>1, <2>4
      <3> QED  BY <2>1, <3>1, Zenon DEF Drawn, BlankBelow, After
    <2> QED  BY <1>1, <1>4, <2>1, <2>3, <2>4, Zenon
  <1> QED  BY <1>3, <1>4, Zenon

LEMMA NewLineStep ==
  ASSUME Drawn, AppendNewLine
  PROVE  Drawn' /\ row' = RowAfter /\ column' = 0
  <1>1. buffer' = BufferAfter /\ offset' = OffsetAfter /\ shown' = ShownAfter
        /\ row' = RowAfter /\ column' = 0
    BY Zenon DEF AppendNewLine
  <1>2. 0 \in 0 .. Cols /\ Rows \in Nat /\ Cols \in Nat
    BY SizeFacts
  <1>3. ScreenType'
    BY <1>1, <1>2, NextRow, Zenon DEF ScreenType
  <1>4. ScreenShowsBuffer'
    BY <1>1, NextRow, Zenon DEF ScreenShowsBuffer
  <1>5. BlankBelow'
    <2> SUFFICES ASSUME NEW c \in 0 .. Cols - 1, NEW r \in 0 .. Rows - 1, After(r, c)'
                 PROVE  shown'[<<c, r>>] = Blank
      BY DEF BlankBelow
    <2>1. RowAfter \in 0 .. Rows - 1
      BY NextRow, Zenon
    <2>2. r >= RowAfter
      BY <1>1, <1>2, <2>1 DEF After
    <2> QED  BY <1>1, <2>2, NextRow, Zenon
  <1> QED  BY <1>1, <1>3, <1>4, <1>5, Zenon DEF Drawn

LEMMA SetCellStep ==
  ASSUME Drawn, NEW cell \in Cells, NEW ch \in Char, SetCell(cell, ch)
  PROVE  /\ shown' = SetAt(shown, cell, ch)
         /\ shown' \in Screens /\ buffer' \in Buffers /\ offset' \in Offsets
         /\ ScreenShowsBuffer'
  <1>1. buffer' = SetAt(buffer, IndexOf(cell, offset), ch) /\ shown' = SetAt(shown, cell, ch)
        /\ offset' = offset
    BY Zenon DEF SetCell, SetAt
  <1>2. buffer \in Buffers /\ offset \in Offsets /\ shown = View(buffer, offset)
    BY Zenon DEF Drawn, ScreenType, ScreenShowsBuffer
  <1>3. buffer' \in Buffers /\ View(buffer', offset') = SetAt(shown, cell, ch)
    BY <1>1, <1>2, ViewOfSet, Zenon
  <1>4. View(buffer', offset') \in Screens
    BY <1>1, <1>2, <1>3, ViewType, Zenon
  <1> QED  BY <1>1, <1>2, <1>3, <1>4, Zenon DEF ScreenShowsBuffer

LEMMA HereStep ==
  ASSUME Drawn, NEW ch \in Char, AppendHere(ch)
  PROVE  /\ Drawn'
         /\ Cursor \in 0 .. Size - 1 /\ Cursor' = Cursor + 1
         /\ shown' = SetAt(shown, Reading(Cursor), ch)
  <1>1. column < Cols /\ SetCell(<<column, row>>, ch) /\ column' = column + 1 /\ row' = row
    BY Zenon DEF AppendHere
  <1>2. row \in 0 .. Rows - 1 /\ column \in 0 .. Cols /\ shown \in Screens
    BY Zenon DEF Drawn, ScreenType
  <1>3. Rows \in Nat \ {0} /\ Cols \in Nat \ {0}
    BY SizeFacts, Zenon
  <1>4. column \in 0 .. Cols - 1 /\ column + 1 \in 0 .. Cols /\ row \in Nat /\ column \in Nat
    BY <1>1, <1>2, <1>3
  <1> DEFINE cell == <<column, row>>
  <1>5. cell \in Cells
    BY <1>2, <1>4 DEF Cells
  <1>6. /\ shown' = SetAt(shown, cell, ch) /\ shown' \in Screens /\ buffer' \in Buffers
        /\ offset' \in Offsets /\ ScreenShowsBuffer'
    BY <1>1, <1>5, SetCellStep, Zenon
  <1>7. ScreenType'
    BY <1>1, <1>2, <1>4, <1>6, Zenon DEF ScreenType
  <1>8. BlankBelow'
    <2> SUFFICES ASSUME NEW c \in 0 .. Cols - 1, NEW r \in 0 .. Rows - 1, After(r, c)'
                 PROVE  shown'[<<c, r>>] = Blank
      BY DEF BlankBelow
    <2>1. After(r, c) /\ (r # row \/ c # column)
      BY <1>1, <1>3, <1>4 DEF After
    <2>2. <<c, r>> # cell
      BY <2>1
    <2>3. shown[<<c, r>>] = Blank
      BY <2>1, Zenon DEF Drawn, BlankBelow
    <2>4. <<c, r>> \in Cells
      BY DEF Cells
    <2> HIDE DEF cell
    <2> QED  BY <1>2, <1>5, <1>6, <2>2, <2>3, <2>4, Zenon DEF SetAt, Screens
  <1>9. Cursor \in 0 .. Size - 1 /\ Reading(Cursor) = cell
    BY <1>2, <1>4, ReadingOf, Zenon DEF Cursor
  <1>10. Cursor' = Cursor + 1
    <2>1. row * Cols \in Nat
      BY <1>3, <1>4, Products
    <2>2. (row * Cols) + (column + 1) = ((row * Cols) + column) + 1
      <3> DEFINE p == row * Cols
      <3> HIDE DEF p
      <3>1. p \in Nat
        BY <2>1 DEF p
      <3>2. p + (column + 1) = (p + column) + 1
        BY <1>4, <3>1
      <3> QED  BY <3>2 DEF p
    <2> QED  BY <1>1, <2>2, Zenon DEF Cursor
  <1> QED  BY <1>6, <1>7, <1>8, <1>9, <1>10, Zenon DEF Drawn

NextStart == RowAfter * Cols

LEMMA OnNextLineStep ==
  ASSUME Drawn, NEW ch \in Char, AppendOnNextLine(ch)
  PROVE  /\ Drawn'
         /\ NextStart \in 0 .. Size - 1 /\ Cursor' = NextStart + 1
         /\ shown' = SetAt(ShownAfter, Reading(NextStart), ch)
         /\ ~Scrolls => NextStart = Cursor
         /\ Scrolls => Cursor = Size /\ NextStart = (Rows - 1) * Cols
         /\ row' = RowAfter /\ column' = 1
  <1> DEFINE cell == <<0, RowAfter>>
             at == NextStart
  <1>17. at = RowAfter * Cols
    BY Zenon DEF NextStart
  <1>1. /\ column = Cols /\ offset' = OffsetAfter /\ row' = RowAfter /\ column' = 1
        /\ buffer' = SetAt(BufferAfter, IndexOf(cell, OffsetAfter), ch)
        /\ shown' = SetAt(ShownAfter, cell, ch)
    BY Zenon DEF AppendOnNextLine, SetAt
  <1>2. /\ Rows \in Nat \ {0} /\ Cols \in Nat \ {0} /\ Rows - 1 \in Nat
        /\ Size = ((Rows - 1) * Cols) + Cols
    BY SizeFacts, Zenon
  <1>3. row \in 0 .. Rows - 1 /\ 0 \in 0 .. Cols - 1 /\ 1 \in 0 .. Cols /\ row \in Nat
    BY <1>2 DEF Drawn, ScreenType
  <1>4. /\ OffsetAfter \in Offsets /\ BufferAfter \in Buffers /\ ShownAfter \in Screens
        /\ ShownAfter = View(BufferAfter, OffsetAfter) /\ RowAfter \in 0 .. Rows - 1
    BY NextRow, Zenon
  <1>5. cell \in Cells
    BY <1>3, <1>4 DEF Cells
  <1>6. buffer' \in Buffers /\ View(buffer', offset') = shown'
    BY <1>1, <1>4, <1>5, ViewOfSet, Zenon
  <1>7. shown' \in Screens
    BY <1>1, <1>4, <1>6, ViewType, Zenon
  <1>8. ScreenType'
    BY <1>1, <1>3, <1>4, <1>6, <1>7, Zenon DEF ScreenType
  <1>9. ScreenShowsBuffer'
    BY <1>6, Zenon DEF ScreenShowsBuffer
  <1>10. BlankBelow'
    <2> SUFFICES ASSUME NEW c \in 0 .. Cols - 1, NEW r \in 0 .. Rows - 1, After(r, c)'
                 PROVE  shown'[<<c, r>>] = Blank
      BY DEF BlankBelow
    <2>1. r >= RowAfter /\ (r # RowAfter \/ c # 0)
      BY <1>1, <1>2, <1>4 DEF After
    <2>2. <<c, r>> # cell
      BY <2>1
    <2>3. ShownAfter[<<c, r>>] = Blank
      BY <2>1, NextRow, Zenon
    <2>4. <<c, r>> \in Cells
      BY DEF Cells
    <2> HIDE DEF cell
    <2> QED  BY <1>1, <1>4, <1>5, <2>2, <2>3, <2>4, Zenon DEF SetAt, Screens
  <1>11. RowAfter * Cols \in Nat
    BY <1>2, <1>4, Products
  <1>12. at \in Nat /\ (RowAfter * Cols) + 0 = at
    BY <1>11, <1>17
  <1>13. at \in 0 .. Size - 1 /\ Reading(at) = cell
    BY <1>3, <1>4, <1>12, ReadingOf, Zenon
  <1>14. Cursor' = at + 1
    BY <1>1, <1>17, Zenon DEF Cursor
  <1>15. ASSUME ~Scrolls PROVE at = Cursor
    <2>1. RowAfter = row + 1
      BY <1>15, Zenon DEF RowAfter
    <2>2. (row + 1) * Cols = (row * Cols) + Cols
      BY <1>2, <1>3, NextMultiple
    <2> QED  BY <1>1, <1>17, <2>1, <2>2, Zenon DEF Cursor
  <1>16. ASSUME Scrolls PROVE Cursor = Size /\ at = (Rows - 1) * Cols
    <2>1. RowAfter = row /\ row = Rows - 1
      BY <1>16, Zenon DEF RowAfter, Scrolls
    <2> QED  BY <1>1, <1>2, <1>17, <2>1, Zenon DEF Cursor
  <1> QED  BY <1>1, <1>8, <1>9, <1>10, <1>13, <1>14, <1>15, <1>16, Zenon DEF Drawn

LEMMA BackspaceStep ==
  ASSUME Drawn, AppendBackspace
  PROVE  /\ Drawn'
         /\ Cursor >= 1 => /\ Cursor' = Cursor - 1
                           /\ shown' = SetAt(shown, Reading(Cursor - 1), Blank)
  <1> DEFINE up == column = 0 /\ row > 0
             cell == IF up THEN <<Cols - 1, row - 1>>
                     ELSE IF column > 0 THEN <<column - 1, row>> ELSE <<0, row>>
  <1>1. column' = cell[1] /\ row' = cell[2] /\ SetCell(cell, Blank)
    BY Zenon DEF AppendBackspace
  <1>2. row \in 0 .. Rows - 1 /\ column \in 0 .. Cols /\ shown \in Screens
    BY Zenon DEF Drawn, ScreenType
  <1>3. Rows \in Nat \ {0} /\ Cols \in Nat \ {0}
    BY SizeFacts, Zenon
  <1>4. row \in Nat /\ column \in Nat /\ Blank \in Char
    BY <1>2, <1>3 DEF Char
  <1>5. PICK c \in 0 .. Cols - 1, r \in 0 .. Rows - 1 :
           /\ cell = <<c, r>>
           /\ up => c = Cols - 1 /\ r = row - 1
           /\ column > 0 => c = column - 1 /\ r = row
           /\ column = 0 /\ row = 0 => c = 0 /\ r = 0
    <2>1. CASE up
      <3>1. Cols - 1 \in 0 .. Cols - 1 /\ row - 1 \in 0 .. Rows - 1
        BY <1>2, <1>3, <1>4, <2>1
      <3>2. ~(column > 0) /\ row # 0 /\ cell = <<Cols - 1, row - 1>>
        BY <1>4, <2>1
      <3> HIDE DEF cell
      <3> QED  BY <3>1, <3>2, Zenon
    <2>2. CASE column > 0
      <3>1. column - 1 \in 0 .. Cols - 1 /\ ~up /\ column # 0
        BY <1>2, <1>3, <1>4, <2>2
      <3>2. cell = <<column - 1, row>>
        BY <2>2, <3>1, Zenon
      <3> HIDE DEF cell, up
      <3> QED  BY <1>2, <3>1, <3>2, Zenon
    <2>3. CASE column = 0 /\ row = 0
      <3>1. 0 \in 0 .. Cols - 1 /\ ~up /\ ~(column > 0)
        BY <1>3, <2>3
      <3>2. cell = <<0, row>>
        BY <3>1, Zenon
      <3> HIDE DEF cell, up
      <3> QED  BY <1>2, <2>3, <3>1, <3>2, Zenon
    <2>4. up \/ column > 0 \/ (column = 0 /\ row = 0)
      BY <1>4
    <2> QED  BY <2>1, <2>2, <2>3, <2>4, Zenon
  <1>6. cell \in Cells
    <2> HIDE DEF cell
    <2> QED  BY <1>5 DEF Cells
  <1> HIDE DEF cell
  <1>7. column' = c /\ row' = r
    BY <1>1, <1>5
  <1>8. /\ shown' = SetAt(shown, cell, Blank) /\ shown' \in Screens /\ buffer' \in Buffers
        /\ offset' \in Offsets /\ ScreenShowsBuffer'
    BY <1>1, <1>4, <1>6, SetCellStep, Zenon
  <1>9. ScreenType'
    <2>1. c \in 0 .. Cols
      BY <1>3
    <2> QED  BY <1>7, <1>8, <2>1, Zenon DEF ScreenType
  <1>10. BlankBelow'
    <2> SUFFICES ASSUME NEW d \in 0 .. Cols - 1, NEW s \in 0 .. Rows - 1, After(s, d)'
                 PROVE  shown'[<<d, s>>] = Blank
      BY DEF BlankBelow
    <2>1. s > r \/ (s = r /\ d >= c)
      BY <1>7, Zenon DEF After
    <2>2. After(s, d) \/ (d = c /\ s = r)
      <3>1. CASE up
        BY <1>3, <1>4, <1>5, <2>1, <3>1 DEF After
      <3>2. CASE column > 0
        BY <1>3, <1>4, <1>5, <2>1, <3>2 DEF After
      <3>3. CASE column = 0 /\ row = 0
        BY <1>3, <1>4, <1>5, <2>1, <3>3 DEF After
      <3>4. up \/ column > 0 \/ (column = 0 /\ row = 0)
        BY <1>4
      <3> QED  BY <3>1, <3>2, <3>3, <3>4, Zenon
    <2>3. <<d, s>> \in Cells
      BY DEF Cells
    <2>4. CASE <<d, s>> = cell
      BY <1>2, <1>6, <1>8, <2>4, Zenon DEF SetAt, Screens
    <2>5. CASE <<d, s>> # cell
      <3>1. After(s, d)
        BY <1>5, <2>2, <2>5, Zenon
      <3>2. shown[<<d, s>>] = Blank
        BY <3>1, Zenon DEF Drawn, BlankBelow
      <3> QED  BY <1>2, <1>6, <1>8, <2>3, <2>5, <3>2, Zenon DEF SetAt, Screens
    <2> QED  BY <2>4, <2>5, Zenon
  <1>11. ASSUME Cursor >= 1 PROVE Cursor' = Cursor - 1 /\ Reading(Cursor - 1) = cell
    <2>1. (r * Cols) + c = Cursor - 1
      <3>1. CASE up
        <4>1. r \in Nat /\ row = r + 1 /\ c = Cols - 1 /\ column = 0
          BY <1>4, <1>5, <3>1
        <4>2. (r + 1) * Cols = (r * Cols) + Cols /\ r * Cols \in Nat
          BY <1>3, <4>1, NextMultiple
        <4> DEFINE p == r * Cols
        <4> HIDE DEF p
        <4>3. Cursor = (p + Cols) + 0 /\ p \in Nat
          BY <4>1, <4>2, Zenon DEF Cursor, p
        <4>4. p + c = Cursor - 1
          BY <1>3, <4>1, <4>3
        <4> QED  BY <4>4 DEF p
      <3>2. CASE column > 0
        <4>1. r = row /\ c = column - 1
          BY <1>5, <3>2, Zenon
        <4>2. row * Cols \in Nat
          BY <1>3, <1>4, Products
        <4> DEFINE p == row * Cols
        <4> HIDE DEF p
        <4>3. p \in Nat /\ Cursor = p + column
          BY <4>2 DEF p, Cursor
        <4>4. p + c = Cursor - 1
          BY <1>4, <4>1, <4>3
        <4> QED  BY <4>1, <4>4 DEF p
      <3>3. CASE column = 0 /\ row = 0
        <4>1. 0 * Cols = 0
          BY <1>3
        <4>2. Cursor = 0 + 0
          BY <3>3, <4>1, Zenon DEF Cursor
        <4> QED  BY <1>11, <4>2
      <3>4. up \/ column > 0 \/ (column = 0 /\ row = 0)
        BY <1>4
      <3> QED  BY <3>1, <3>2, <3>3, <3>4, Zenon
    <2>2. Reading((r * Cols) + c) = <<c, r>>
      BY ReadingOf, Zenon
    <2> QED  BY <1>5, <1>7, <2>1, <2>2, Zenon DEF Cursor
  <1> QED  BY <1>8, <1>9, <1>10, <1>11, Zenon DEF Drawn

-----------------------------------------------------------------------------
(* The inductive invariant: either an answer is being written, which ends  *)
(* in a new line, with the prompt behind it; or a part w of the prompt and *)
(* the keys is written and displayed, and the rest is to come.             *)

LineShown(w) == ~Seen(w).lost => Displays(Seen(w).text, shown, Cursor)

Answers == {a \in Seq(Replies \cup {NewLine}) : a # <<>> /\ Last(a) = NewLine}

Answering == \E a \in Answers : output = a \o Prompt /\ input = <<>>
Echoing == \E w \in Seq(Keys) : w \o output = Prompt \o input /\ LineShown(w)

IInv == TypeOK /\ Drawn /\ (Answering \/ Echoing \/ halted)

LEMMA CharacterFacts ==
  /\ NewLine \notin Keys /\ Backspace \in Keys
  /\ Prompt \in Seq(Replies) /\ Prompt \in Seq(Keys)
  /\ Letters \subseteq Keys /\ Replies \subseteq Keys
  /\ Unknown \in Answers /\ \A line \in DOMAIN Greetings : Greetings[line] \in Answers
  <1>1. /\ NewLine \notin Letters /\ NewLine \notin Replies /\ Backspace # NewLine
        /\ Prompt \in Seq(Replies)
    BY TerminalAssumption
  <1>2. Letters \subseteq Keys /\ Replies \subseteq Keys /\ Backspace \in Keys
    BY Zenon DEF Keys, Characters
  <1>3. NewLine \notin Keys
    BY <1>1, Zenon DEF Keys, Characters
  <1>4. Prompt \in Seq(Keys)
    BY <1>1, <1>2, SeqMonotonic, Zenon
  <1>5. \A text \in {Greetings[line] : line \in DOMAIN Greetings} \cup {Unknown} : text \in Answers
    BY TerminalAssumption, Zenon DEF Answers
  <1> QED  BY <1>1, <1>2, <1>3, <1>4, <1>5, Zenon

LEMMA CursorType ==
  ASSUME Drawn
  PROVE  Cursor \in 0 .. Size
  <1>1. row \in 0 .. Rows - 1 /\ column \in 0 .. Cols
    BY Zenon DEF Drawn, ScreenType
  <1>2. Rows \in Nat /\ Cols \in Nat /\ Rows - 1 \in Nat /\ Size = ((Rows - 1) * Cols) + Cols
    BY SizeFacts
  <1>3. row \in Nat /\ row <= Rows - 1 /\ column \in Nat /\ column <= Cols
    BY <1>1, <1>2
  <1> DEFINE p == row * Cols
             q == (Rows - 1) * Cols
  <1>4. p \in Nat /\ q \in Nat /\ p <= q
    BY <1>2, <1>3, Products
  <1> HIDE DEF p, q
  <1>5. p + column \in 0 .. q + Cols
    BY <1>2, <1>3, <1>4
  <1> QED  BY <1>2, <1>5, Zenon DEF Cursor, p, q

(* The character ch is put, in one of the ways there are. *)
IsPut(ch) ==
  \/ ch = NewLine /\ AppendNewLine
  \/ ch = Backspace /\ ch # NewLine /\ AppendBackspace
  \/ ch \in Characters /\ ch \notin {NewLine, Backspace} /\ (AppendHere(ch) \/ AppendOnNextLine(ch))

LEMMA PutIs ==
  ASSUME TypeOK, Put
  PROVE  /\ IsPut(Head(output))
         /\ output # <<>> /\ output' = Tail(output)
         /\ output' \in Seq(Characters \cup {NewLine, Backspace})
         /\ ~halted /\ UNCHANGED <<input, program, halted>>
  <1> DEFINE ch == Head(output)
  <1>1. /\ ~halted /\ output # <<>> /\ output' = Tail(output)
        /\ CASE ch = NewLine -> AppendNewLine
             [] ch = Backspace -> AppendBackspace
             [] OTHER -> AppendHere(ch) \/ AppendOnNextLine(ch)
        /\ UNCHANGED <<input, program, halted>>
    BY DEF Put
  <1>2. output \in Seq(Characters \cup {NewLine, Backspace})
    BY Zenon DEF TypeOK
  <1>3. ch \in Characters \cup {NewLine, Backspace}
        /\ Tail(output) \in Seq(Characters \cup {NewLine, Backspace})
    BY <1>1, <1>2, HeadTailProperties, Zenon
  <1>4. Backspace # NewLine
    BY CharacterFacts, Zenon
  <1> HIDE DEF ch
  <1>5. IsPut(ch)
    BY <1>1, <1>3, <1>4 DEF IsPut
  <1> QED  BY <1>1, <1>3, <1>5, Zenon DEF ch

LEMMA PutDraws ==
  ASSUME Drawn, NEW ch, IsPut(ch)
  PROVE  Drawn'
  <1>1. CASE AppendNewLine
    BY <1>1, NewLineStep, Zenon
  <1>2. CASE AppendBackspace
    BY <1>2, BackspaceStep, Zenon
  <1>3. CASE ch \in Characters /\ AppendHere(ch)
    <2>1. ch \in Char
      BY <1>3, Zenon DEF Char
    <2> QED  BY <1>3, <2>1, HereStep, Zenon
  <1>4. CASE ch \in Characters /\ AppendOnNextLine(ch)
    <2>1. ch \in Char
      BY <1>4, Zenon DEF Char
    <2> QED  BY <1>4, <2>1, OnNextLineStep, Zenon
  <1> QED  BY <1>1, <1>2, <1>3, <1>4, Zenon DEF IsPut

LEMMA LineStaysShown ==
  ASSUME Drawn, NEW w \in Seq(Keys), NEW ch \in Keys, LineShown(w), IsPut(ch)
  PROVE  LineShown(Append(w, ch))'
  <1> DEFINE s == Seen(w)
             t == Seen(Append(w, ch))
  <1>1. s \in SeenType /\ t = SeenAfter(s, ch)
    BY SeenOneMore, Zenon
  <1>2. s.text \in Seq(Keys)
    BY <1>1 DEF SeenType
  <1> HIDE DEF s, t
  <1>3. ~s.lost => Displays(s.text, shown, Cursor)
    BY Zenon DEF LineShown, s
  <1> SUFFICES ASSUME ~t.lost PROVE Displays(t.text, shown', Cursor')
    BY Zenon DEF LineShown, t
  <1>4. Cursor \in 0 .. Size /\ shown \in Screens
    BY CursorType, Zenon DEF Drawn, ScreenType
  <1>5. ch # NewLine
    BY CharacterFacts, Zenon
  <1>6. CASE ch = Backspace /\ AppendBackspace
    <2>1. t = [text |-> IF s.text = <<>> THEN <<>> ELSE Front(s.text),
               lost |-> s.lost \/ s.text = <<>>]
      BY <1>1, <1>6, Zenon DEF SeenAfter
    <2>2. ~s.lost /\ s.text # <<>> /\ t.text = Front(s.text)
      BY <2>1
    <2>3. /\ Cursor - 1 \in 0 .. Size - 1
          /\ Displays(Front(s.text), SetAt(shown, Reading(Cursor - 1), Blank), Cursor - 1)
      BY <1>2, <1>3, <1>4, <2>2, DisplaysErased, Zenon
    <2>4. Cursor >= 1
      BY <1>4, <2>3, SizeFacts
    <2>5. Cursor' = Cursor - 1 /\ shown' = SetAt(shown, Reading(Cursor - 1), Blank)
      BY <1>6, <2>4, BackspaceStep, Zenon
    <2> QED  BY <2>2, <2>3, <2>5, Zenon
  <1>7. CASE ch \in Characters /\ ch # Backspace /\ (AppendHere(ch) \/ AppendOnNextLine(ch))
    <2>1. t = [text |-> Append(s.text, ch), lost |-> s.lost \/ Len(s.text) >= Size]
      BY <1>1, <1>7, Zenon DEF SeenAfter
    <2>2. ~s.lost /\ ~(Len(s.text) >= Size) /\ t.text = Append(s.text, ch)
      BY <2>1
    <2>3. ch \in Char /\ Len(s.text) < Size
      <3>1. Len(s.text) \in Nat /\ Size \in Nat
        BY <1>2, SizeFacts
      <3>2. ch \in Char
        BY <1>7, Zenon DEF Char
      <3> QED  BY <2>2, <3>1, <3>2
    <2>4. CASE AppendHere(ch)
      <3>1. /\ Cursor \in 0 .. Size - 1 /\ Cursor' = Cursor + 1
            /\ shown' = SetAt(shown, Reading(Cursor), ch)
        BY <2>3, <2>4, HereStep, Zenon
      <3>2. Displays(Append(s.text, ch), SetAt(shown, Reading(Cursor), ch), Cursor + 1)
        BY <1>2, <1>3, <1>4, <2>2, <3>1, DisplaysAppended, Zenon
      <3> QED  BY <2>2, <3>1, <3>2, Zenon
    <2>5. CASE AppendOnNextLine(ch)
      <3> DEFINE at == NextStart
      <3>1. /\ at \in 0 .. Size - 1 /\ Cursor' = at + 1
            /\ shown' = SetAt(ShownAfter, Reading(at), ch)
            /\ ~Scrolls => at = Cursor
            /\ Scrolls => Cursor = Size /\ at = (Rows - 1) * Cols
        BY <2>3, <2>5, OnNextLineStep, Zenon
      <3>2. ShownAfter \in Screens /\ ShownAfter = IF Scrolls THEN Up(shown) ELSE shown
        BY NextRow, Zenon
      <3>3. Displays(s.text, ShownAfter, at)
        <4>1. CASE ~Scrolls
          BY <1>3, <2>2, <3>1, <3>2, <4>1, Zenon
        <4>2. CASE Scrolls
          <5>1. Displays(s.text, shown, Size)
            BY <1>3, <2>2, <3>1, <4>2, Zenon
          <5>2. Displays(s.text, Up(shown), (Rows - 1) * Cols)
            BY <1>2, <1>4, <2>3, <5>1, DisplaysScrolled, Zenon
          <5> QED  BY <3>1, <3>2, <4>2, <5>2, Zenon
        <4> QED  BY <4>1, <4>2, Zenon
      <3>4. Displays(Append(s.text, ch), SetAt(ShownAfter, Reading(at), ch), at + 1)
        BY <1>2, <3>1, <3>2, <3>3, DisplaysAppended, Zenon
      <3> QED  BY <2>2, <3>1, <3>4, Zenon
    <2> QED  BY <1>7, <2>4, <2>5, Zenon
  <1> QED  BY <1>5, <1>6, <1>7, Zenon DEF IsPut

-----------------------------------------------------------------------------
(* The invariant is kept.                                                  *)

(* The output loses its first character to what was written. *)
LEMMA OneWritten ==
  ASSUME NEW S, NEW w \in Seq(S), NEW out \in Seq(S), out # <<>>
  PROVE  /\ Head(out) \in S /\ Tail(out) \in Seq(S)
         /\ Append(w, Head(out)) \in Seq(S)
         /\ Append(w, Head(out)) \o Tail(out) = w \o out
  <1> DEFINE h == Head(out)
             t == Tail(out)
  <1>1. h \in S /\ t \in Seq(S) /\ out = <<h>> \o t
    BY HeadTailProperties
  <1>2. <<h>> \in Seq(S) /\ Append(w, h) = w \o <<h>>
    BY <1>1
  <1>3. Append(w, h) \in Seq(S)
    BY <1>1
  <1> HIDE DEF h, t
  <1>4. (w \o <<h>>) \o t = w \o (<<h>> \o t)
    BY <1>1, <1>2, ConcatAssociative
  <1> QED  BY <1>1, <1>2, <1>3, <1>4, Zenon DEF h, t

LEMMA TypedKeys ==
  ASSUME TypeOK
  PROVE  input \in Seq(Keys) /\ Prompt \o input \in Seq(Keys)
  <1>1. Letters \cup {Backspace} \subseteq Keys /\ Prompt \in Seq(Keys)
    BY CharacterFacts, Zenon
  <1>2. input \in Seq(Keys)
    BY <1>1, SeqMonotonic, Zenon DEF TypeOK
  <1> QED  BY <1>1, <1>2, ConcatProperties, Zenon

(* While the line is echoed, what is to be written is part of it. *)
LEMMA EchoedKeys ==
  ASSUME TypeOK, NEW w \in Seq(Keys), w \o output = Prompt \o input
  PROVE  output \in Seq(Keys)
  <1> DEFINE both == Prompt \o input
             n == Len(output)
             m == Len(w)
  <1>1. both \in Seq(Keys)
    BY TypedKeys, Zenon
  <1>2. output \in Seq(Characters \cup {NewLine, Backspace})
    BY Zenon DEF TypeOK
  <1>3. /\ m \in Nat /\ n \in Nat /\ Len(w \o output) = m + n
        /\ \A i \in 1 .. n : m + i \in 1 .. m + n /\ (w \o output)[m + i] = output[i]
    <2> DEFINE S == Keys \cup {NewLine}
               z == w \o output
    <2>1. Characters \cup {NewLine, Backspace} = S /\ Keys \subseteq S
      BY DEF Keys
    <2>2. w \in Seq(S) /\ output \in Seq(S)
      BY <1>2, <2>1, SeqMonotonic, Zenon
    <2> HIDE DEF S
    <2>3. m \in Nat /\ n \in Nat
      BY <2>2, LenProperties, Zenon
    <2>4. Joined(z, S, w, m, output, n)
      BY <2>2, ConcatFacts, Zenon
    <2> HIDE DEF m, n, z
    <2>5. Len(z) = m + n /\ \A i \in m + 1 .. m + n : z[i] = output[i - m]
      BY <2>4, Zenon DEF Joined
    <2>6. ASSUME NEW i \in 1 .. n PROVE m + i \in 1 .. m + n /\ z[m + i] = output[i]
      <3>1. m + i \in 1 .. m + n /\ m + i \in m + 1 .. m + n /\ (m + i) - m = i
        BY <2>3
      <3> QED  BY <2>5, <3>1, Zenon
    <2> QED  BY <2>3, <2>5, <2>6, Zenon DEF z
  <1>4. ASSUME NEW i \in 1 .. n PROVE output[i] \in Keys
    <2> HIDE DEF n, m, both
    <2>1. m + i \in 1 .. Len(both) /\ both[m + i] = output[i]
      BY <1>3, Zenon DEF both
    <2> QED  BY <1>1, <2>1, ElementOfSeq, Zenon
  <1>5. output = [i \in 1 .. n |-> output[i]]
    BY <1>2
  <1> QED  BY <1>3, <1>4, <1>5, SMTT(30)

LEMMA InitHolds == Init => IInv
  <1> SUFFICES ASSUME Init PROVE IInv
    OBVIOUS
  <1>1. /\ buffer = [i \in 0 .. Size - 1 |-> Blank] /\ shown = [cell \in Cells |-> Blank]
        /\ offset = 0 /\ row = 0 /\ column = 0
        /\ input = <<>> /\ output = Prompt /\ program = <<>> /\ halted = FALSE
    BY DEF Init
  <1>2. Rows \in Nat \ {0} /\ Cols \in Nat \ {0} /\ MaxLine \in Nat
    BY TerminalAssumption
  <1>3. 0 \in 0 .. Rows - 1 /\ 0 \in 0 .. Cols /\ 0 * Cols = 0
    BY <1>2
  <1>4. offset \in Offsets
    BY <1>1, <1>3, Zenon DEF Offsets
  <1>5. buffer \in Buffers /\ shown \in Screens
    BY <1>1 DEF Buffers, Screens, Char
  <1>6. ScreenType
    BY <1>1, <1>3, <1>4, <1>5, Zenon DEF ScreenType
  <1>7. ScreenShowsBuffer
    <2>1. \A cell \in Cells : buffer[IndexOf(cell, offset)] = Blank
      BY <1>1, <1>4, IndexType, Zenon
    <2> QED  BY <1>1, <2>1, Zenon DEF ScreenShowsBuffer, View
  <1>8. BlankBelow
    BY <1>1 DEF BlankBelow, Cells
  <1>9. Prompt \in Seq(Characters \cup {NewLine, Backspace})
    <2>1. Replies \subseteq Characters \cup {NewLine, Backspace}
      BY Zenon DEF Characters
    <2> QED  BY <2>1, CharacterFacts, SeqMonotonic, Zenon
  <1>10. TypeOK
    <2>1. <<>> \in Seq(Letters \cup {Backspace}) /\ Len(<<>>) <= MaxLine /\ <<>> \in Seq(0 .. 255)
      BY <1>2
    <2>2. halted \in BOOLEAN
      BY <1>1
    <2> QED  BY <1>1, <1>6, <1>9, <2>1, <2>2, Zenon
             DEF TypeOK, ScreenType, Buffers, Screens, Char, Offsets
  <1>11. LineShown(<<>>)
    <2>1. Cursor = 0 * Cols
      BY <1>1, <1>3 DEF Cursor
    <2>2. Displays(<<>>, shown, 0 * Cols)
      BY DisplaysNothing
    <2>3. Seen(<<>>).text = <<>>
      BY SeenNothing DEF NothingSeen
    <2> QED  BY <2>1, <2>2, <2>3, Zenon DEF LineShown
  <1>12. Echoing
    <2>1. <<>> \in Seq(Keys) /\ Prompt \in Seq(Keys)
      BY CharacterFacts
    <2>2. <<>> \o Prompt = Prompt /\ Prompt \o <<>> = Prompt
      BY <2>1, ConcatEmptySeq
    <2> QED  BY <1>1, <1>11, <2>1, <2>2, Zenon DEF Echoing
  <1> QED  BY <1>6, <1>7, <1>8, <1>10, <1>12, Zenon DEF IInv, Drawn

LEMMA PutKeepsType ==
  ASSUME TypeOK, Put, Drawn'
  PROVE  TypeOK'
  BY PutIs, ZenonT(30) DEF TypeOK, Drawn, ScreenType, Buffers, Screens, Char, Offsets

(* The last character of an answer is a new line; the prompt follows it. *)
LEMMA AnswerGoesOn ==
  ASSUME TypeOK, Drawn, Put, Answering
  PROVE  Answering' \/ Echoing'
  <1>1. PICK a \in Answers : output = a \o Prompt /\ input = <<>>
    BY Zenon DEF Answering
  <1> DEFINE S == Replies \cup {NewLine}
             h == Head(a)
             t == Tail(a)
  <1>2. a \in Seq(S) /\ a # <<>> /\ Last(a) = NewLine
    BY Zenon DEF Answers
  <1>3. Prompt \in Seq(S)
    BY CharacterFacts, SeqMonotonic, Zenon
  <1> HIDE DEF S
  <1>4. /\ h \in S /\ t \in Seq(S) /\ a = <<h>> \o t /\ Len(t) = Len(a) - 1 /\ Len(a) \in Nat
        /\ \A i \in 1 .. Len(t) : t[i] = a[i + 1]
    BY <1>2, HeadTailProperties
  <1>5. Head(output) = h /\ Tail(output) = t \o Prompt
    BY <1>1, <1>2, <1>3
  <1>9. a[1] = h
    BY <1>2
  <1>6. IsPut(h) /\ output' = t \o Prompt /\ input' = <<>>
    BY <1>1, <1>5, PutIs, Zenon
  <1> HIDE DEF h, t
  <1>7. CASE t # <<>>
    <2>1. Len(t) # 0 /\ Len(t) \in Nat
      BY <1>4, <1>7, EmptySeq
    <2>2. Last(t) = Last(a)
      <3>1. Len(t) \in 1 .. Len(t) /\ Len(t) + 1 = Len(a)
        BY <1>4, <2>1
      <3>2. t[Len(t)] = a[Len(t) + 1]
        BY <1>4, <3>1, Zenon
      <3> QED  BY <3>1, <3>2, Zenon DEF Last
    <2>3. t \in Answers
      BY <1>2, <1>4, <1>7, <2>2, Zenon DEF Answers, S
    <2>4. Answering'
      BY <1>6, <2>3, Zenon DEF Answering
    <2> QED  BY <2>4, Zenon
  <1>8. CASE t = <<>>
    <2>1. h = NewLine /\ t \o Prompt = Prompt
      <3>1. t \o Prompt = Prompt
        BY <1>3, <1>8, ConcatEmptySeq
      <3>2. Len(a) = 1
        <4>1. Len(t) = 0
          BY <1>8
        <4> QED  BY <1>4, <4>1
      <3> QED  BY <1>2, <1>9, <3>1, <3>2, Zenon DEF Last
    <2>2. AppendNewLine
      <3>1. h \notin Characters /\ h # Backspace
        BY <2>1, CharacterFacts, Zenon DEF Keys
      <3> QED  BY <1>6, <3>1, Zenon DEF IsPut
    <2>3. row' = RowAfter /\ column' = 0
      BY <2>2, NewLineStep, Zenon
    <2>4. RowAfter \in Nat /\ Cols \in Nat
      <3>1. RowAfter \in 0 .. Rows - 1
        BY NextRow, Zenon
      <3> QED  BY <3>1, SizeFacts
    <2>5. Cursor' = RowAfter * Cols
      <3>1. RowAfter * Cols \in Nat
        BY <2>4, Products
      <3> DEFINE p == RowAfter * Cols
      <3>2. p + 0 = p
        BY <3>1
      <3>3. Cursor' = p + 0
        BY <2>3, Zenon DEF Cursor
      <3> QED  BY <3>2, <3>3, Zenon
    <2>6. Displays(<<>>, shown', RowAfter * Cols)
      <3>1. PICK r \in Nat : r = RowAfter
        BY <2>4
      <3>2. PICK screen : screen = shown'
        OBVIOUS
      <3>3. Displays(<<>>, screen, r * Cols)
        BY DisplaysNothing, Zenon
      <3> QED  BY <3>1, <3>2, <3>3, Zenon
    <2>7. LineShown(<<>>)'
      <3>1. Seen(<<>>).text = <<>>
        BY SeenNothing DEF NothingSeen
      <3> QED  BY <2>5, <2>6, <3>1, Zenon DEF LineShown
    <2>8. <<>> \in Seq(Keys) /\ <<>> \o Prompt = Prompt /\ Prompt \o <<>> = Prompt
      BY CharacterFacts, ConcatEmptySeq
    <2>9. Echoing'
      BY <1>6, <2>1, <2>7, <2>8, Zenon DEF Echoing
    <2> QED  BY <2>9, Zenon
  <1> QED  BY <1>7, <1>8

LEMMA EchoGoesOn ==
  ASSUME TypeOK, Drawn, Put, Echoing
  PROVE  Echoing'
  <1>1. PICK w \in Seq(Keys) : w \o output = Prompt \o input /\ LineShown(w)
    BY Zenon DEF Echoing
  <1>2. output \in Seq(Keys)
    BY <1>1, EchoedKeys, Zenon
  <1> DEFINE ch == Head(output)
             more == Append(w, ch)
  <1>3. output # <<>> /\ output' = Tail(output) /\ input' = input /\ IsPut(ch)
    BY PutIs, Zenon
  <1>4. ch \in Keys /\ more \in Seq(Keys) /\ more \o Tail(output) = w \o output
    BY <1>2, <1>3, OneWritten, ZenonT(30)
  <1>5. PICK c \in Keys : c = ch
    BY <1>4, Zenon
  <1>6. LineShown(Append(w, c))'
    BY <1>1, <1>3, <1>5, LineStaysShown, Zenon
  <1>7. Append(w, c) \in Seq(Keys) /\ Append(w, c) \o output' = Prompt \o input'
    BY <1>1, <1>3, <1>4, <1>5, Zenon
  <1> QED  BY <1>6, <1>7, Zenon DEF Echoing

LEMMA PutKeeps ==
  ASSUME IInv, Put
  PROVE  IInv'
  <1>1. TypeOK /\ Drawn /\ (Answering \/ Echoing \/ halted)
    BY Zenon DEF IInv
  <1>2. ~halted
    BY <1>1, PutIs, Zenon
  <1>3. IsPut(Head(output))
    BY <1>1, PutIs, Zenon
  <1>4. Drawn'
    BY <1>1, <1>3, PutDraws, Zenon
  <1>5. TypeOK'
    BY <1>1, <1>4, PutKeepsType, Zenon
  <1>6. Answering' \/ Echoing'
    BY <1>1, <1>2, AnswerGoesOn, EchoGoesOn, Zenon
  <1> QED  BY <1>4, <1>5, <1>6, Zenon DEF IInv

(* What Enter and Type leave alone keeps what is drawn. *)
LEMMA ScreenUnchanged ==
  ASSUME Drawn, UNCHANGED <<buffer, offset, row, column, shown>>
  PROVE  Drawn' /\ Cursor' = Cursor
  BY Zenon DEF Drawn, ScreenType, ScreenShowsBuffer, BlankBelow, After, Cursor

(* Whoever takes a key has nothing to write, so that all is echoed. *)
LEMMA AllEchoed ==
  ASSUME IInv, output = <<>>, ~halted
  PROVE  LineShown(Prompt \o input)
  <1>1. TypeOK /\ Drawn /\ (Answering \/ Echoing)
    BY Zenon DEF IInv
  <1>2. ~Answering
    <2> SUFFICES ASSUME NEW a \in Answers, output = a \o Prompt PROVE FALSE
      BY Zenon DEF Answering
    <2>1. a \in Seq(Replies \cup {NewLine}) /\ a # <<>>
      BY Zenon DEF Answers
    <2>2. Prompt \in Seq(Replies \cup {NewLine})
      BY CharacterFacts, SeqMonotonic, Zenon
    <2> QED  BY <2>1, <2>2
  <1>3. PICK w \in Seq(Keys) : w \o output = Prompt \o input /\ LineShown(w)
    BY <1>1, <1>2, Zenon DEF Echoing
  <1>4. w \o output = w
    BY <1>3, ConcatEmptySeq
  <1> QED  BY <1>3, <1>4, Zenon

LEMMA AnswerBegins ==
  ASSUME NEW text, text = <<>> \/ text \in Answers
  PROVE  /\ <<NewLine>> \o text \in Answers
         /\ (<<NewLine>> \o text) \o Prompt \in Seq(Characters \cup {NewLine, Backspace})
  <1> DEFINE S == Replies \cup {NewLine}
             K == Characters \cup {NewLine, Backspace}
             a == <<NewLine>> \o text
  <1>1. S \subseteq K /\ NewLine \in S
    BY Zenon DEF Characters
  <1>2. text \in Seq(S) /\ (text = <<>> \/ Last(text) = NewLine)
    BY Zenon, EmptySeq DEF Answers
  <1>3. Prompt \in Seq(S)
    BY CharacterFacts, SeqMonotonic, Zenon
  <1> HIDE DEF S, K
  <1>4. a \in Seq(S) /\ a # <<>> /\ Len(a) = Len(text) + 1
        /\ \A i \in 1 .. Len(text) : a[i + 1] = text[i]
    BY <1>1, <1>2
  <1>5. a[1] = NewLine
    BY <1>1, <1>2
  <1> HIDE DEF a
  <1>6. Last(a) = NewLine
    <2>1. CASE text = <<>>
      <3>1. Len(a) = 1
        BY <1>4, <2>1
      <3> QED  BY <1>5, <3>1, Zenon DEF Last
    <2>2. CASE text # <<>>
      <3>1. Len(text) \in 1 .. Len(text)
        BY <1>2, <2>2
      <3> QED  BY <1>2, <1>4, <2>2, <3>1, Zenon DEF Last
    <2> QED  BY <2>1, <2>2
  <1>7. a \o Prompt \in Seq(S)
    BY <1>3, <1>4, ConcatProperties, Zenon
  <1>8. a \o Prompt \in Seq(K)
    BY <1>1, <1>7, SeqMonotonic, Zenon
  <1> QED  BY <1>4, <1>6, <1>8, Zenon DEF Answers, a, S, K

LEMMA EnterKeeps ==
  ASSUME IInv, Enter
  PROVE  IInv'
  <1> DEFINE Answer(text) == output' = <<NewLine>> \o text \o Prompt
             K == Characters \cup {NewLine, Backspace}
  <1>1. TypeOK /\ Drawn
    BY Zenon DEF IInv
  <1>2. HandleInput(input) /\ input' = <<>> /\ UNCHANGED <<buffer, offset, row, column, shown>>
    BY Zenon DEF Enter
  <1>3. Drawn'
    BY <1>1, <1>2, ScreenUnchanged, Zenon
  <1>4. input \in Seq(Letters \cup {Backspace}) /\ program \in Seq(0 .. 255) /\ halted \in BOOLEAN
    BY <1>1, Zenon DEF TypeOK
  <1>5. \/ \E text : (text = <<>> \/ text \in Answers) /\ Answer(text) /\ halted' = halted
        \/ halted' = TRUE /\ output' = <<NewLine>>
    <2>1. ASSUME NEW text, text = <<>> \/ text \in Answers, Answer(text), UNCHANGED halted
          PROVE  \E t : (t = <<>> \/ t \in Answers) /\ Answer(t) /\ halted' = halted
      BY <2>1, Zenon
    <2>2. CASE input \in DOMAIN Greetings /\ Answer(Greetings[input]) /\ UNCHANGED halted
      BY <2>1, <2>2, CharacterFacts, Zenon
    <2>3. CASE Answer(<<>>) /\ UNCHANGED halted
      BY <2>1, <2>3, Zenon
    <2>4. CASE Answer(IF input = <<>> THEN <<>> ELSE Unknown) /\ UNCHANGED halted
      BY <2>1, <2>4, CharacterFacts, Zenon
    <2>5. CASE halted' = TRUE /\ output' = <<NewLine>>
      BY <2>5, Zenon
    <2> HIDE DEF Answer
    <2> QED  BY <1>2, <2>2, <2>3, <2>4, <2>5, Zenon DEF HandleInput, Answer
  <1>6. program' \in Seq(0 .. 255)
    <2>1. CASE Len(input) >= 2 /\ program' = Parsed(SubSeq(input, 3, Len(input)))
      <3> DEFINE L == Letters \cup {Backspace}
                 n == Len(input)
      <3>1. n \in Nat /\ 2 \in 0 .. n /\ 2 + 1 = 3
        BY <1>4, <2>1
      <3> HIDE DEF L, n
      <3>2. RestOf(SubSeq(input, 2 + 1, n), L, input, n, 2)
        BY <1>4, <3>1, SuffixFacts, Zenon DEF L, n
      <3>3. SubSeq(input, 3, n) \in Seq(L)
        BY <3>1, <3>2, Zenon DEF RestOf
      <3>4. Parsed(SubSeq(input, 3, n)) \in Seq(0 .. 255)
        BY <3>3, ParsedType, Zenon
      <3> QED  BY <2>1, <3>4, Zenon DEF n
    <2>2. CASE UNCHANGED program
      BY <1>4, <2>2, Zenon
    <2> QED  BY <1>2, <2>1, <2>2, Zenon DEF HandleInput
  <1>7. <<>> \in Seq(Letters \cup {Backspace}) /\ Len(<<>>) <= MaxLine
    BY TerminalAssumption
  <1>8. CASE \E text : (text = <<>> \/ text \in Answers) /\ Answer(text) /\ halted' = halted
    <2>1. PICK text : (text = <<>> \/ text \in Answers) /\ Answer(text) /\ halted' = halted
      BY <1>8, Zenon
    <2>2. <<NewLine>> \o text \in Answers /\ output' \in Seq(K)
      BY <2>1, AnswerBegins, Zenon
    <2>3. Answering'
      BY <1>2, <2>1, <2>2, Zenon DEF Answering
    <2>4. TypeOK'
      BY <1>2, <1>3, <1>4, <1>6, <1>7, <2>1, <2>2, Zenon
         DEF TypeOK, Drawn, ScreenType, Buffers, Screens, Char, Offsets
    <2> QED  BY <1>3, <2>3, <2>4, Zenon DEF IInv
  <1>9. CASE halted' = TRUE /\ output' = <<NewLine>>
    <2>1. output' \in Seq(K)
      BY <1>9
    <2>2. halted' \in BOOLEAN /\ halted'
      BY <1>9, Zenon
    <2>3. TypeOK'
      BY <1>2, <1>3, <1>4, <1>6, <1>7, <2>1, <2>2, Zenon
         DEF TypeOK, Drawn, ScreenType, Buffers, Screens, Char, Offsets
    <2> QED  BY <1>3, <2>2, <2>3, Zenon DEF IInv
  <1> QED  BY <1>5, <1>8, <1>9, Zenon

LEMMA TypeKeeps ==
  ASSUME IInv, NEW ch \in Letters \cup {Backspace}, Type(ch)
  PROVE  IInv'
  <1> DEFINE K == Characters \cup {NewLine, Backspace}
             w == Prompt \o input
  <1>1. TypeOK /\ Drawn
    BY Zenon DEF IInv
  <1>2. /\ ~halted /\ output = <<>> /\ Len(input) < MaxLine
        /\ input' = Append(input, ch) /\ output' = <<ch>>
        /\ UNCHANGED <<buffer, offset, row, column, shown, program, halted>>
    BY Zenon DEF Type
  <1>3. Drawn' /\ Cursor' = Cursor
    BY <1>1, <1>2, ScreenUnchanged, Zenon
  <1>4. LineShown(w)
    BY <1>2, AllEchoed, Zenon
  <1>5. input \in Seq(Keys) /\ w \in Seq(Keys) /\ Prompt \in Seq(Keys) /\ ch \in Keys
    BY <1>1, TypedKeys, CharacterFacts, Zenon
  <1>6. PICK v \in Seq(Keys) : v = w
    BY <1>5, Zenon
  <1>7. LineShown(v)'
    BY <1>2, <1>3, <1>4, <1>6, Zenon DEF LineShown
  <1>8. v \o output' = Prompt \o input'
    <2>1. Append(input, ch) = input \o <<ch>> /\ <<ch>> \in Seq(Keys)
      BY <1>5
    <2>2. (Prompt \o input) \o <<ch>> = Prompt \o (input \o <<ch>>)
      BY <1>5, <2>1, ConcatAssociative, SMTT(30)
    <2> QED  BY <1>2, <1>6, <2>1, <2>2, Zenon
  <1>9. Echoing'
    BY <1>7, <1>8, Zenon DEF Echoing
  <1>10. input' \in Seq(Letters \cup {Backspace}) /\ Len(input') <= MaxLine
    <2>1. input \in Seq(Letters \cup {Backspace}) /\ MaxLine \in Nat
      BY <1>1, TerminalAssumption, Zenon DEF TypeOK
    <2>2. Len(Append(input, ch)) = Len(input) + 1
          /\ Append(input, ch) \in Seq(Letters \cup {Backspace}) /\ Len(input) \in Nat
      BY <2>1
    <2> QED  BY <1>2, <2>1, <2>2
  <1>11. output' \in Seq(K)
    <2>1. ch \in K
      BY Zenon DEF Characters
    <2> QED  BY <1>2, <2>1
  <1>12. TypeOK'
    BY <1>1, <1>2, <1>3, <1>10, <1>11, Zenon
       DEF TypeOK, Drawn, ScreenType, Buffers, Screens, Char, Offsets
  <1> QED  BY <1>3, <1>9, <1>12, Zenon DEF IInv

LEMMA Unchanged ==
  ASSUME IInv, UNCHANGED vars
  PROVE  IInv'
  <1>1. UNCHANGED <<buffer, offset, row, column, input, output, shown, program, halted>>
    BY Zenon DEF vars
  <1>2. TypeOK' /\ Drawn'
    BY <1>1, ScreenUnchanged, Zenon DEF IInv, TypeOK
  <1>3. Answering' <=> Answering
    BY <1>1, Zenon DEF Answering
  <1>4. Echoing' <=> Echoing
    BY <1>1, Zenon DEF Echoing, LineShown, Cursor
  <1> QED  BY <1>1, <1>2, <1>3, <1>4, Zenon DEF IInv

LEMMA NextKeeps == IInv /\ [Next]_vars => IInv'
  BY PutKeeps, EnterKeeps, TypeKeeps, Unchanged, Zenon DEF Next

(* The inductive invariant holds in every reachable state. *)
THEOREM Invariance == Spec => []IInv
  BY InitHolds, NextKeeps, PTL DEF Spec

(* For every size of the window and every line: the cursor stays in the     *)
(* window or behind a full row, whatever is written, erased and scrolled.  *)
THEOREM TypeCorrect == Spec => []TypeOK
  <1>1. IInv => TypeOK
    BY Zenon DEF IInv
  <1> QED  BY <1>1, Invariance, PTL

(* The screen shows the buffer: what each write and each scroll redraws is *)
(* all that it changes.                                                    *)
THEOREM ScreenFollowsBuffer == Spec => []ScreenShowsBuffer
  <1>1. IInv => ScreenShowsBuffer
    BY Zenon DEF IInv, Drawn
  <1> QED  BY <1>1, Invariance, PTL

(* The user sees the line that is typed, with what was taken back taken    *)
(* away, right before the cursor.                                          *)
THEOREM UserSeesTheLine == Spec => []TypedIsShown
  <1>1. ASSUME IInv PROVE TypedIsShown
    <2> SUFFICES ASSUME output = <<>>, ~halted, ~Line.lost
                 PROVE  /\ Len(Line.text) <= Cursor
                        /\ \A i \in 1 .. Len(Line.text) :
                             shown[Reading(Cursor - Len(Line.text) + i - 1)] = Line.text[i]
      BY Zenon DEF TypedIsShown
    <2> DEFINE text == Line.text
               n == Len(text)
    <2>1. Displays(text, shown, Cursor)
      BY <1>1, AllEchoed, Zenon DEF LineShown, Line
    <2>2. PICK b \in Nat : /\ Cursor = (b * Cols) + n
                           /\ \A i \in 1 .. n : shown[Reading((b * Cols) + (i - 1))] = text[i]
      BY <2>1 DEF Displays
    <2>3. n \in Nat
      <3>1. TypeOK
        BY <1>1, Zenon DEF IInv
      <3>2. Line \in SeenType
        BY <3>1, TypedKeys, SeenOneMore, CharacterFacts, Zenon DEF Line
      <3>3. text \in Seq(Keys)
        BY <3>2 DEF SeenType
      <3> QED  BY <3>3, LenProperties, Zenon
    <2> HIDE DEF n, text
    <2> DEFINE p == b * Cols
    <2>4. p \in Nat
      <3>1. Cols \in Nat
        BY SizeFacts
      <3> QED  BY <3>1, Products
    <2> HIDE DEF p
    <2>5. Cursor = p + n
      BY <2>2, Zenon DEF p
    <2>6. n <= Cursor
      BY <2>3, <2>4, <2>5
    <2>7. ASSUME NEW i \in 1 .. n PROVE shown[Reading(Cursor - n + i - 1)] = text[i]
      <3>1. Cursor - n + i - 1 = p + (i - 1)
        BY <2>3, <2>4, <2>5
      <3> QED  BY <2>2, <3>1, Zenon DEF p
    <2> QED  BY <2>6, <2>7, Zenon DEF n, text
  <1> QED  BY <1>1, Invariance, PTL

-----------------------------------------------------------------------------
(* The ring as lines of text.                                              *)

LineAt(screen, i, n) == [c \in 1 .. n |-> screen[<<c - 1, i - 1>>]]
LinesOf(screen, r, n) == [i \in 1 .. r + 1 |-> LineAt(screen, i, IF i <= r THEN Cols ELSE n)]

LEMMA LineType ==
  ASSUME NEW screen \in Screens, NEW i \in 1 .. Rows, NEW n \in 0 .. Cols
  PROVE  /\ LineAt(screen, i, n) \in Seq(Char) /\ Len(LineAt(screen, i, n)) = n
         /\ \A c \in 1 .. n : <<c - 1, i - 1>> \in Cells
                              /\ LineAt(screen, i, n)[c] = screen[<<c - 1, i - 1>>]
  <1>1. Rows \in Nat /\ Cols \in Nat
    BY SizeFacts, Zenon
  <1>2. ASSUME NEW c \in 1 .. n PROVE <<c - 1, i - 1>> \in Cells
    <2>1. c - 1 \in 0 .. Cols - 1 /\ i - 1 \in 0 .. Rows - 1
      BY <1>1
    <2> QED  BY <2>1 DEF Cells
  <1>3. n \in Nat
    BY <1>1
  <1>4. LineAt(screen, i, n) \in [1 .. n -> Char]
    BY <1>2, Zenon DEF LineAt, Screens
  <1> QED  BY <1>2, <1>3, <1>4 DEF LineAt

Lines == Seq(Char)

LEMMA LinesType ==
  ASSUME NEW screen \in Screens, NEW r \in 0 .. Rows - 1, NEW n \in 0 .. Cols
  PROVE  /\ LinesOf(screen, r, n) \in Seq(Lines) /\ Len(LinesOf(screen, r, n)) = r + 1
         /\ \A i \in 1 .. r : LinesOf(screen, r, n)[i] = LineAt(screen, i, Cols)
         /\ LinesOf(screen, r, n)[r + 1] = LineAt(screen, r + 1, n)
  <1>1. Rows \in Nat /\ Cols \in Nat /\ Cols \in 0 .. Cols
    BY SizeFacts
  <1>2. r + 1 \in Nat /\ r + 1 \in 1 .. r + 1 /\ ~(r + 1 <= r)
    BY <1>1
  <1>3. ASSUME NEW i \in 1 .. r + 1
        PROVE  LineAt(screen, i, IF i <= r THEN Cols ELSE n) \in Lines
    <2>1. i \in 1 .. Rows
      BY <1>1
    <2> QED  BY <1>1, <2>1, LineType, Zenon DEF Lines
  <1>4. LinesOf(screen, r, n) \in [1 .. r + 1 -> Lines]
    BY <1>3, Zenon DEF LinesOf
  <1>5. \A i \in 1 .. r : i \in 1 .. r + 1 /\ i <= r
    BY <1>1
  <1>6. \A i \in 1 .. r : LinesOf(screen, r, n)[i] = LineAt(screen, i, Cols)
    BY <1>5, Zenon DEF LinesOf
  <1>7. LinesOf(screen, r, n)[r + 1] = LineAt(screen, r + 1, n)
    BY <1>2, Zenon DEF LinesOf
  <1> HIDE DEF Lines
  <1>8. LinesOf(screen, r, n) \in Seq(Lines) /\ Len(LinesOf(screen, r, n)) = r + 1
    BY <1>2, <1>4
  <1> QED  BY <1>6, <1>7, <1>8, Zenon

LEMMA LinesAre ==
  ASSUME NEW screen, NEW r \in Nat, NEW n, NEW z \in Seq(Lines), Len(z) = r + 1,
         \A i \in 1 .. r : z[i] = LineAt(screen, i, Cols), z[r + 1] = LineAt(screen, r + 1, n)
  PROVE  z = LinesOf(screen, r, n)
  <1>1. z = [i \in 1 .. r + 1 |-> z[i]]
    BY DEF Lines
  <1>2. ASSUME NEW i \in 1 .. r + 1
        PROVE  z[i] = LineAt(screen, i, IF i <= r THEN Cols ELSE n)
    <2>1. (i <= r /\ i \in 1 .. r) \/ (~(i <= r) /\ i = r + 1)
      OBVIOUS
    <2> QED  BY <2>1, Zenon
  <1> QED  BY <1>1, <1>2, Zenon DEF LinesOf

LEMMA ShownIs ==
  ASSUME Drawn
  PROVE  TextLines = LinesOf(shown, row, column)
  <1>1. row \in 0 .. Rows - 1 /\ column \in 0 .. Cols /\ shown \in Screens
        /\ shown = View(buffer, offset)
    BY Zenon DEF Drawn, ScreenType, ScreenShowsBuffer
  <1>2. Rows \in Nat /\ Cols \in Nat /\ Cols \in 0 .. Cols
    BY SizeFacts
  <1>3. ASSUME NEW i \in 1 .. row + 1, NEW n \in 0 .. Cols
        PROVE  RowOf(i - 1, n) = LineAt(shown, i, n)
    <2>1. i \in 1 .. Rows
      BY <1>1, <1>2
    <2>2. \A c \in 1 .. n : <<c - 1, i - 1>> \in Cells
      BY <1>1, <2>1, LineType, Zenon
    <2>3. \A c \in 1 .. n : CharAt(<<c - 1, i - 1>>) = shown[<<c - 1, i - 1>>]
      BY <1>1, <2>2, Zenon DEF CharAt, View
    <2> QED  BY <2>3, Zenon DEF RowOf, LineAt
  <1>4. \A i \in 1 .. row + 1 : (IF i <= row THEN Cols ELSE column) \in 0 .. Cols
    BY <1>1, <1>2, Zenon
  <1> QED  BY <1>3, <1>4, ZenonT(30) DEF TextLines, LinesOf

(* The operators of TextWindow. *)
LEMMA TextEnds ==
  ASSUME NEW s
  PROVE  Text!Front(s) = Front(s) /\ Text!Last(s) = Last(s)
  BY DEF Text!Front, Front, Text!Last, Last

EndsWith(z, S, text, line) ==
  /\ z \in Seq(S) /\ Len(z) = Len(text)
  /\ \A i \in 1 .. Len(text) - 1 : z[i] = text[i]
  /\ z[Len(text)] = line

LEMMA WithLastIs ==
  ASSUME NEW S, NEW text \in Seq(S), text # <<>>, NEW line \in S
  PROVE  EndsWith(Text!WithLast(text, line), S, text, line)
  <1> DEFINE f == Front(text)
             m == Len(text) - 1
  <1>1. m \in Nat /\ f \in Seq(S) /\ Len(f) = m /\ \A i \in 1 .. m : f[i] = text[i]
    BY FrontFacts, Zenon DEF FirstPart
  <1>2. m + 1 = Len(text)
    <2>1. Len(text) \in Nat
      OBVIOUS
    <2> QED  BY <2>1
  <1> HIDE DEF f, m
  <1>3. /\ Append(f, line) \in Seq(S) /\ Len(Append(f, line)) = m + 1
        /\ Append(f, line)[m + 1] = line
        /\ \A i \in 1 .. m : Append(f, line)[i] = f[i]
    BY <1>1, AppendFacts
  <1> QED  BY <1>1, <1>2, <1>3, TextEnds, ZenonT(30) DEF Text!WithLast, EndsWith, f, m

LEMMA FullIs ==
  ASSUME NEW line \in Seq(Char)
  PROVE  /\ Text!Full(line) \in Seq(Char) /\ Len(Text!Full(line)) = Cols
         /\ \A c \in 1 .. Cols : Text!Full(line)[c] = IF c <= Len(line) THEN line[c] ELSE Blank
  <1>1. Cols \in Nat /\ Len(line) \in Nat
    BY SizeFacts
  <1>2. ASSUME NEW c \in 1 .. Cols PROVE (IF c <= Len(line) THEN line[c] ELSE Blank) \in Char
    <2>1. CASE c <= Len(line)
      <3>1. c \in 1 .. Len(line)
        BY <1>1, <2>1
      <3>2. line[c] \in Char
        BY <3>1, ElementOfSeq, Zenon
      <3> QED  BY <2>1, <3>2, Zenon
    <2>2. CASE ~(c <= Len(line))
      BY <2>2, Zenon DEF Char
    <2> QED  BY <2>1, <2>2
  <1>3. Text!Full(line) \in [1 .. Cols -> Char]
    BY <1>2, Zenon DEF Text!Full
  <1>4. \A c \in 1 .. Cols : Text!Full(line)[c] = IF c <= Len(line) THEN line[c] ELSE Blank
    BY Zenon DEF Text!Full
  <1>5. Text!Full(line) \in Seq(Char) /\ Len(Text!Full(line)) = Cols
    BY <1>1, <1>3
  <1> QED  BY <1>4, <1>5, Zenon

(* The text gets a line, and loses its first one when it has no room. *)
FollowedBy(z, text, m, line) ==
  /\ z \in Seq(Lines)
  /\ m + 1 < Rows =>
       /\ Len(z) = m + 2
       /\ \A i \in 1 .. m : z[i] = text[i]
       /\ z[m + 1] = Text!Full(text[m + 1]) /\ z[m + 2] = line
  /\ m + 1 = Rows =>
       /\ Len(z) = m + 1
       /\ \A i \in 1 .. m - 1 : z[i] = text[i + 1]
       /\ m # 0 => z[m] = Text!Full(text[m + 1])
       /\ z[m + 1] = line

LEMMA NextLineIs ==
  ASSUME NEW text \in Seq(Lines), NEW m \in Nat, Len(text) = m + 1, NEW line \in Lines,
         m + 1 <= Rows
  PROVE  FollowedBy(Text!NextLine(text, line), text, m, line)
  <1> DEFINE full == Text!Full(text[m + 1])
             kept == Text!WithLast(text, full)
             longer == Append(kept, line)
             z == Text!NextLine(text, line)
  <1>1. Rows \in Nat
    BY SizeFacts
  <1>2. text # <<>> /\ text[m + 1] \in Seq(Char) /\ Last(text) = text[m + 1]
    BY DEF Lines, Last
  <1>3. full \in Lines
    BY <1>2, FullIs, Zenon DEF Lines
  <1>4. kept = Append(Front(text), full)
    BY TextEnds, Zenon DEF Text!WithLast
  <1> HIDE DEF full, Lines
  <1>5. /\ kept \in Seq(Lines) /\ Len(kept) = m + 1
        /\ \A i \in 1 .. (m + 1) - 1 : kept[i] = text[i]
        /\ kept[m + 1] = full
    <2>1. EndsWith(kept, Lines, text, full)
      BY <1>2, <1>3, WithLastIs, ZenonT(30)
    <2> QED  BY <2>1, Zenon DEF EndsWith
  <1>6. (m + 1) - 1 = m
    OBVIOUS
  <1>7. z = IF Len(kept \o <<line>>) > Rows THEN Tail(kept \o <<line>>) ELSE kept \o <<line>>
    BY <1>2, <1>4, TextEnds, Zenon DEF Text!NextLine, full
  <1> HIDE DEF kept, z
  <1>8. kept \o <<line>> = longer
    BY <1>5
  <1>9. /\ longer \in Seq(Lines) /\ Len(longer) = (m + 1) + 1 /\ longer[(m + 1) + 1] = line
        /\ \A i \in 1 .. m + 1 : longer[i] = kept[i]
    BY <1>5, AppendFacts
  <1> HIDE DEF longer
  <1>10. CASE m + 1 < Rows
    <2>1. z = longer
      <3>1. ~((m + 1) + 1 > Rows)
        BY <1>1, <1>10
      <3> QED  BY <1>7, <1>8, <1>9, <3>1, Zenon
    <2>2. m + 1 # Rows /\ (m + 1) + 1 = m + 2 /\ m + 1 \in 1 .. m + 1
          /\ \A i \in 1 .. m : i \in 1 .. m + 1
      BY <1>1, <1>10
    <2> QED  BY <1>5, <1>6, <1>9, <2>1, <2>2, Zenon DEF full, z, FollowedBy
  <1>11. CASE m + 1 = Rows
    <2>1. z = Tail(longer)
      <3>1. (m + 1) + 1 > Rows
        BY <1>1, <1>11
      <3> QED  BY <1>7, <1>8, <1>9, <3>1, Zenon
    <2>2. z \in Seq(Lines) /\ Len(z) = m + 1 /\ \A i \in 1 .. m + 1 : z[i] = longer[i + 1]
      <3>1. longer # <<>>
        BY <1>9
      <3> QED  BY <1>9, <2>1, <3>1, HeadTailProperties
    <2>3. ~(m + 1 < Rows) /\ m + 1 \in 1 .. m + 1
      BY <1>1, <1>11
    <2>4. z[m + 1] = line
      BY <1>9, <2>2, <2>3, Zenon
    <2>5. ASSUME NEW i \in 1 .. m - 1 PROVE z[i] = text[i + 1]
      <3>1. i \in 1 .. m + 1 /\ i + 1 \in 1 .. m + 1 /\ i + 1 \in 1 .. m
        OBVIOUS
      <3> QED  BY <1>5, <1>6, <1>9, <2>2, <3>1, Zenon
    <2>6. ASSUME m # 0 PROVE z[m] = full
      <3>1. m \in 1 .. m + 1 /\ m + 1 \in 1 .. m + 1
        BY <2>6
      <3> QED  BY <1>5, <1>9, <2>2, <3>1, Zenon
    <2> QED  BY <2>2, <2>3, <2>4, <2>5, <2>6, Zenon DEF full, z, FollowedBy
  <1>12. m + 1 < Rows \/ m + 1 = Rows
    BY <1>1
  <1> QED  BY <1>10, <1>11, <1>12, Zenon


(* What changes on the screen with one character, as lines. *)
SameAbove(old, screen, r) ==
  \A c \in 0 .. Cols - 1, s \in 0 .. Rows - 1 : s < r => screen[<<c, s>>] = old[<<c, s>>]

LEMMA LastLineShows ==
  ASSUME NEW old \in Screens, NEW screen \in Screens,
         NEW r \in 0 .. Rows - 1, NEW k \in 0 .. Cols, NEW n \in 0 .. Cols,
         SameAbove(old, screen, r)
  PROVE  LinesOf(screen, r, n) = Text!WithLast(LinesOf(old, r, k), LineAt(screen, r + 1, n))
  <1> DEFINE text == LinesOf(old, r, k)
             line == LineAt(screen, r + 1, n)
             z == Text!WithLast(text, line)
  <1>1. Rows \in Nat /\ Cols \in Nat
    BY SizeFacts
  <1>2. r \in Nat /\ r + 1 \in 1 .. Rows /\ (r + 1) - 1 = r
    BY <1>1
  <1>3. /\ text \in Seq(Lines) /\ Len(text) = r + 1
        /\ \A i \in 1 .. r : text[i] = LineAt(old, i, Cols)
    BY LinesType, Zenon
  <1>4. line \in Lines
    BY <1>2, LineType, Zenon DEF Lines
  <1> HIDE DEF text, line, Lines
  <1>5. text # <<>>
    BY <1>2, <1>3
  <1>6. EndsWith(z, Lines, text, line)
    BY <1>3, <1>4, <1>5, WithLastIs, Zenon
  <1> HIDE DEF z
  <1>7. /\ z \in Seq(Lines) /\ Len(z) = r + 1 /\ z[r + 1] = line
        /\ \A i \in 1 .. r : z[i] = text[i]
    BY <1>2, <1>3, <1>6, Zenon DEF EndsWith
  <1>8. ASSUME NEW i \in 1 .. r PROVE z[i] = LineAt(screen, i, Cols)
    <2>1. i - 1 \in 0 .. Rows - 1 /\ i - 1 < r
      BY <1>1, <1>2
    <2>2. \A c \in 1 .. Cols : c - 1 \in 0 .. Cols - 1
      BY <1>1
    <2>3. \A c \in 1 .. Cols : screen[<<c - 1, i - 1>>] = old[<<c - 1, i - 1>>]
      BY <2>1, <2>2, Zenon DEF SameAbove
    <2>4. LineAt(screen, i, Cols) = LineAt(old, i, Cols)
      BY <2>3, ZenonT(20) DEF LineAt
    <2> QED  BY <1>3, <1>7, <2>4, Zenon
  <1> QED  BY <1>2, <1>7, <1>8, LinesAre, ZenonT(30) DEF line, z, text

(* A line that is left is filled with the blanks behind the cursor. *)
LEMMA FullShows ==
  ASSUME Drawn
  PROVE  Text!Full(LineAt(shown, row + 1, column)) = LineAt(shown, row + 1, Cols)
  <1> DEFINE part == LineAt(shown, row + 1, column)
             full == Text!Full(part)
  <1>1. row \in 0 .. Rows - 1 /\ column \in 0 .. Cols /\ shown \in Screens /\ BlankBelow
    BY Zenon DEF Drawn, ScreenType
  <1>2. /\ Rows \in Nat /\ Cols \in Nat /\ row + 1 \in 1 .. Rows /\ (row + 1) - 1 = row
        /\ column \in Nat
    BY <1>1, SizeFacts
  <1>3. /\ part \in Seq(Char) /\ Len(part) = column
        /\ \A c \in 1 .. column : part[c] = shown[<<c - 1, (row + 1) - 1>>]
    BY <1>1, <1>2, LineType, Zenon
  <1> HIDE DEF part
  <1>4. /\ full \in Seq(Char) /\ Len(full) = Cols
        /\ \A c \in 1 .. Cols : full[c] = IF c <= Len(part) THEN part[c] ELSE Blank
    BY <1>3, FullIs, Zenon
  <1> HIDE DEF full
  <1>5. ASSUME NEW c \in 1 .. Cols PROVE full[c] = shown[<<c - 1, (row + 1) - 1>>]
    <2>1. CASE c <= column
      <3>1. c \in 1 .. column
        BY <1>2, <2>1
      <3> QED  BY <1>3, <1>4, <2>1, <3>1, Zenon
    <2>2. CASE ~(c <= column)
      <3>1. c - 1 \in 0 .. Cols - 1 /\ c - 1 >= column
        BY <1>2, <2>2
      <3>2. After(row, c - 1)
        BY <3>1, Zenon DEF After
      <3>3. shown[<<c - 1, row>>] = Blank
        BY <1>1, <3>1, <3>2, Zenon DEF BlankBelow
      <3> QED  BY <1>2, <1>3, <1>4, <2>2, <3>3, Zenon
    <2> QED  BY <2>1, <2>2, Zenon
  <1>6. full = [c \in 1 .. Cols |-> full[c]]
    BY <1>4
  <1>7. full = LineAt(shown, row + 1, Cols)
    BY <1>5, <1>6, Zenon DEF LineAt
  <1> QED  BY <1>7 DEF full, part

LEMMA NextLineShows ==
  ASSUME Drawn, NEW screen \in Screens, NEW n \in 0 .. Cols,
         \A c \in 0 .. Cols - 1, r \in 0 .. Rows - 1 :
           r # RowAfter => screen[<<c, r>>] = ShownAfter[<<c, r>>]
  PROVE  LinesOf(screen, RowAfter, n)
           = Text!NextLine(LinesOf(shown, row, column), LineAt(screen, RowAfter + 1, n))
  <1> DEFINE text == LinesOf(shown, row, column)
             line == LineAt(screen, RowAfter + 1, n)
             full == LineAt(shown, row + 1, Cols)
             z == Text!NextLine(text, line)
  <1>1. row \in 0 .. Rows - 1 /\ column \in 0 .. Cols /\ shown \in Screens
    BY Zenon DEF Drawn, ScreenType
  <1>2. RowAfter \in 0 .. Rows - 1 /\ ShownAfter = IF Scrolls THEN Up(shown) ELSE shown
    BY NextRow, Zenon
  <1>3. Rows \in Nat \ {0} /\ Cols \in Nat
    BY SizeFacts
  <1>4. row \in Nat /\ row + 1 <= Rows /\ RowAfter + 1 \in 1 .. Rows
    BY <1>1, <1>2, <1>3
  <1>5. /\ text \in Seq(Lines) /\ Len(text) = row + 1
        /\ \A i \in 1 .. row : text[i] = LineAt(shown, i, Cols)
        /\ text[row + 1] = LineAt(shown, row + 1, column)
    BY <1>1, LinesType, Zenon
  <1>6. line \in Lines
    BY <1>4, LineType, Zenon DEF Lines
  <1>7. Text!Full(text[row + 1]) = full
    BY <1>5, FullShows, Zenon
  <1>8. \A c \in 1 .. Cols : c - 1 \in 0 .. Cols - 1
    BY <1>3
  <1> HIDE DEF text, line, full, z, Lines
  <1>9. /\ z \in Seq(Lines)
        /\ row + 1 < Rows =>
             /\ Len(z) = row + 2
             /\ \A i \in 1 .. row : z[i] = text[i]
             /\ z[row + 1] = full /\ z[row + 2] = line
        /\ row + 1 = Rows =>
             /\ Len(z) = row + 1
             /\ \A i \in 1 .. row - 1 : z[i] = text[i + 1]
             /\ row # 0 => z[row] = full
             /\ z[row + 1] = line
    <2>1. FollowedBy(z, text, row, line)
      BY <1>4, <1>5, <1>6, NextLineIs, Zenon DEF z
    <2> QED  BY <1>7, <2>1, Zenon DEF FollowedBy
  <1>10. CASE Scrolls
    <2>1. row = Rows - 1 /\ RowAfter = row /\ ShownAfter = Up(shown)
      BY <1>2, <1>10, Zenon DEF Scrolls, RowAfter
    <2>2. row + 1 = Rows
      BY <1>3, <2>1
    <2>3. ASSUME NEW i \in 1 .. row PROVE LineAt(screen, i, Cols) = LineAt(shown, i + 1, Cols)
      <3>1. i - 1 \in 0 .. Rows - 1 /\ i - 1 # RowAfter /\ i - 1 # Rows - 1
            /\ (i - 1) + 1 = (i + 1) - 1
        BY <1>3, <1>4, <2>1
      <3>2. ASSUME NEW c \in 1 .. Cols
            PROVE  screen[<<c - 1, i - 1>>] = shown[<<c - 1, (i + 1) - 1>>]
        <4>1. screen[<<c - 1, i - 1>>] = Up(shown)[<<c - 1, i - 1>>]
          BY <1>8, <2>1, <3>1, Zenon
        <4>2. <<c - 1, i - 1>> \in Cells
          BY <1>8, <3>1 DEF Cells
        <4>3. Up(shown)[<<c - 1, i - 1>>] = shown[<<c - 1, (i - 1) + 1>>]
          BY <3>1, <4>2 DEF Up
        <4> QED  BY <3>1, <4>1, <4>3, ZenonT(30)
      <3> QED  BY <3>2, Zenon DEF LineAt
    <2>4. ASSUME NEW i \in 1 .. row PROVE z[i] = LineAt(screen, i, Cols)
      <3>1. CASE i = row
        <4>1. row # 0
          BY <3>1
        <4> QED  BY <1>9, <2>2, <2>3, <3>1, <4>1, Zenon DEF full
      <3>2. CASE i # row
        <4>1. i \in 1 .. row - 1 /\ i + 1 \in 1 .. row
          BY <1>4, <3>2
        <4> QED  BY <1>5, <1>9, <2>2, <2>3, <4>1, Zenon
      <3> QED  BY <3>1, <3>2, Zenon
    <2>5. Len(z) = RowAfter + 1 /\ z[RowAfter + 1] = line /\ RowAfter \in Nat
      BY <1>4, <1>9, <2>1, <2>2, Zenon
    <2> QED  BY <1>9, <2>1, <2>4, <2>5, LinesAre, ZenonT(30) DEF line, z, text
  <1>11. CASE ~Scrolls
    <2>1. row # Rows - 1 /\ RowAfter = row + 1 /\ ShownAfter = shown
      BY <1>2, <1>11, Zenon DEF Scrolls, RowAfter
    <2>2. row + 1 < Rows /\ (row + 1) + 1 = row + 2 /\ row + 1 \in Nat
      BY <1>3, <1>4, <2>1
    <2>3. ASSUME NEW i \in 1 .. row + 1 PROVE LineAt(screen, i, Cols) = LineAt(shown, i, Cols)
      <3>1. i - 1 \in 0 .. Rows - 1 /\ i - 1 # RowAfter
        BY <1>3, <1>4, <2>1
      <3>2. \A c \in 1 .. Cols : screen[<<c - 1, i - 1>>] = shown[<<c - 1, i - 1>>]
        BY <1>8, <2>1, <3>1, Zenon
      <3> QED  BY <3>2, Zenon DEF LineAt
    <2>4. ASSUME NEW i \in 1 .. row + 1 PROVE z[i] = LineAt(screen, i, Cols)
      <3>1. CASE i = row + 1
        BY <1>9, <2>2, <2>3, <3>1, Zenon DEF full
      <3>2. CASE i # row + 1
        <4>1. i \in 1 .. row
          BY <1>4, <3>2
        <4> QED  BY <1>5, <1>9, <2>2, <2>3, <4>1, Zenon
      <3> QED  BY <3>1, <3>2, Zenon
    <2>5. Len(z) = RowAfter + 1 /\ z[RowAfter + 1] = line
      BY <1>9, <2>1, <2>2, Zenon
    <2> QED  BY <1>9, <2>1, <2>2, <2>4, <2>5, LinesAre, Zenon DEF line, z, text
  <1> QED  BY <1>10, <1>11, Zenon

(* The steps as those of TextWindow. *)
LEMMA TextSteps ==
  /\ Text!Init <=> TextLines = <<<<>>>>
  /\ Text!Break <=> TextLines' = Text!NextLine(TextLines, <<>>)
  /\ Text!Erase <=>
       TextLines' = IF Text!Last(TextLines) # <<>>
                THEN Text!WithLast(TextLines, Text!Front(Text!Last(TextLines)))
                ELSE IF Len(TextLines) = 1 THEN TextLines
                ELSE Text!WithLast(Text!Front(TextLines),
                                   Text!Front(Text!Last(Text!Front(TextLines))))
  /\ \A ch : Text!Write(ch) <=>
       TextLines' = IF Len(Text!Last(TextLines)) = Cols THEN Text!NextLine(TextLines, <<ch>>)
                ELSE Text!WithLast(TextLines, Append(Text!Last(TextLines), ch))
  BY Zenon DEF Text!Init, Text!Break, Text!Erase, Text!Write

LEMMA ShownThen == Drawn' => TextLines' = LinesOf(shown', row', column')
  <1>1. Drawn => TextLines = LinesOf(shown, row, column)
    BY ShownIs
  <1>2. (Drawn => TextLines = LinesOf(shown, row, column))'
    BY <1>1, PTL
  <1> QED  BY <1>2, Zenon

LEMMA EmptyLine ==
  ASSUME NEW screen, NEW i
  PROVE  LineAt(screen, i, 0) = <<>>
  BY DEF LineAt

LEMMA LastShown ==
  ASSUME NEW screen \in Screens, NEW r \in 0 .. Rows - 1, NEW n \in 0 .. Cols
  PROVE  /\ Last(LinesOf(screen, r, n)) = LineAt(screen, r + 1, n)
         /\ Len(LineAt(screen, r + 1, n)) = n
         /\ LineAt(screen, r + 1, n) = <<>> <=> n = 0
  <1>1. r + 1 \in 1 .. Rows /\ n \in Nat
    BY SizeFacts
  <1>2. LineAt(screen, r + 1, n) \in Seq(Char) /\ Len(LineAt(screen, r + 1, n)) = n
    BY <1>1, LineType, Zenon
  <1>3. Last(LinesOf(screen, r, n)) = LineAt(screen, r + 1, n)
    BY LinesType, ZenonT(30) DEF Last
  <1>4. LineAt(screen, r + 1, n) = <<>> <=> n = 0
    BY <1>2, EmptySeq
  <1> QED  BY <1>2, <1>3, <1>4, Zenon

LEMMA LastLine ==
  ASSUME Drawn
  PROVE  /\ Text!Last(TextLines) = LineAt(shown, row + 1, column)
         /\ Len(Text!Last(TextLines)) = column
         /\ Text!Last(TextLines) = <<>> <=> column = 0
  <1>1. row \in 0 .. Rows - 1 /\ column \in 0 .. Cols /\ shown \in Screens
    BY Zenon DEF Drawn, ScreenType
  <1>2. Text!Last(TextLines) = Last(LinesOf(shown, row, column))
    BY ShownIs, TextEnds, Zenon
  <1>3. /\ Last(LinesOf(shown, row, column)) = LineAt(shown, row + 1, column)
        /\ Len(LineAt(shown, row + 1, column)) = column
        /\ LineAt(shown, row + 1, column) = <<>> <=> column = 0
    BY <1>1, LastShown
  <1> QED  BY <1>2, <1>3, Zenon

LEMMA BreakShown ==
  ASSUME Drawn, AppendNewLine
  PROVE  Text!Break
  <1>1. Drawn' /\ row' = RowAfter /\ column' = 0 /\ shown' = ShownAfter
    BY NewLineStep, Zenon DEF AppendNewLine
  <1>2. PICK screen : screen = ShownAfter
    OBVIOUS
  <1>3. screen \in Screens /\ 0 \in 0 .. Cols
    BY <1>2, NextRow, SizeFacts
  <1>4. LinesOf(screen, RowAfter, 0)
          = Text!NextLine(LinesOf(shown, row, column), LineAt(screen, RowAfter + 1, 0))
    BY <1>2, <1>3, NextLineShows, Zenon
  <1>5. TextLines = LinesOf(shown, row, column) /\ TextLines' = LinesOf(shown', row', column')
    BY <1>1, ShownIs, ShownThen, Zenon
  <1>6. TextLines' = Text!NextLine(TextLines, <<>>)
    BY <1>1, <1>2, <1>4, <1>5, EmptyLine, Zenon
  <1> QED  BY <1>6, TextSteps, Zenon

LEMMA WriteOnNextLineShown ==
  ASSUME Drawn, NEW ch \in Char, AppendOnNextLine(ch)
  PROVE  Text!Write(ch)
  <1> DEFINE cell == <<0, RowAfter>>
  <1>1. /\ Drawn' /\ row' = RowAfter /\ column' = 1 /\ column = Cols
        /\ shown' = SetAt(ShownAfter, cell, ch)
    BY OnNextLineStep, Zenon DEF AppendOnNextLine, SetAt
  <1>2. PICK screen : screen = SetAt(ShownAfter, cell, ch)
    OBVIOUS
  <1>3. ShownAfter \in Screens /\ RowAfter \in 0 .. Rows - 1
    BY NextRow, Zenon
  <1>4. 0 \in 0 .. Cols - 1 /\ 1 \in 0 .. Cols /\ (RowAfter + 1) - 1 = RowAfter /\ 1 - 1 = 0
    BY <1>3, SizeFacts
  <1>5. cell \in Cells
    BY <1>3, <1>4, Zenon DEF Cells
  <1>6. screen \in Screens /\ screen[cell] = ch
    BY <1>2, <1>3, <1>5, Zenon DEF SetAt, Screens
  <1>7. ASSUME NEW c \in 0 .. Cols - 1, NEW r \in 0 .. Rows - 1, r # RowAfter
        PROVE  screen[<<c, r>>] = ShownAfter[<<c, r>>]
    <2>1. <<c, r>> \in Cells /\ <<c, r>> # cell
      BY <1>7 DEF Cells
    <2> HIDE DEF cell
    <2> QED  BY <1>2, <1>3, <2>1, Zenon DEF SetAt, Screens
  <1>8. LineAt(screen, RowAfter + 1, 1) = <<ch>>
    <2> DEFINE line == LineAt(screen, RowAfter + 1, 1)
    <2>1. RowAfter + 1 \in 1 .. Rows /\ 1 \in 1 .. 1
      BY <1>3, SizeFacts
    <2>2. line \in Seq(Char) /\ Len(line) = 1 /\ line[1] = screen[<<1 - 1, (RowAfter + 1) - 1>>]
      BY <1>4, <1>6, <2>1, LineType, ZenonT(30)
    <2>3. line[1] = ch
      BY <1>4, <1>6, <2>2, Zenon
    <2> HIDE DEF line
    <2>4. line = <<ch>>
      BY <2>2, <2>3
    <2> QED  BY <2>4 DEF line
  <1>9. LinesOf(screen, RowAfter, 1)
          = Text!NextLine(LinesOf(shown, row, column), LineAt(screen, RowAfter + 1, 1))
    BY <1>4, <1>6, <1>7, NextLineShows, Zenon
  <1>10. TextLines = LinesOf(shown, row, column) /\ TextLines' = LinesOf(shown', row', column')
    BY <1>1, ShownIs, ShownThen, Zenon
  <1>11. TextLines' = Text!NextLine(TextLines, <<ch>>)
    BY <1>1, <1>2, <1>8, <1>9, <1>10, Zenon
  <1>12. Len(Text!Last(TextLines)) = Cols
    BY <1>1, LastLine, Zenon
  <1> QED  BY <1>11, <1>12, TextSteps, Zenon

LEMMA WriteHereShown ==
  ASSUME Drawn, NEW ch \in Char, AppendHere(ch)
  PROVE  Text!Write(ch)
  <1> DEFINE cell == <<column, row>>
             old == LineAt(shown, row + 1, column)
             new == LineAt(shown', row + 1, column + 1)
  <1>1. /\ Drawn' /\ row' = row /\ column' = column + 1 /\ column < Cols
        /\ shown' = SetAt(shown, cell, ch)
    BY HereStep, Zenon DEF AppendHere, SetCell, SetAt
  <1>2. /\ row \in 0 .. Rows - 1 /\ column \in 0 .. Cols /\ shown \in Screens
        /\ shown' \in Screens /\ column + 1 \in 0 .. Cols
    BY <1>1, Zenon DEF Drawn, ScreenType
  <1>3. /\ row + 1 \in 1 .. Rows /\ column \in 0 .. Cols - 1 /\ column \in Nat
        /\ (row + 1) - 1 = row /\ (column + 1) - 1 = column /\ column # Cols
        /\ column + 1 \in 1 .. column + 1
    BY <1>1, <1>2, SizeFacts
  <1>4. cell \in Cells
    BY <1>2, <1>3, Zenon DEF Cells
  <1>5. shown'[cell] = ch /\ \A x \in Cells : x # cell => shown'[x] = shown[x]
    BY <1>1, <1>2, <1>4, Zenon DEF SetAt, Screens
  <1>6. ASSUME NEW c \in 0 .. Cols - 1, NEW s \in 0 .. Rows - 1, s < row
        PROVE  shown'[<<c, s>>] = shown[<<c, s>>]
    <2>1. <<c, s>> \in Cells /\ <<c, s>> # cell
      BY <1>2, <1>6, SizeFacts DEF Cells
    <2> QED  BY <1>5, <2>1, Zenon
  <1>7. PICK screen : screen = shown'
    OBVIOUS
  <1>8. LinesOf(screen, row, column + 1)
          = Text!WithLast(LinesOf(shown, row, column), LineAt(screen, row + 1, column + 1))
    <2>1. SameAbove(shown, screen, row) /\ screen \in Screens
      BY <1>2, <1>6, <1>7, Zenon DEF SameAbove
    <2> QED  BY <1>2, <2>1, LastLineShows
  <1>9. /\ old \in Seq(Char) /\ Len(old) = column
        /\ \A c \in 1 .. column : /\ <<c - 1, (row + 1) - 1>> \in Cells
                                  /\ old[c] = shown[<<c - 1, (row + 1) - 1>>]
    BY <1>2, <1>3, LineType, Zenon
  <1>10. /\ LineAt(screen, row + 1, column + 1) \in Seq(Char)
         /\ Len(LineAt(screen, row + 1, column + 1)) = column + 1
         /\ \A c \in 1 .. column + 1 :
              LineAt(screen, row + 1, column + 1)[c] = screen[<<c - 1, (row + 1) - 1>>]
    BY <1>2, <1>3, <1>7, LineType, ZenonT(30)
  <1> DEFINE long == Append(old, ch)
  <1> HIDE DEF old
  <1>11. /\ long \in Seq(Char) /\ Len(long) = column + 1 /\ long[column + 1] = ch
         /\ \A c \in 1 .. column : long[c] = old[c]
    BY <1>9, AppendFacts
  <1> HIDE DEF long
  <1>12. ASSUME NEW c \in 1 .. column + 1
         PROVE  long[c] = screen[<<c - 1, (row + 1) - 1>>]
    <2>1. CASE c = column + 1
      BY <1>3, <1>5, <1>7, <1>11, <2>1, Zenon
    <2>2. CASE c # column + 1
      <3>1. c \in 1 .. column /\ c - 1 # column
        BY <1>3, <2>2
      <3>2. <<c - 1, (row + 1) - 1>> # cell
        BY <3>1
      <3> QED  BY <1>5, <1>7, <1>9, <1>11, <3>1, <3>2, Zenon
    <2> QED  BY <2>1, <2>2, Zenon
  <1>13. long = [c \in 1 .. column + 1 |-> long[c]]
    BY <1>3, <1>11
  <1>14. long = LineAt(screen, row + 1, column + 1)
    BY <1>12, <1>13, Zenon DEF LineAt
  <1>15. TextLines = LinesOf(shown, row, column) /\ TextLines' = LinesOf(shown', row', column')
    BY <1>1, ShownIs, ShownThen, Zenon
  <1>16. Text!Last(TextLines) = old /\ Len(old) # Cols
    BY <1>3, <1>9, LastLine, Zenon DEF old
  <1>17. TextLines' = Text!WithLast(TextLines, Append(Text!Last(TextLines), ch))
    BY <1>1, <1>7, <1>8, <1>14, <1>15, <1>16, ZenonT(30) DEF long
  <1> QED  BY <1>16, <1>17, TextSteps, ZenonT(30)

LEMMA FrontOfLine ==
  ASSUME NEW old \in Screens, NEW screen, NEW i \in 1 .. Rows, NEW n \in 0 .. Cols, n > 0,
         \A c \in 1 .. n - 1 : screen[<<c - 1, i - 1>>] = old[<<c - 1, i - 1>>]
  PROVE  LineAt(screen, i, n - 1) = Front(LineAt(old, i, n))
  <1> DEFINE line == LineAt(old, i, n)
             f == Front(line)
  <1>1. n \in Nat /\ \A c \in 1 .. n - 1 : c \in 1 .. n
    BY SizeFacts
  <1>2. line \in Seq(Char) /\ Len(line) = n /\ \A c \in 1 .. n : line[c] = old[<<c - 1, i - 1>>]
    BY LineType, Zenon
  <1> HIDE DEF line
  <1>3. line # <<>>
    BY <1>1, <1>2
  <1>4. f \in Seq(Char) /\ Len(f) = n - 1 /\ n - 1 \in Nat
        /\ \A c \in 1 .. n - 1 : f[c] = line[c]
    BY <1>2, <1>3, FrontFacts, Zenon DEF FirstPart
  <1> HIDE DEF f
  <1>5. f = [c \in 1 .. n - 1 |-> f[c]]
    BY <1>4
  <1>6. \A c \in 1 .. n - 1 : f[c] = screen[<<c - 1, i - 1>>]
    BY <1>1, <1>2, <1>4, Zenon
  <1>7. f = LineAt(screen, i, n - 1)
    BY <1>5, <1>6, Zenon DEF LineAt
  <1> QED  BY <1>7 DEF f, line

LEMMA FrontOfLines ==
  ASSUME NEW screen \in Screens, NEW r \in 0 .. Rows - 1, NEW n \in 0 .. Cols, r > 0
  PROVE  Front(LinesOf(screen, r, n)) = LinesOf(screen, r - 1, Cols)
  <1> DEFINE text == LinesOf(screen, r, n)
             f == Front(text)
  <1>1. r \in Nat /\ r - 1 \in Nat /\ (r - 1) + 1 = r /\ (r + 1) - 1 = r
        /\ (\A i \in 1 .. r - 1 : i \in 1 .. r) /\ r \in 1 .. r
    BY SizeFacts
  <1>2. /\ text \in Seq(Lines) /\ Len(text) = r + 1
        /\ \A i \in 1 .. r : text[i] = LineAt(screen, i, Cols)
    BY LinesType, Zenon
  <1> HIDE DEF text, Lines
  <1>3. text # <<>>
    BY <1>1, <1>2
  <1>4. f \in Seq(Lines) /\ Len(f) = r /\ \A i \in 1 .. r : f[i] = text[i]
    BY <1>1, <1>2, <1>3, FrontFacts, Zenon DEF FirstPart
  <1> HIDE DEF f
  <1>5. /\ Len(f) = (r - 1) + 1 /\ f[(r - 1) + 1] = LineAt(screen, (r - 1) + 1, Cols)
        /\ \A i \in 1 .. r - 1 : f[i] = LineAt(screen, i, Cols)
    BY <1>1, <1>2, <1>4, Zenon
  <1> QED  BY <1>1, <1>4, <1>5, LinesAre, Zenon DEF f, text

LEMMA EraseShown ==
  ASSUME Drawn, AppendBackspace
  PROVE  Text!Erase
  <1> DEFINE up == column = 0 /\ row > 0
             cell == IF up THEN <<Cols - 1, row - 1>>
                     ELSE IF column > 0 THEN <<column - 1, row>> ELSE <<0, row>>
  <1>1. /\ Drawn' /\ column' = cell[1] /\ row' = cell[2]
        /\ SetCell(cell, Blank) /\ shown' = SetAt(shown, cell, Blank)
    BY BackspaceStep, Zenon DEF AppendBackspace, SetCell, SetAt
  <1>2. /\ row \in 0 .. Rows - 1 /\ column \in 0 .. Cols /\ shown \in Screens
        /\ shown' \in Screens /\ row' \in 0 .. Rows - 1 /\ column' \in 0 .. Cols
    BY <1>1, Zenon DEF Drawn, ScreenType
  <1>3. row \in Nat /\ column \in Nat /\ Cols \in Nat \ {0} /\ Rows \in Nat
    BY <1>2, SizeFacts
  <1>4. ASSUME NEW x \in Cells, x # cell PROVE shown'[x] = shown[x]
    <2> HIDE DEF cell
    <2> QED  BY <1>1, <1>2, <1>4, Zenon DEF SetAt, Screens
  <1>5. TextLines = LinesOf(shown, row, column) /\ TextLines' = LinesOf(shown', row', column')
    BY <1>1, ShownIs, ShownThen, Zenon
  <1>6. PICK screen : screen = shown'
    OBVIOUS
  <1>7. CASE column > 0
    <2>1. cell = <<column - 1, row>>
      BY <1>7
    <2>2. column' = column - 1 /\ row' = row
      BY <1>1, <2>1
    <2>3. ASSUME NEW c \in 0 .. Cols - 1, NEW s \in 0 .. Rows - 1, s < row
          PROVE  shown'[<<c, s>>] = shown[<<c, s>>]
      <3>1. <<c, s>> \in Cells /\ <<c, s>> # cell
        BY <1>3, <2>1, <2>3 DEF Cells
      <3> QED  BY <1>4, <3>1, Zenon
    <2>4. LinesOf(screen, row, column - 1)
            = Text!WithLast(LinesOf(shown, row, column), LineAt(screen, row + 1, column - 1))
      <3>1. SameAbove(shown, screen, row) /\ screen \in Screens /\ column - 1 \in 0 .. Cols
        BY <1>2, <1>6, <2>2, <2>3, Zenon DEF SameAbove
      <3> QED  BY <1>2, <3>1, LastLineShows
    <2>5. LineAt(screen, row + 1, column - 1) = Front(LineAt(shown, row + 1, column))
      <3>1. ASSUME NEW c \in 1 .. column - 1
            PROVE  screen[<<c - 1, (row + 1) - 1>>] = shown[<<c - 1, (row + 1) - 1>>]
        <4>1. <<c - 1, (row + 1) - 1>> \in Cells /\ <<c - 1, (row + 1) - 1>> # cell
          BY <1>2, <1>3, <2>1 DEF Cells
        <4> QED  BY <1>4, <1>6, <4>1, Zenon
      <3>2. row + 1 \in 1 .. Rows
        BY <1>2, <1>3
      <3> QED  BY <1>2, <1>7, <3>1, <3>2, FrontOfLine, Zenon
    <2>6. Text!Last(TextLines) = LineAt(shown, row + 1, column) /\ Text!Last(TextLines) # <<>>
      <3>1. column # 0
        BY <1>7
      <3> QED  BY <3>1, LastLine, Zenon
    <2>7. TextLines' = Text!WithLast(TextLines, Text!Front(Text!Last(TextLines)))
      BY <1>5, <1>6, <2>2, <2>4, <2>5, <2>6, TextEnds, Zenon
    <2> QED  BY <2>6, <2>7, TextSteps, Zenon
  <1>8. CASE up
    <2> DEFINE r == row - 1
               before == LinesOf(shown, r, Cols)
    <2>1. cell = <<Cols - 1, r>> /\ column = 0
      BY <1>8
    <2>2. column' = Cols - 1 /\ row' = r
      BY <1>1, <2>1
    <2>3. r \in 0 .. Rows - 1 /\ r + 1 = row /\ r \in Nat /\ Cols \in 0 .. Cols /\ Cols > 0
          /\ row + 1 # 1 /\ r + 1 \in 1 .. Rows
      BY <1>2, <1>3, <1>8
    <2>4. ASSUME NEW c \in 0 .. Cols - 1, NEW s \in 0 .. Rows - 1, s < r
          PROVE  shown'[<<c, s>>] = shown[<<c, s>>]
      <3>1. <<c, s>> \in Cells /\ <<c, s>> # cell
        BY <1>3, <2>1, <2>4 DEF Cells
      <3> QED  BY <1>4, <3>1, Zenon
    <2> HIDE DEF r
    <2>5. LinesOf(screen, r, Cols - 1) = Text!WithLast(before, LineAt(screen, r + 1, Cols - 1))
      <3>1. SameAbove(shown, screen, r) /\ screen \in Screens /\ Cols - 1 \in 0 .. Cols
        BY <1>2, <1>6, <2>2, <2>4, Zenon DEF SameAbove
      <3> QED  BY <1>2, <2>3, <3>1, LastLineShows
    <2>6. LineAt(screen, r + 1, Cols - 1) = Front(LineAt(shown, r + 1, Cols))
      <3>1. ASSUME NEW c \in 1 .. Cols - 1
            PROVE  screen[<<c - 1, (r + 1) - 1>>] = shown[<<c - 1, (r + 1) - 1>>]
        <4>1. <<c - 1, (r + 1) - 1>> \in Cells /\ <<c - 1, (r + 1) - 1>> # cell
          BY <1>3, <2>1, <2>3 DEF Cells
        <4> QED  BY <1>4, <1>6, <4>1, Zenon
      <3> QED  BY <1>2, <2>3, <3>1, FrontOfLine, Zenon
    <2>7. Last(before) = LineAt(shown, r + 1, Cols)
      BY <1>2, <2>3, LastShown, ZenonT(30)
    <2>8. Front(TextLines) = before
      BY <1>2, <1>5, <1>8, FrontOfLines, Zenon DEF r
    <2>9. Text!Last(TextLines) = <<>>
      BY <2>1, LastLine, Zenon
    <2>10. Len(TextLines) # 1
      BY <1>2, <1>5, <2>3, LinesType, Zenon
    <2>11. TextLines' = Text!WithLast(Text!Front(TextLines),
                                     Text!Front(Text!Last(Text!Front(TextLines))))
      BY <1>5, <1>6, <2>2, <2>5, <2>6, <2>7, <2>8, TextEnds, Zenon
    <2> QED  BY <2>9, <2>10, <2>11, TextSteps, Zenon
  <1>9. CASE column = 0 /\ row = 0
    <2>1. cell = <<0, row>>
      BY <1>9
    <2>2. column' = column /\ row' = row
      BY <1>1, <1>9, <2>1
    <2>3. LinesOf(screen, 0, 0) = LinesOf(shown, 0, 0)
      <3>1. \A i \in 1 .. 0 + 1 : ~(i <= 0)
        OBVIOUS
      <3> QED  BY <3>1, EmptyLine, Zenon DEF LinesOf
    <2>4. Len(TextLines) = 1
      <3>1. 0 + 1 = 1
        OBVIOUS
      <3>2. Len(LinesOf(shown, row, column)) = row + 1
        BY <1>2, LinesType, Zenon
      <3> QED  BY <1>5, <1>9, <3>1, <3>2, Zenon
    <2>5. Text!Last(TextLines) = <<>>
      BY <1>9, LastLine, Zenon
    <2>6. TextLines' = TextLines
      BY <1>5, <1>6, <1>9, <2>2, <2>3, Zenon
    <2> QED  BY <2>4, <2>5, <2>6, TextSteps, Zenon
  <1>10. column > 0 \/ up \/ (column = 0 /\ row = 0)
    BY <1>3
  <1> QED  BY <1>7, <1>8, <1>9, <1>10, Zenon

LEMMA InitShown == Init => Text!Init
  <1> SUFFICES ASSUME Init PROVE TextLines = <<<<>>>>
    BY TextSteps, Zenon
  <1>1. row = 0 /\ column = 0
    BY Zenon DEF Init
  <1>2. RowOf(1 - 1, 0) = <<>>
    BY DEF RowOf
  <1>3. TextLines = [i \in 1 .. 0 + 1 |-> RowOf(i - 1, IF i <= 0 THEN Cols ELSE 0)]
    BY <1>1, Zenon DEF TextLines
  <1>4. \A i \in 1 .. 0 + 1 : i = 1 /\ ~(i <= 0)
    OBVIOUS
  <1>5. TextLines = [i \in 1 .. 0 + 1 |-> <<>>]
    BY <1>2, <1>3, <1>4, Zenon
  <1> QED  BY <1>5

LEMMA StepShown == IInv /\ [Next]_vars => [Text!Next]_TextLines
  <1> SUFFICES ASSUME IInv, [Next]_vars PROVE Text!Next \/ TextLines' = TextLines
    OBVIOUS
  <1>1. TypeOK /\ Drawn
    BY Zenon DEF IInv
  <1>2. ASSUME UNCHANGED <<buffer, offset, row, column, shown>>
        PROVE  TextLines' = TextLines
    BY <1>2, Zenon DEF TextLines, RowOf, CharAt
  <1>3. CASE Put
    <2> DEFINE ch == Head(output)
    <2>1. IsPut(ch)
      BY <1>1, <1>3, PutIs, Zenon
    <2>2. CASE AppendNewLine
      BY <1>1, <2>2, BreakShown, Zenon DEF Text!Next
    <2>3. CASE AppendBackspace
      BY <1>1, <2>3, EraseShown, Zenon DEF Text!Next
    <2>4. CASE ch \in Characters /\ AppendHere(ch)
      <3>1. ch \in Char
        BY <2>4, Zenon DEF Char
      <3> QED  BY <1>1, <2>4, <3>1, WriteHereShown, Zenon DEF Text!Next
    <2>5. CASE ch \in Characters /\ AppendOnNextLine(ch)
      <3>1. ch \in Char
        BY <2>5, Zenon DEF Char
      <3> QED  BY <1>1, <2>5, <3>1, WriteOnNextLineShown, Zenon DEF Text!Next
    <2> QED  BY <2>1, <2>2, <2>3, <2>4, <2>5, Zenon DEF IsPut
  <1>4. CASE Enter
    BY <1>2, <1>4, Zenon DEF Enter
  <1>5. ASSUME NEW ch \in Letters \cup {Backspace}, Type(ch)
        PROVE  TextLines' = TextLines
    BY <1>2, <1>5, Zenon DEF Type
  <1>6. CASE UNCHANGED vars
    BY <1>2, <1>6, Zenon DEF vars
  <1> QED  BY <1>3, <1>4, <1>5, <1>6, Zenon DEF Next

(* The ring of cells is the last lines of a text for every size of the     *)
(* window: a character goes to the end of the last line, a full row gets a *)
(* line below it, a scroll loses the first line, and an erasure takes the  *)
(* last character back or goes up (terminal/window.cpp).                   *)
THEOREM RefinesTextWindow == Spec => ImplementsTextWindow
  BY InitShown, StepShown, Invariance, PTL DEF Spec, ImplementsTextWindow, Text!Spec

-----------------------------------------------------------------------------
(* Images: a chunk says the color it was made for. *)

(* The difference of two channels leads from the one to the other.         *)
LEMMA DifferenceAdds ==
  ASSUME NEW a \in Byte, NEW b \in Byte
  PROVE  /\ Difference(a, b) \in -128 .. 127
         /\ (b + Difference(a, b)) % 256 = a
  BY DEF Difference, Byte

(* A hash is a place in the table.                                         *)
LEMMA HashInTable ==
  ASSUME NEW c \in ColorType
  PROVE  ColorHash(c) \in 0 .. 63
  <1> DEFINE sum == c.r * 3 + c.g * 5 + c.b * 7 + c.a * 11
  <1>1. c.r \in Nat /\ c.g \in Nat /\ c.b \in Nat /\ c.a \in Nat
    BY DEF ColorType, Byte
  <1>2. sum \in Nat
    BY <1>1
  <1>3. ColorHash(c) = sum % 64
    BY DEF ColorHash
  <1> HIDE DEF sum
  <1> QED  BY <1>2, <1>3

(* The first colors.                                                       *)
LEMMA FirstColors ==
  /\ Black \in ColorType /\ Clear \in ColorType
  /\ ColorHash(Clear) = 0
  BY DEF Black, Clear, Color, ColorType, Byte, ColorHash

(* A color is made of its channels.                                        *)
LEMMA ColorOf ==
  ASSUME NEW c \in ColorType
  PROVE  /\ Color(c.r, c.g, c.b, c.a) = c
         /\ c.r \in Byte /\ c.g \in Byte /\ c.b \in Byte /\ c.a \in Byte
  BY DEF Color, ColorType

(* A table of 64 colors.                                                   *)
Table == [0 .. 63 -> ColorType]

(* What stands for a color, by the kinds of chunks.                        *)
LEMMA EncodingKinds ==
  ASSUME NEW w, NEW c, NEW bytes \in Encodings(w, c)
  PROVE  LET dr == Difference(c.r, w.last.r)
             dg == Difference(c.g, w.last.g)
             db == Difference(c.b, w.last.b)
         IN  \/ bytes = <<255, c.r, c.g, c.b, c.a>>
             \/ c.a = w.last.a /\ bytes = <<254, c.r, c.g, c.b>>
             \/ /\ w.table[ColorHash(c)] = c /\ ~(w.indexed /\ c = w.last)
                /\ bytes = <<ColorHash(c)>>
             \/ /\ c.a = w.last.a /\ dr \in -2 .. 1 /\ dg \in -2 .. 1 /\ db \in -2 .. 1
                /\ bytes = <<64 + (dr + 2) * 16 + (dg + 2) * 4 + db + 2>>
             \/ /\ c.a = w.last.a /\ dg \in -32 .. 31 /\ dr - dg \in -8 .. 7 /\ db - dg \in -8 .. 7
                /\ bytes = <<128 + dg + 32, (dr - dg + 8) * 16 + db - dg + 8>>
  BY DEF Encodings, QOI_OP_RGB, QOI_OP_RGBA

(* The two bits of each of three small differences.                        *)
LEMMA SmallDifferences ==
  ASSUME NEW x \in -2 .. 1, NEW y \in -2 .. 1, NEW z \in -2 .. 1
  PROVE  LET byte == 64 + (x + 2) * 16 + (y + 2) * 4 + z + 2
             no_tag == byte % 64
         IN  /\ byte \in 64 .. 127 /\ byte \div 64 = 1
             /\ ((no_tag \div 16) % 4) - 2 = x
             /\ ((no_tag \div 4) % 4) - 2 = y
             /\ ((no_tag \div 1) % 4) - 2 = z
  OBVIOUS

(* The two bytes of differences to that of green.                          *)
LEMMA LumaDifferences ==
  ASSUME NEW x \in -8 .. 7, NEW y \in -32 .. 31, NEW z \in -8 .. 7
  PROVE  LET byte == 128 + y + 32
             other == (x + 8) * 16 + z + 8
         IN  /\ byte \in 128 .. 191 /\ byte \div 64 = 2 /\ (byte % 64) - 32 = y
             /\ other \in Byte /\ (other \div 16) - 8 = x /\ (other % 16) - 8 = z
  BY DEF Byte

(* What each kind of chunk says.                                           *)
LEMMA RgbaChunk ==
  ASSUME NEW d, d.data[1] = 255
  PROVE  Chunk(d) = [color |-> Color(d.data[2], d.data[3], d.data[4], d.data[5]),
                     size |-> 5, run |-> 0]
  BY DEF Chunk, QOI_OP_RGB, QOI_OP_RGBA

(* Four bytes: a color as opaque as the one before.                        *)
LEMMA RgbChunk ==
  ASSUME NEW d, d.data[1] = 254
  PROVE  Chunk(d) = [color |-> Color(d.data[2], d.data[3], d.data[4], d.last_pixel.a),
                     size |-> 4, run |-> 0]
  BY DEF Chunk, QOI_OP_RGB, QOI_OP_RGBA

(* A small byte: the place of the color in the table.                      *)
LEMMA IndexChunk ==
  ASSUME NEW d, NEW place \in 0 .. 63, d.data[1] = place
  PROVE  Chunk(d) = [color |-> d.prev_pixels[place], size |-> 1, run |-> 0]
  <1>1. place \div 64 = 0
    BY SMT
  <1> QED  BY <1>1 DEF Chunk, QOI_OP_RGB, QOI_OP_RGBA

(* One byte: three small differences to the color before.                  *)
LEMMA DiffChunk ==
  ASSUME NEW d, NEW x \in -2 .. 1, NEW y \in -2 .. 1, NEW z \in -2 .. 1,
         d.data[1] = 64 + (x + 2) * 16 + (y + 2) * 4 + z + 2
  PROVE  Chunk(d) = [color |-> Shifted(d.last_pixel, x, y, z), size |-> 1, run |-> 0]
  <1> DEFINE byte == 64 + (x + 2) * 16 + (y + 2) * 4 + z + 2
             no_tag == byte % 64
  <1>1. /\ byte \in 64 .. 127 /\ byte \div 64 = 1
        /\ ((no_tag \div 16) % 4) - 2 = x
        /\ ((no_tag \div 4) % 4) - 2 = y
        /\ ((no_tag \div 1) % 4) - 2 = z
    BY SmallDifferences
  <1>2. d.data[1] = byte
    OBVIOUS
  <1> HIDE DEF byte
  <1> QED  BY <1>1, <1>2 DEF Chunk, QOI_OP_RGB, QOI_OP_RGBA

(* Two bytes: a difference of green and those of the others to it.         *)
LEMMA LumaChunk ==
  ASSUME NEW d, NEW x \in -8 .. 7, NEW y \in -32 .. 31, NEW z \in -8 .. 7,
         d.data[1] = 128 + y + 32, d.data[2] = (x + 8) * 16 + z + 8
  PROVE  Chunk(d) = [color |-> Shifted(d.last_pixel, y + x, y, y + z), size |-> 2, run |-> 0]
  <1> DEFINE byte == 128 + y + 32
             other == (x + 8) * 16 + z + 8
             luma == (byte % 64) - 32
  <1>1. /\ byte \in 128 .. 191 /\ byte \div 64 = 2 /\ luma = y
        /\ other \in Byte /\ (other \div 16) - 8 = x /\ (other % 16) - 8 = z
    BY LumaDifferences
  <1>2. luma + (other \div 16) - 8 = y + x /\ luma + (other % 16) - 8 = y + z
    BY <1>1 DEF Byte
  <1>3. d.data[1] = byte /\ d.data[2] = other
    OBVIOUS
  <1> HIDE DEF byte, other
  <1> QED  BY <1>1, <1>2, <1>3 DEF Chunk, QOI_OP_RGB, QOI_OP_RGBA

(* One byte: the color before, and how often it comes again.               *)
LEMMA RunChunk ==
  ASSUME NEW d, NEW n \in 1 .. 62, d.data[1] = 192 + n - 1
  PROVE  Chunk(d) = [color |-> d.last_pixel, size |-> 1, run |-> n - 1]
  <1> DEFINE byte == 192 + n - 1
  <1>1. byte \div 64 = 3 /\ byte % 64 = n - 1 /\ byte \in 192 .. 253
    BY SMT
  <1>2. d.data[1] = byte
    OBVIOUS
  <1> HIDE DEF byte
  <1> QED  BY <1>1, <1>2 DEF Chunk, QOI_OP_RGB, QOI_OP_RGBA

(* A shift by the differences to a color leads to that color.              *)
LEMMA ShiftedTo ==
  ASSUME NEW c \in ColorType, NEW last \in ColorType, c.a = last.a
  PROVE  Shifted(last, Difference(c.r, last.r), Difference(c.g, last.g), Difference(c.b, last.b)) = c
  BY ColorOf, DifferenceAdds DEF Shifted

(* The decoder has of the table what an index may be used for: a run puts  *)
(* its color into the one of the decoder only.                             *)
Knows(table, known) ==
  \A i \in 0 .. 63 : table[i] = known[i] \/ ColorHash(known[i]) # i

(* What may follow in a file.                                              *)
Data == Seq(Byte)

(* The decoder reads from a chunk what it was made for, and what follows.  *)
LEMMA ChunkSays ==
  ASSUME NEW d, NEW w, NEW c \in ColorType, NEW bytes \in Encodings(w, c), NEW rest \in Data,
         w.last \in ColorType, w.table \in Table,
         d.data = bytes \o rest, d.last_pixel = w.last, Knows(d.prev_pixels, w.table)
  PROVE  /\ bytes \in Data /\ Len(bytes) \in 1 .. 5
         /\ Chunk(d) = [color |-> c, size |-> Len(bytes), run |-> 0]
         /\ bytes[1] = 0 => /\ Len(bytes) = 1 /\ ColorHash(c) = 0
                            /\ w.table[0] = c /\ ~(w.indexed /\ c = w.last)
  <1> DEFINE last == w.last
             dr == Difference(c.r, last.r)
             dg == Difference(c.g, last.g)
             db == Difference(c.b, last.b)
             Goal == /\ bytes \in Data /\ Len(bytes) \in 1 .. 5
                     /\ Chunk(d) = [color |-> c, size |-> Len(bytes), run |-> 0]
                     /\ bytes[1] = 0 => /\ Len(bytes) = 1 /\ ColorHash(c) = 0
                                        /\ w.table[0] = c /\ ~(w.indexed /\ c = w.last)
  <1>1. /\ c.r \in Byte /\ c.g \in Byte /\ c.b \in Byte /\ c.a \in Byte
        /\ last.r \in Byte /\ last.g \in Byte /\ last.b \in Byte
        /\ Color(c.r, c.g, c.b, c.a) = c
    BY ColorOf
  <1>2. dr \in -128 .. 127 /\ dg \in -128 .. 127 /\ db \in -128 .. 127
    <2>1. dr \in -128 .. 127
      BY <1>1, DifferenceAdds, Zenon
    <2>2. dg \in -128 .. 127
      BY <1>1, DifferenceAdds, Zenon
    <2>3. db \in -128 .. 127
      BY <1>1, DifferenceAdds, Zenon
    <2> QED  BY <2>1, <2>2, <2>3
  <1>3. c.a = last.a => Shifted(last, dr, dg, db) = c
    BY ShiftedTo
  <1>4. ASSUME NEW b \in Data, bytes = b
        PROVE  \A i \in 1 .. Len(b) : d.data[i] = bytes[i]
    BY <1>4, ConcatFacts DEF Joined, Data
  <1> HIDE DEF dr, dg, db
  <1>5. CASE bytes = <<255, c.r, c.g, c.b, c.a>>
    <2>1. bytes \in Data /\ Len(bytes) = 5
      BY <1>1, <1>5 DEF Data, Byte
    <2>2. d.data[1] = 255 /\ d.data[2] = c.r /\ d.data[3] = c.g /\ d.data[4] = c.b /\ d.data[5] = c.a
      BY <1>4, <1>5, <2>1
    <2>3. Chunk(d) = [color |-> Color(d.data[2], d.data[3], d.data[4], d.data[5]),
                      size |-> 5, run |-> 0]
      BY <2>2, RgbaChunk
    <2>4. Chunk(d) = [color |-> c, size |-> 5, run |-> 0]
      BY <1>1, <2>2, <2>3
    <2> QED  BY <1>5, <2>1, <2>4
  <1>6. CASE c.a = last.a /\ bytes = <<254, c.r, c.g, c.b>>
    <2>1. bytes \in Data /\ Len(bytes) = 4
      BY <1>1, <1>6 DEF Data, Byte
    <2>2. d.data[1] = 254 /\ d.data[2] = c.r /\ d.data[3] = c.g /\ d.data[4] = c.b
      BY <1>4, <1>6, <2>1
    <2>3. Chunk(d) = [color |-> c, size |-> 4, run |-> 0]
      BY <1>1, <1>6, <2>2, RgbChunk
    <2> QED  BY <1>6, <2>1, <2>3
  <1>7. CASE w.table[ColorHash(c)] = c /\ ~(w.indexed /\ c = last)
             /\ bytes = <<ColorHash(c)>>
    <2>1. ColorHash(c) \in 0 .. 63
      BY HashInTable
    <2>2. bytes \in Data /\ Len(bytes) = 1
      BY <1>7, <2>1 DEF Data, Byte
    <2>3. d.data[1] = ColorHash(c)
      BY <1>4, <1>7, <2>2
    <2>4. d.prev_pixels[ColorHash(c)] = c
      BY <1>7, <2>1 DEF Knows
    <2>5. Chunk(d) = [color |-> c, size |-> 1, run |-> 0]
      BY <2>1, <2>3, <2>4, IndexChunk
    <2> QED  BY <1>7, <2>1, <2>2, <2>5
  <1>8. CASE /\ c.a = last.a /\ dr \in -2 .. 1 /\ dg \in -2 .. 1 /\ db \in -2 .. 1
             /\ bytes = <<64 + (dr + 2) * 16 + (dg + 2) * 4 + db + 2>>
    <2>1. bytes \in Data /\ Len(bytes) = 1
      <3> DEFINE b == 64 + (dr + 2) * 16 + (dg + 2) * 4 + db + 2
      <3>1. b \in Byte
        BY <1>8 DEF Byte
      <3> HIDE DEF b
      <3>2. <<b>> \in Data /\ Len(<<b>>) = 1
        BY <3>1 DEF Data
      <3>3. bytes = <<b>>
        BY <1>8, Zenon DEF b
      <3> QED  BY <3>2, <3>3, Zenon
    <2>2. d.data[1] = 64 + (dr + 2) * 16 + (dg + 2) * 4 + db + 2
      BY <1>4, <1>8, <2>1
    <2>3. Chunk(d) = [color |-> Shifted(last, dr, dg, db), size |-> 1, run |-> 0]
      BY <1>8, <2>2, DiffChunk
    <2>4. bytes[1] # 0
      BY <1>8
    <2> QED  BY <1>3, <1>8, <2>1, <2>3, <2>4
  <1>9. CASE /\ c.a = last.a /\ dg \in -32 .. 31 /\ dr - dg \in -8 .. 7 /\ db - dg \in -8 .. 7
             /\ bytes = <<128 + dg + 32, (dr - dg + 8) * 16 + db - dg + 8>>
    <2> DEFINE x == dr - dg
               z == db - dg
               other == (x + 8) * 16 + z + 8
    <2>1. x \in -8 .. 7 /\ dg \in -32 .. 31 /\ z \in -8 .. 7
      BY <1>9
    <2>2. dg + x = dr /\ dg + z = db /\ other = (dr - dg + 8) * 16 + db - dg + 8
      <3>1. dr \in Int /\ dg \in Int /\ db \in Int
        BY <1>2
      <3> QED  BY <3>1
    <2> HIDE DEF x, z
    <2>3. other \in Byte /\ 128 + dg + 32 \in Byte /\ 128 + dg + 32 # 0
      BY <2>1 DEF Byte
    <2>4. bytes = <<128 + dg + 32, other>>
      BY <1>9, <2>2
    <2> HIDE DEF other
    <2>5. bytes \in Data /\ Len(bytes) = 2 /\ bytes[1] # 0
      BY <2>3, <2>4 DEF Data
    <2>6. d.data[1] = 128 + dg + 32 /\ d.data[2] = (x + 8) * 16 + z + 8
      BY <1>4, <2>4, <2>5 DEF other
    <2>7. Chunk(d) = [color |-> Shifted(last, dg + x, dg, dg + z), size |-> 2, run |-> 0]
      <3>1. Chunk(d) = [color |-> Shifted(d.last_pixel, dg + x, dg, dg + z), size |-> 2, run |-> 0]
        BY <2>1, <2>6, LumaChunk, Zenon
      <3> QED  BY <3>1, Zenon
    <2>8. Shifted(last, dg + x, dg, dg + z) = c
      BY <1>3, <1>9, <2>2, Zenon
    <2> QED  BY <2>5, <2>7, <2>8
  <1> QED
    BY <1>5, <1>6, <1>7, <1>8, <1>9, EncodingKinds DEF dr, dg, db

(* The same without what is known of a first byte of 0.                    *)
LEMMA ChunkColor ==
  ASSUME NEW d, NEW s, NEW c \in ColorType, NEW bytes \in Encodings(s, c), NEW rest \in Data,
         s.last \in ColorType, s.table \in Table,
         d.data = bytes \o rest, d.last_pixel = s.last, Knows(d.prev_pixels, s.table)
  PROVE  bytes \in Data /\ Chunk(d) = [color |-> c, size |-> Len(bytes), run |-> 0]
  BY ChunkSays

(* Without its first part the rest is left.                                *)
LEMMA RestIsLeft ==
  ASSUME NEW bytes \in Data, NEW rest \in Data
  PROVE  Sub(bytes \o rest, Len(bytes)) = rest
  <1> DEFINE all == bytes \o rest
             n == Len(bytes)
             m == Len(rest)
             left == SubSeq(all, n + 1, n + m)
  <1>1. n \in Nat /\ m \in Nat /\ n + m \in Nat /\ n \in 0 .. n + m /\ n + m - n = m
    BY LenProperties DEF Data
  <1>2. Joined(all, Byte, bytes, n, rest, m)
    BY ConcatFacts DEF Data
  <1> HIDE DEF n, m, all
  <1>3. all \in Seq(Byte) /\ Len(all) = n + m /\ \A i \in n + 1 .. n + m : all[i] = rest[i - n]
    BY <1>2 DEF Joined
  <1>4. RestOf(left, Byte, all, n + m, n)
    BY <1>1, <1>3, SuffixFacts
  <1> HIDE DEF left
  <1>5. left \in Seq(Byte) /\ Len(left) = m /\ \A i \in 1 .. m : left[i] = all[i + n]
    BY <1>1, <1>4 DEF RestOf
  <1>6. ASSUME NEW i \in 1 .. m PROVE left[i] = rest[i]
    <2>1. i + n \in n + 1 .. n + m /\ i + n - n = i
      BY <1>1
    <2>2. left[i] = all[i + n]
      BY <1>5, <1>6, Zenon
    <2>3. all[i + n] = rest[i + n - n]
      BY <1>1, <1>3, <2>1
    <2> QED  BY <2>1, <2>2, <2>3, Zenon
  <1>7. left = rest
    BY <1>5, <1>6, SeqEqual DEF Data, m
  <1> QED  BY <1>3, <1>7 DEF left, all, n, Sub

(* What an encoder may write depends on its last pixel and on its table.   *)
LEMMA SameEncodings ==
  ASSUME NEW v, NEW w, v.last = w.last, v.indexed = w.indexed, v.table = w.table,
         NEW c
  PROVE  Encodings(v, c) = Encodings(w, c)
  BY DEF Encodings

-----------------------------------------------------------------------------
(* Images: the file is a path from one chunk to the next. *)

(* A place between two chunks of a file: what follows, what the encoder    *)
(* knew when it had come here, and how many pixels it had written.         *)
Point == [data : Data, last : ColorType, indexed : BOOLEAN, table : Table, at : Nat]

(* What a run does to the table of the decoder changes no entry that an    *)
(* index may be used for.                                                  *)
Settled(s) ==
  \/ s.table[ColorHash(s.last)] = s.last
  \/ ColorHash(s.table[ColorHash(s.last)]) # ColorHash(s.last)

(* From one place to the next by a chunk for a pixel, or by a run.         *)
PixelWritten(img, s, u) ==
  \E bytes \in Encodings(s, u.last) :
    /\ s.data = bytes \o u.data /\ u.indexed = (bytes[1] < 64)
    /\ u.table = [s.table EXCEPT ![ColorHash(u.last)] = u.last]
    /\ u.at = s.at + 1 /\ img[u.at] = u.last

RunWritten(img, s, u) ==
  \E k \in 1 .. 62 :
    /\ s.data = <<192 + k - 1>> \o u.data
    /\ u.last = s.last /\ u.indexed = FALSE /\ u.table = s.table
    /\ u.at = s.at + k /\ \A i \in 1 .. k : img[s.at + i] = s.last

Written(img, s, u) == PixelWritten(img, s, u) \/ RunWritten(img, s, u)

(* From the first of some places to the last, chunk by chunk.              *)
Path(t, n, img) ==
  /\ t \in [0 .. n -> Point]
  /\ \A j \in 0 .. n : t[j].at <= Len(img) /\ Settled(t[j])
  /\ \A j \in 1 .. n : Written(img, t[j - 1], t[j])

(* The decoder, which has returned some pixels, has read as far as that.   *)
AtDecoder(s, d, returned) ==
  /\ s.data = d.data /\ s.last = d.last_pixel /\ Knows(d.prev_pixels, s.table)
  /\ s.at = returned + d.run_counter

(* The fields of QOIStreamDecoder.                                         *)
DecoderType ==
  [data : Data, width : Nat, height : Nat, prev_pixels : Table, last_pixel : ColorType,
   run_counter : Nat]

(* The decoder after a chunk.                                              *)
AfterChunk(d, rest, run, c) ==
  [d EXCEPT !.data = rest, !.run_counter = run, !.last_pixel = c,
            !.prev_pixels[ColorHash(c)] = c]

(* One step of the decoder, by what the chunk says.                        *)
LEMMA ChunkRead ==
  ASSUME NEW d, d.run_counter = 0, NEW c, NEW size, NEW run,
         Chunk(d) = [color |-> c, size |-> size, run |-> run],
         NEW rest, Sub(d.data, size) = rest
  PROVE  NextPixel(d) = AfterChunk(d, rest, run, c)
  <1> DEFINE chunk == Chunk(d)
  <1>1. ~(d.run_counter > 0)
    OBVIOUS
  <1>2. chunk.color = c /\ chunk.size = size /\ chunk.run = run
    OBVIOUS
  <1>3. NextPixel(d) = [d EXCEPT !.data = Sub(@, chunk.size), !.run_counter = chunk.run,
                                 !.last_pixel = chunk.color,
                                 !.prev_pixels[ColorHash(chunk.color)] = chunk.color]
    BY <1>1, Zenon DEF NextPixel
  <1> HIDE DEF chunk
  <1> QED  BY <1>2, <1>3, Zenon DEF AfterChunk

(* The decoder comes to the next point and returns a pixel, which comes    *)
(* k times in all.                                                         *)
ReadsOn(img, d, returned, u) ==
  \E k \in 1 .. 62 :
    /\ NextPixel(d) \in DecoderType
    /\ NextPixel(d) = AfterChunk(d, u.data, k - 1, u.last)
    /\ AtDecoder(u, NextPixel(d), returned + 1)
    /\ \A i \in 1 .. k : img[returned + i] = u.last

(* The decoder reads the chunk of a pixel.                                 *)
LEMMA PixelDecoded ==
  ASSUME NEW d \in DecoderType, d.run_counter = 0, NEW img, NEW returned \in Nat,
         NEW s \in Point, NEW u \in Point, AtDecoder(s, d, returned), PixelWritten(img, s, u)
  PROVE  ReadsOn(img, d, returned, u)
  <1> DEFINE c == u.last
             e == AfterChunk(d, u.data, 0, c)
  <1>1. c \in ColorType /\ u.data \in Data /\ s.last \in ColorType /\ s.table \in Table
        /\ u.table \in Table
    BY DEF Point
  <1>2. PICK bytes \in Encodings(s, c) :
           /\ s.data = bytes \o u.data
           /\ u.table = [s.table EXCEPT ![ColorHash(c)] = c]
           /\ u.at = s.at + 1 /\ img[u.at] = c
    BY DEF PixelWritten
  <1>3. s.data = d.data /\ s.last = d.last_pixel /\ Knows(d.prev_pixels, s.table) /\ s.at = returned
    BY DEF AtDecoder
  <1> HIDE DEF c
  <1>4. d.data = bytes \o u.data /\ d.last_pixel = s.last /\ Knows(d.prev_pixels, s.table)
    BY <1>2, <1>3, Zenon
  <1>5. bytes \in Data /\ Chunk(d) = [color |-> c, size |-> Len(bytes), run |-> 0]
    <2>1. bytes \in Encodings(s, c)
      BY <1>2
    <2> QED  BY <1>1, <1>4, <2>1, ChunkColor, Zenon
  <1>6. Sub(d.data, Len(bytes)) = u.data
    <2>1. Sub(bytes \o u.data, Len(bytes)) = u.data
      BY <1>1, <1>5, RestIsLeft, Zenon
    <2> QED  BY <1>4, <2>1, Zenon
  <1>7. NextPixel(d) = e
    BY <1>5, <1>6, ChunkRead
  <1>8. ColorHash(c) \in 0 .. 63
    BY <1>1, HashInTable
  <1>9. e \in DecoderType
    BY <1>1, <1>8 DEF DecoderType, Table, AfterChunk
  <1>10. /\ e.data = u.data /\ e.last_pixel = c /\ e.run_counter = 0
        /\ e.prev_pixels = [d.prev_pixels EXCEPT ![ColorHash(c)] = c]
    BY DEF DecoderType, AfterChunk
  <1>11. d.prev_pixels \in Table
    BY DEF DecoderType
  <1>12. Knows([d.prev_pixels EXCEPT ![ColorHash(c)] = c], [s.table EXCEPT ![ColorHash(c)] = c])
    BY <1>1, <1>3, <1>8, <1>11 DEF Knows, Table
  <1> HIDE DEF e
  <1>13. AtDecoder(u, e, returned + 1)
    BY <1>2, <1>3, <1>10, <1>12 DEF AtDecoder, c
  <1>14. img[returned + 1] = c
    BY <1>2, <1>3, Zenon
  <1>15. 1 \in 1 .. 62 /\ 1 - 1 = 0 /\ \A i \in 1 .. 1 : i = 1
    OBVIOUS
  <1> QED  BY <1>7, <1>9, <1>13, <1>14, <1>15, Zenon DEF e, c, ReadsOn

(* The decoder reads the chunk of a run and returns its first pixel.       *)
LEMMA RunDecoded ==
  ASSUME NEW d \in DecoderType, d.run_counter = 0, NEW img, NEW returned \in Nat,
         NEW s \in Point, NEW u \in Point, AtDecoder(s, d, returned), RunWritten(img, s, u),
         Settled(s)
  PROVE  ReadsOn(img, d, returned, u)
  <1> DEFINE c == u.last
  <1>1. PICK k \in 1 .. 62 :
           /\ s.data = <<192 + k - 1>> \o u.data
           /\ u.last = s.last /\ u.table = s.table
           /\ u.at = s.at + k /\ \A i \in 1 .. k : img[s.at + i] = s.last
    BY Zenon DEF RunWritten
  <1> DEFINE e == AfterChunk(d, u.data, k - 1, c)
             byte == <<192 + k - 1>>
  <1>2. c \in ColorType /\ u.data \in Data /\ s.last \in ColorType /\ s.table \in Table
        /\ u.table \in Table
    BY DEF Point
  <1>3. s.data = d.data /\ s.last = d.last_pixel /\ Knows(d.prev_pixels, s.table) /\ s.at = returned
    BY DEF AtDecoder
  <1>4. byte \in Data /\ Len(byte) = 1 /\ byte[1] = 192 + k - 1
    BY DEF Data, Byte
  <1>5. s.data = byte \o u.data
    BY <1>1
  <1> HIDE DEF byte
  <1>6. d.data[1] = 192 + k - 1
    <2>1. Joined(byte \o u.data, Byte, byte, 1, u.data, Len(u.data))
      BY <1>2, <1>4, ConcatFacts DEF Data
    <2> QED  BY <1>3, <1>4, <1>5, <2>1 DEF Joined
  <1>7. Chunk(d) = [color |-> c, size |-> 1, run |-> k - 1]
    <2>1. Chunk(d) = [color |-> d.last_pixel, size |-> 1, run |-> k - 1]
      BY <1>6, RunChunk, Zenon
    <2> QED  BY <1>1, <1>3, <2>1, Zenon
  <1>8. Sub(d.data, 1) = u.data
    <2>1. Sub(byte \o u.data, Len(byte)) = u.data
      BY <1>2, <1>4, RestIsLeft, Zenon
    <2> QED  BY <1>3, <1>4, <1>5, <2>1, Zenon
  <1>9. NextPixel(d) = e
    BY <1>7, <1>8, ChunkRead
  <1>10. ColorHash(c) \in 0 .. 63
    BY <1>2, HashInTable
  <1>11. k - 1 \in Nat
    OBVIOUS
  <1>12. e \in DecoderType
    BY <1>2, <1>10, <1>11 DEF DecoderType, Table, AfterChunk
  <1>13. /\ e.data = u.data /\ e.last_pixel = c /\ e.run_counter = k - 1
         /\ e.prev_pixels = [d.prev_pixels EXCEPT ![ColorHash(c)] = c]
    BY DEF DecoderType, AfterChunk
  <1>14. d.prev_pixels \in Table
    BY DEF DecoderType
  <1>15. Knows([d.prev_pixels EXCEPT ![ColorHash(c)] = c], u.table)
    <2> DEFINE h == ColorHash(c)
    <2>1. u.table[h] = c \/ ColorHash(u.table[h]) # h
      BY <1>1, Zenon DEF Settled
    <2>2. Knows(d.prev_pixels, u.table)
      BY <1>1, <1>3, Zenon
    <2> HIDE DEF c, h
    <2>3. ASSUME NEW i \in 0 .. 63
          PROVE  [d.prev_pixels EXCEPT ![h] = c][i] = u.table[i] \/ ColorHash(u.table[i]) # i
      <3>1. CASE i = h
        BY <1>14, <2>1, <3>1, Zenon DEF Table
      <3>2. CASE i # h
        BY <1>14, <2>2, <3>2, Zenon DEF Table, Knows
      <3> QED  BY <3>1, <3>2
    <2> QED  BY <2>3, Zenon DEF Knows, h
  <1>16. u.at = returned + 1 + (k - 1)
    <2>1. s.at = returned /\ u.at = s.at + k
      BY <1>1, <1>3, Zenon
    <2> QED  BY <2>1
  <1>17. s.at = returned
    BY <1>3, Zenon
  <1>18. \A i \in 1 .. k : img[returned + i] = c
    BY <1>1, <1>17, Zenon
  <1> HIDE DEF e
  <1>19. AtDecoder(u, e, returned + 1)
    BY <1>13, <1>15, <1>16, Zenon DEF AtDecoder
  <1>20. /\ NextPixel(d) \in DecoderType /\ NextPixel(d) = AfterChunk(d, u.data, k - 1, u.last)
         /\ AtDecoder(u, NextPixel(d), returned + 1)
    BY <1>9, <1>12, <1>19, Zenon DEF e
  <1> QED  BY <1>18, <1>20, ZenonT(30) DEF ReadsOn

(* A chunk that begins with 0 is an index to the first pixel of the table, *)
(* and not to the pixel that was indexed to before.                        *)
LEMMA ZeroIsIndex ==
  ASSUME NEW img, NEW s \in Point, NEW u \in Point,
         Written(img, s, u), s.data[1] = 0
  PROVE  /\ u.last = s.table[0] /\ ~(s.indexed /\ u.last = s.last)
         /\ u.table[0] = u.last /\ u.indexed
         /\ Len(s.data) = 1 + Len(u.data)
         /\ \A i \in 1 .. Len(u.data) : s.data[1 + i] = u.data[i]
  <1> DEFINE d == [data |-> s.data, last_pixel |-> s.last, prev_pixels |-> s.table]
  <1>1. /\ s.last \in ColorType /\ s.table \in Table /\ u.data \in Data
        /\ u.last \in ColorType
    BY DEF Point
  <1>2. ASSUME NEW bytes \in Data, Len(bytes) >= 1, s.data = bytes \o u.data
        PROVE  /\ bytes[1] = 0
               /\ Len(bytes) = 1 => /\ Len(s.data) = 1 + Len(u.data)
                                    /\ \A i \in 1 .. Len(u.data) : s.data[1 + i] = u.data[i]
    <2> DEFINE n == Len(bytes)
               m == Len(u.data)
    <2>1. n \in Nat /\ m \in Nat
      BY <1>1, LenProperties DEF Data
    <2>2. Joined(s.data, Byte, bytes, n, u.data, m)
      BY <1>1, <1>2, ConcatFacts DEF Data
    <2> HIDE DEF n, m
    <2>3. /\ Len(s.data) = n + m
          /\ \A i \in 1 .. n : s.data[i] = bytes[i]
          /\ \A i \in n + 1 .. n + m : s.data[i] = u.data[i - n]
      BY <2>2 DEF Joined
    <2>4. n >= 1
      BY <1>2 DEF n
    <2>5. 1 \in 1 .. n
      BY <2>1, <2>4
    <2>6. bytes[1] = 0
      BY <2>3, <2>5, Zenon
    <2>7. ASSUME n = 1, NEW i \in 1 .. m PROVE s.data[1 + i] = u.data[i]
      <3>1. 1 + i \in n + 1 .. n + m /\ 1 + i - n = i
        BY <2>1, <2>7
      <3> QED  BY <2>1, <2>3, <3>1
    <2> QED  BY <2>3, <2>6, <2>7, Zenon DEF n, m
  <1>3. CASE PixelWritten(img, s, u)
    <2>1. PICK bytes \in Encodings(s, u.last) :
             /\ s.data = bytes \o u.data
             /\ u.table = [s.table EXCEPT ![ColorHash(u.last)] = u.last]
             /\ u.indexed = (bytes[1] < 64)
      BY <1>3, Zenon DEF PixelWritten
    <2> DEFINE c == u.last
    <2> HIDE DEF c
    <2>2. d.data = bytes \o u.data /\ d.last_pixel = s.last /\ Knows(d.prev_pixels, s.table)
      BY <2>1 DEF Knows
    <2> HIDE DEF d
    <2>3. c \in ColorType /\ bytes \in Encodings(s, c)
      BY <1>1, Zenon DEF c
    <2>4. /\ bytes \in Data /\ Len(bytes) \in 1 .. 5
          /\ Chunk(d) = [color |-> c, size |-> Len(bytes), run |-> 0]
          /\ bytes[1] = 0 => /\ Len(bytes) = 1 /\ ColorHash(c) = 0
                             /\ s.table[0] = c /\ ~(s.indexed /\ c = s.last)
      BY <1>1, <2>2, <2>3, ChunkSays
    <2>5. Len(bytes) >= 1
      BY <2>4
    <2>6. bytes[1] = 0
      BY <1>2, <2>1, <2>4, <2>5, Zenon
    <2>7. c = s.table[0] /\ ~(s.indexed /\ c = s.last) /\ u.table[0] = c
      BY <1>1, <2>1, <2>4, <2>6 DEF Table, c
    <2>8. /\ Len(s.data) = 1 + Len(u.data)
          /\ \A i \in 1 .. Len(u.data) : s.data[1 + i] = u.data[i]
      BY <1>2, <2>1, <2>4, <2>5, <2>6, Zenon
    <2>9. u.indexed
      <3>1. bytes[1] < 64
        BY <2>6
      <3> QED  BY <2>1, <3>1, Zenon
    <2> QED  BY <2>7, <2>8, <2>9, Zenon DEF c
  <1>4. CASE RunWritten(img, s, u)
    <2>1. PICK k \in 1 .. 62 : s.data = <<192 + k - 1>> \o u.data
      BY <1>4, Zenon DEF RunWritten
    <2> DEFINE byte == <<192 + k - 1>>
    <2>2. byte \in Data /\ Len(byte) = 1 /\ byte[1] # 0
      BY DEF Data, Byte
    <2>3. s.data = byte \o u.data
      BY <2>1
    <2> HIDE DEF byte
    <2>4. Len(byte) >= 1
      BY <2>2
    <2> QED  BY <1>2, <2>2, <2>3, <2>4, Zenon
  <1> QED  BY <1>3, <1>4 DEF Written

(* Before the last pixel the decoder does not take a chunk for the end: of *)
(* two bytes 0 in a row the second would index once more to the same       *)
(* pixel, and a single one leaves the last byte of the marker a place too  *)
(* late.                                                                   *)
LEMMA NotAtEnd ==
  ASSUME NEW d \in DecoderType, NEW returned \in Nat, NEW img,
         NEW n \in Nat \ {0}, NEW t, Path(t, n, img), t[n].data = EndMarker,
         \A j \in 0 .. n : Len(t[j].data) >= 8, AtDecoder(t[0], d, returned)
  PROVE  ~Finished(d)
  <1> DEFINE s == t[0]
             u == t[1]
  <1>1. /\ 0 \in 0 .. n /\ 1 \in 0 .. n /\ 1 \in 1 .. n /\ 1 - 1 = 0
        /\ (n # 1 => 2 \in 0 .. n /\ 2 \in 1 .. n /\ 2 - 1 = 1)
    OBVIOUS
  <1>2. s \in Point /\ u \in Point /\ (n # 1 => t[2] \in Point)
    BY <1>1, Zenon DEF Path
  <1>3. Written(img, s, u)
    BY <1>1, Zenon DEF Path
  <1>4. n # 1 => Written(img, u, t[2])
    BY <1>1, Zenon DEF Path
  <1>5. Len(u.data) >= 8 /\ Len(s.data) >= 8
    BY <1>1, Zenon
  <1> HIDE DEF s, u
  <1> SUFFICES ASSUME \A i \in 1 .. 7 : s.data[i] = 0, s.data[8] = 1
               PROVE  FALSE
    <2>1. s.data = d.data
      BY DEF AtDecoder, s
    <2> QED  BY <1>5, <2>1 DEF Finished
  <1>6. /\ u.data[7] = 1 /\ u.data[1] = 0 /\ u.last = u.table[0] /\ u.indexed
    <2>1. s.data[1] = 0 /\ s.data[2] = 0 /\ s.data[8] = 1
      OBVIOUS
    <2>2. /\ u.last = u.table[0] /\ u.indexed
          /\ \A i \in 1 .. Len(u.data) : s.data[1 + i] = u.data[i]
      BY <1>2, <1>3, <2>1, ZeroIsIndex, Zenon
    <2>3. 1 \in 1 .. Len(u.data) /\ 7 \in 1 .. Len(u.data) /\ 1 + 1 = 2 /\ 1 + 7 = 8
      <3>1. Len(u.data) \in Nat
        BY <1>2, LenProperties DEF Point, Data
      <3> DEFINE m == Len(u.data)
      <3>2. m \in Nat /\ m >= 8
        BY <1>5, <3>1
      <3> HIDE DEF m
      <3>3. 1 \in 1 .. m /\ 7 \in 1 .. m /\ 1 + 1 = 2 /\ 1 + 7 = 8
        BY <3>2
      <3> QED  BY <3>3, Zenon DEF m
    <2>4. s.data[1 + 1] = u.data[1] /\ s.data[1 + 7] = u.data[7]
      BY <2>2, <2>3, Zenon
    <2> QED  BY <2>1, <2>2, <2>3, <2>4, Zenon
  <1>7. CASE n = 1
    BY <1>6, <1>7 DEF EndMarker, u
  <1>8. CASE n # 1
    <2> DEFINE v == t[2]
    <2>1. v \in Point /\ Written(img, u, v)
      BY <1>2, <1>4, <1>8, Zenon
    <2> HIDE DEF v
    <2>2. v.last = u.table[0] /\ ~(u.indexed /\ v.last = u.last)
      BY <1>2, <1>6, <2>1, ZeroIsIndex
    <2> QED  BY <1>6, <2>2
  <1> QED  BY <1>7, <1>8

-----------------------------------------------------------------------------
(* Images: the encoder makes the path longer. *)

(* The same place when the file goes on.                                   *)
Longer(s, more) == [s EXCEPT !.data = @ \o more]

(* The same place in a file that goes on.                                  *)
LEMMA LongerPoint ==
  ASSUME NEW s \in Point, NEW more \in Data
  PROVE  /\ Longer(s, more) \in Point
         /\ Longer(s, more).data = s.data \o more /\ Longer(s, more).last = s.last
         /\ Longer(s, more).indexed = s.indexed /\ Longer(s, more).table = s.table
         /\ Longer(s, more).at = s.at
  <1>1. s.data \o more \in Data
    BY ConcatProperties DEF Point, Data
  <1> QED  BY <1>1 DEF Longer, Point

(* Chunks are made of bytes.                                               *)
LEMMA EncodingData ==
  ASSUME NEW w, NEW c \in ColorType, NEW bytes \in Encodings(w, c),
         w.last \in ColorType, w.table \in Table
  PROVE  bytes \in Data
  <1> DEFINE d == [data |-> bytes \o <<>>, last_pixel |-> w.last, prev_pixels |-> w.table]
  <1>1. d.data = bytes \o <<>> /\ d.last_pixel = w.last /\ Knows(d.prev_pixels, w.table)
    BY DEF Knows
  <1>2. <<>> \in Data
    BY DEF Data
  <1> HIDE DEF d
  <1>3. /\ bytes \in Data
        /\ Chunk(d) = [color |-> c, size |-> Len(bytes), run |-> 0]
    BY <1>1, <1>2, ChunkSays, ZenonT(30)
  <1> QED  BY <1>3

(* More pixels change none that were written.                              *)
LEMMA PixelsStay ==
  ASSUME NEW img \in Seq(ColorType), NEW pixels \in Seq(ColorType), NEW i \in 1 .. Len(img)
  PROVE  (img \o pixels)[i] = img[i]
  BY ConcatFacts DEF Joined

(* What was written, a chunk and what follows may be grouped either way.   *)
LEMMA DataAssociates ==
  ASSUME NEW x \in Data, NEW y \in Data, NEW z \in Data
  PROVE  (x \o y) \o z = x \o (y \o z)
  BY ConcatAssociative DEF Data

(* A chunk stays what it was in a file that goes on.                       *)
LEMMA StillWritten ==
  ASSUME NEW img \in Seq(ColorType), NEW pixels \in Seq(ColorType), NEW more \in Data,
         NEW s \in Point, NEW u \in Point, u.at <= Len(img), Written(img, s, u)
  PROVE  Written(img \o pixels, Longer(s, more), Longer(u, more))
  <1> DEFINE img2 == img \o pixels
             s2 == Longer(s, more)
             u2 == Longer(u, more)
  <1>1. /\ s2 \in Point /\ u2 \in Point
        /\ s2.data = s.data \o more /\ s2.last = s.last
        /\ s2.indexed = s.indexed /\ s2.table = s.table /\ s2.at = s.at
        /\ u2.data = u.data \o more /\ u2.last = u.last
        /\ u2.indexed = u.indexed /\ u2.table = u.table /\ u2.at = u.at
    BY LongerPoint, Zenon
  <1>2. \A i \in 1 .. Len(img) : img2[i] = img[i]
    BY PixelsStay, Zenon
  <1>3. s.at \in Nat /\ u.at \in Nat /\ u.data \in Data /\ Len(img) \in Nat
    BY LenProperties DEF Point
  <1>4. ASSUME NEW bytes \in Data, s.data = bytes \o u.data
        PROVE  s2.data = bytes \o u2.data
    <2>1. (bytes \o u.data) \o more = bytes \o (u.data \o more)
      BY <1>3, DataAssociates, Zenon
    <2> QED  BY <1>1, <1>4, <2>1, Zenon
  <1> HIDE DEF s2, u2, img2
  <1>5. CASE PixelWritten(img, s, u)
    <2>1. PICK bytes \in Encodings(s, u.last) :
             /\ s.data = bytes \o u.data /\ u.indexed = (bytes[1] < 64)
             /\ u.table = [s.table EXCEPT ![ColorHash(u.last)] = u.last]
             /\ u.at = s.at + 1 /\ img[u.at] = u.last
      BY <1>5, Zenon DEF PixelWritten
    <2>2. bytes \in Encodings(s2, u2.last)
      <3>1. Encodings(s2, u.last) = Encodings(s, u.last)
        BY <1>1, SameEncodings
      <3> QED  BY <1>1, <2>1, <3>1, Zenon
    <2>3. bytes \in Data
      BY EncodingData DEF Point
    <2>4. u.at \in 1 .. Len(img)
      BY <1>3, <2>1
    <2>5. /\ u2.indexed = (bytes[1] < 64) /\ u2.table = [s2.table EXCEPT ![ColorHash(u2.last)] = u2.last]
          /\ u2.at = s2.at + 1 /\ img2[u2.at] = u2.last
      BY <1>1, <1>2, <2>1, <2>4, Zenon
    <2>6. s2.data = bytes \o u2.data
      BY <1>4, <2>1, <2>3, Zenon
    <2> QED  BY <2>2, <2>5, <2>6, Zenon DEF PixelWritten, Written, s2, u2, img2
  <1>6. CASE RunWritten(img, s, u)
    <2>1. PICK k \in 1 .. 62 :
             /\ s.data = <<192 + k - 1>> \o u.data
             /\ u.last = s.last /\ u.indexed = FALSE /\ u.table = s.table
             /\ u.at = s.at + k /\ \A i \in 1 .. k : img[s.at + i] = s.last
      BY <1>6, Zenon DEF RunWritten
    <2>2. <<192 + k - 1>> \in Data
      BY DEF Data, Byte
    <2>3. s2.data = <<192 + k - 1>> \o u2.data
      BY <1>4, <2>1, <2>2, Zenon
    <2>4. ASSUME NEW i \in 1 .. k PROVE img2[s2.at + i] = s2.last
      <3>1. s.at + i \in 1 .. Len(img)
        BY <1>3, <2>1
      <3> QED  BY <1>1, <1>2, <2>1, <2>4, <3>1, Zenon
    <2>5. u2.last = s2.last /\ u2.indexed = FALSE /\ u2.table = s2.table /\ u2.at = s2.at + k
      BY <1>1, <2>1, Zenon
    <2> QED  BY <2>3, <2>4, <2>5, Zenon DEF RunWritten, Written, s2, u2, img2
  <1> QED  BY <1>5, <1>6 DEF Written

(* The whole path, in a file that goes on.                                 *)
LEMMA PathLonger ==
  ASSUME NEW img \in Seq(ColorType), NEW pixels \in Seq(ColorType), NEW more \in Data,
         NEW n \in Nat, NEW t, Path(t, n, img)
  PROVE  Path([j \in 0 .. n |-> Longer(t[j], more)], n, img \o pixels)
  <1> DEFINE r == [j \in 0 .. n |-> Longer(t[j], more)]
             all == img \o pixels
  <1>1. \A j \in 0 .. n : t[j] \in Point /\ t[j].at <= Len(img) /\ Settled(t[j])
    BY Zenon DEF Path
  <1>2. \A j \in 0 .. n : r[j] = Longer(t[j], more)
    BY Zenon
  <1>3. r \in [0 .. n -> Point]
    BY <1>1, LongerPoint
  <1>4. Len(all) \in Nat /\ Len(img) \in Nat /\ Len(img) <= Len(all)
    BY ConcatProperties, LenProperties
  <1> HIDE DEF r, all
  <1>5. ASSUME NEW j \in 0 .. n PROVE r[j].at <= Len(all) /\ Settled(r[j])
    <2>1. r[j].at = t[j].at /\ r[j].last = t[j].last /\ r[j].table = t[j].table
      <3> DEFINE s == t[j]
      <3>1. s \in Point /\ r[j] = Longer(s, more)
        BY <1>1, <1>2, <1>5, Zenon
      <3> HIDE DEF s
      <3>2. /\ Longer(s, more).last = s.last /\ Longer(s, more).table = s.table
            /\ Longer(s, more).at = s.at
        BY <3>1, LongerPoint, Zenon
      <3> QED  BY <3>1, <3>2, Zenon DEF s
    <2>2. t[j].at \in Nat /\ t[j].at <= Len(img)
      BY <1>1 DEF Point
    <2>3. r[j].at <= Len(all)
      BY <1>4, <2>1, <2>2
    <2> QED  BY <1>1, <2>1, <2>3, Zenon DEF Settled
  <1>6. ASSUME NEW j \in 1 .. n PROVE Written(all, r[j - 1], r[j])
    <2>1. j \in 0 .. n /\ j - 1 \in 0 .. n
      OBVIOUS
    <2>2. Written(img, t[j - 1], t[j])
      BY Zenon DEF Path
    <2>3. r[j - 1] = Longer(t[j - 1], more) /\ r[j] = Longer(t[j], more)
      BY <1>2, <2>1, Zenon
    <2>4. t[j - 1] \in Point /\ t[j] \in Point /\ t[j].at <= Len(img)
      BY <1>1, <2>1, Zenon
    <2> QED  BY <2>2, <2>3, <2>4, StillWritten, Zenon DEF all
  <1> QED  BY <1>3, <1>5, <1>6, Zenon DEF Path, r, all

(* A path with one chunk more.                                             *)
LEMMA PathExtended ==
  ASSUME NEW img, NEW n \in Nat, NEW t, Path(t, n, img),
         NEW v \in Point, v.at <= Len(img), Settled(v), Written(img, t[n], v)
  PROVE  Path([j \in 0 .. n + 1 |-> IF j <= n THEN t[j] ELSE v], n + 1, img)
  <1> DEFINE r == [j \in 0 .. n + 1 |-> IF j <= n THEN t[j] ELSE v]
  <1>1. \A j \in 0 .. n : j \in 0 .. n + 1 /\ r[j] = t[j]
    OBVIOUS
  <1>2. n + 1 \in 0 .. n + 1 /\ r[n + 1] = v /\ n + 1 - 1 = n /\ n \in 0 .. n
    OBVIOUS
  <1>3. \A j \in 0 .. n + 1 : j \in 0 .. n \/ j = n + 1
    OBVIOUS
  <1>4. \A j \in 0 .. n : t[j] \in Point /\ t[j].at <= Len(img) /\ Settled(t[j])
    BY Zenon DEF Path
  <1>5. r \in [0 .. n + 1 -> Point]
    BY <1>4
  <1> HIDE DEF r
  <1>6. ASSUME NEW j \in 0 .. n + 1 PROVE r[j].at <= Len(img) /\ Settled(r[j])
    BY <1>1, <1>2, <1>3, <1>4, <1>6, Zenon
  <1>7. ASSUME NEW j \in 1 .. n + 1 PROVE Written(img, r[j - 1], r[j])
    <2>1. CASE j = n + 1
      <3>1. j - 1 = n /\ r[j] = v
        BY <1>2, <2>1
      <3>2. r[n] = t[n]
        BY <1>1, <1>2, Zenon
      <3> QED  BY <3>1, <3>2, Zenon
    <2>2. CASE j # n + 1
      <3>1. j \in 1 .. n /\ j \in 0 .. n /\ j - 1 \in 0 .. n
        BY <2>2
      <3>2. Written(img, t[j - 1], t[j])
        BY <3>1, Zenon DEF Path
      <3> QED  BY <1>1, <3>1, <3>2, Zenon
    <2> QED  BY <2>1, <2>2
  <1> QED  BY <1>5, <1>6, <1>7, Zenon DEF Path, r

(* A path without its first chunk.                                         *)
LEMMA PathShorter ==
  ASSUME NEW img, NEW n \in Nat \ {0}, NEW t, Path(t, n, img)
  PROVE  Path([j \in 0 .. n - 1 |-> t[j + 1]], n - 1, img)
  <1> DEFINE r == [j \in 0 .. n - 1 |-> t[j + 1]]
  <1>1. \A j \in 0 .. n : t[j] \in Point /\ t[j].at <= Len(img) /\ Settled(t[j])
    BY Zenon DEF Path
  <1>2. \A j \in 0 .. n - 1 : j + 1 \in 0 .. n /\ r[j] = t[j + 1]
    OBVIOUS
  <1>3. r \in [0 .. n - 1 -> Point]
    BY <1>1, <1>2
  <1> HIDE DEF r
  <1>4. ASSUME NEW j \in 1 .. n - 1
        PROVE  Written(img, r[j - 1], r[j])
    <2> DEFINE i == j - 1
               k == j + 1
    <2>1. /\ i \in 0 .. n - 1 /\ j \in 0 .. n - 1 /\ k \in 1 .. n
          /\ i + 1 = j /\ j + 1 = k /\ k - 1 = j
      OBVIOUS
    <2> HIDE DEF i, k
    <2>2. Written(img, t[k - 1], t[k])
      BY <2>1, Zenon DEF Path
    <2>3. r[i] = t[i + 1] /\ r[j] = t[j + 1]
      BY <1>2, <2>1, Zenon
    <2> QED  BY <2>1, <2>2, <2>3, Zenon DEF i
  <1>5. \A j \in 0 .. n - 1 : r[j].at <= Len(img) /\ Settled(r[j])
    BY <1>1, <1>2, Zenon
  <1> QED  BY <1>3, <1>4, <1>5, Zenon DEF Path, r

-----------------------------------------------------------------------------
(* Images: the inductive invariant. *)

ImageTypes ==
  /\ phase \in {"writing", "decoding", "done"}
  /\ image \in Seq(ColorType) /\ decoded \in Seq(ColorType)
  /\ decoder \in DecoderType /\ decoder.width = Width /\ decoder.height = Height

(* What was decoded is the first of the image, and in a run its pixel      *)
(* follows.                                                                *)
Returned ==
  /\ Len(decoded) + decoder.run_counter <= Len(image)
  /\ \A i \in 1 .. Len(decoded) : decoded[i] = image[i]
  /\ \A i \in 1 .. decoder.run_counter : image[Len(decoded) + i] = decoder.last_pixel

(* The data of the decoder is a path to the end of the file.               *)
FileLeft ==
  \E n \in Nat : \E t :
    /\ Path(t, n, image) /\ AtDecoder(t[0], decoder, Len(decoded))
    /\ t[n].at = Len(image)
    /\ phase = "writing" =>
         t[n].data = <<>> /\ t[n].last = writer.last /\ t[n].indexed = writer.indexed
         /\ t[n].table = writer.table
    /\ phase # "writing" =>
         t[n].data = EndMarker /\ \A j \in 0 .. n : Len(t[j].data) >= 8

(* What has been done in each phase.                                       *)
PhaseSays ==
  /\ phase = "writing" => decoded = <<>> /\ decoder.run_counter = 0
  /\ phase # "writing" => Len(image) = Width * Height
  /\ phase = "done" => decoded = image /\ font = FromQoi(image, Width, Height, Grid)

(* The inductive invariant of the image on its way to the font.            *)
ImageIInv == ImageTypes /\ Returned /\ FileLeft /\ PhaseSays

(* A size of two bytes, as they are put together again.                    *)
LEMMA TwoBytes ==
  ASSUME NEW x \in Nat
  PROVE  x \div 256 \in Nat /\ x % 256 \in Nat /\ (x \div 256) * 256 + (x % 256) = x
  OBVIOUS

(* The sizes that SizeAssumption allows.                                   *)
LEMMA SizesAre ==
  Width \in Nat \ {0} /\ Height \in Nat \ {0} /\ Grid \in Nat \ {0}
  BY SizeAssumption

(* The constructor takes the sizes from the header and leaves no data      *)
(* (qoi.cpp:7).                                                            *)
LEMMA HeaderRead ==
  Decoder(Header) = [data |-> <<>>, width |-> Width, height |-> Height,
                     prev_pixels |-> [i \in 0 .. 63 |-> Clear], last_pixel |-> Black,
                     run_counter |-> 0]
  <1> DEFINE w1 == Width \div 256
             w2 == Width % 256
             h1 == Height \div 256
             h2 == Height % 256
             head == <<113, 111, 105, 102, 0, 0, w1, w2, 0, 0, h1, h2, 4, 0>>
             from4 == SubSeq(head, 4 + 1, 14)
             from8 == SubSeq(head, 8 + 1, 14)
  <1>2. /\ w1 \in Nat /\ w2 \in Nat /\ h1 \in Nat /\ h2 \in Nat
        /\ w1 * 256 + w2 = Width /\ h1 * 256 + h2 = Height
    BY SizesAre, TwoBytes
  <1>3. Header = head
    BY DEF Header
  <1> HIDE DEF w1, w2, h1, h2
  <1>4. /\ head \in Seq(Nat) /\ Len(head) = 14
        /\ head[5] = 0 /\ head[6] = 0 /\ head[7] = w1 /\ head[8] = w2
        /\ head[9] = 0 /\ head[10] = 0 /\ head[11] = h1 /\ head[12] = h2
    BY <1>2
  <1> HIDE DEF head
  <1>5. RestOf(from4, Nat, head, 14, 4) /\ RestOf(from8, Nat, head, 14, 8)
    <2>1. 4 \in 0 .. 14 /\ 8 \in 0 .. 14
      OBVIOUS
    <2> QED  BY <1>4, <2>1, SuffixFacts, Zenon
  <1> HIDE DEF from4, from8
  <1>6. /\ from4[1] = 0 /\ from4[2] = 0 /\ from4[3] = w1 /\ from4[4] = w2
        /\ from8[1] = 0 /\ from8[2] = 0 /\ from8[3] = h1 /\ from8[4] = h2
    BY <1>4, <1>5 DEF RestOf
  <1>7. U32(from4) = Width /\ U32(from8) = Height
    BY <1>2, <1>6 DEF U32
  <1>8. Sub(Header, 4) = from4 /\ Sub(Header, 8) = from8
    BY <1>3, <1>4 DEF Sub, from4, from8
  <1>9. Sub(Header, 14) = <<>>
    <2>1. SubSeq(head, 15, 14) = <<>>
      BY SubSeqEmpty
    <2> QED  BY <1>3, <1>4, <2>1 DEF Sub
  <1> QED  BY <1>7, <1>8, <1>9, Zenon DEF Decoder

(* At first the file is a header, which is a path of one point.            *)
LEMMA InitImagesInv ==
  ASSUME InitImages
  PROVE  ImageIInv
  <1> DEFINE table == [i \in 0 .. 63 |-> Clear]
             s == [data |-> <<>>, last |-> Black, indexed |-> FALSE, table |-> table,
                   at |-> 0]
             t == [j \in 0 .. 0 |-> s]
  <1>1. table \in Table /\ <<>> \in Data /\ Black \in ColorType
    BY FirstColors DEF Table, Data
  <1>2. decoder = [data |-> <<>>, width |-> Width, height |-> Height, prev_pixels |-> table,
                   last_pixel |-> Black, run_counter |-> 0]
    BY HeaderRead DEF InitImages
  <1>3. Width \in Nat /\ Height \in Nat
    BY SizesAre
  <1>4. /\ phase = "writing" /\ image = <<>> /\ decoded = <<>>
        /\ writer.last = Black /\ writer.indexed = FALSE /\ writer.table = table
    BY DEF InitImages, NewWriter
  <1>5. Settled(s)
    <2>1. ColorHash(Black) = 53
      BY DEF ColorHash, Black, Color
    <2>2. s.table[53] = Clear /\ s.last = Black
      OBVIOUS
    <2> HIDE DEF s
    <2> QED  BY <2>1, <2>2, FirstColors DEF Settled
  <1>6. s \in Point
    BY <1>1 DEF Point
  <1>7. Knows(decoder.prev_pixels, s.table) /\ s.data = decoder.data /\ s.last = decoder.last_pixel
    BY <1>2 DEF Knows
  <1>8. s.at = 0 /\ s.data = <<>> /\ s.last = Black /\ s.indexed = FALSE /\ s.table = table
    OBVIOUS
  <1>9. decoder \in DecoderType /\ decoder.run_counter = 0
    BY <1>1, <1>2, <1>3 DEF DecoderType
  <1> HIDE DEF s, table
  <1>10. t[0] = s /\ t \in [0 .. 0 -> Point] /\ \A j \in 0 .. 0 : t[j] = s
    BY <1>6
  <1> HIDE DEF t
  <1>11. Path(t, 0, image)
    BY <1>4, <1>5, <1>8, <1>10 DEF Path
  <1>12. FileLeft
    <2>1. AtDecoder(t[0], decoder, Len(decoded))
      BY <1>4, <1>7, <1>8, <1>9, <1>10 DEF AtDecoder
    <2>2. Len(image) = 0 /\ 0 \in Nat
      BY <1>4
    <2>3. /\ t[0].at = Len(image) /\ t[0].data = <<>> /\ t[0].last = writer.last
          /\ t[0].indexed = writer.indexed /\ t[0].table = writer.table
      BY <1>4, <1>8, <1>10, <2>2, Zenon
    <2> QED  BY <1>4, <1>11, <2>1, <2>2, <2>3 DEF FileLeft
  <1>13. ImageTypes
    BY <1>2, <1>4, <1>9 DEF ImageTypes
  <1> QED  BY <1>4, <1>9, <1>12, <1>13 DEF ImageIInv, Returned, PhaseSays

(* The encoder writes a chunk.                                             *)
LEMMA EmitKeeps ==
  ASSUME ImageIInv, NEW bytes \in Data, NEW pixels \in Seq(ColorType), NEW table \in Table,
         Len(pixels) > 0, Emit(bytes, pixels, table), NEW v \in Point,
         v = [data |-> <<>>, last |-> Last(pixels), indexed |-> bytes[1] < 64, table |-> table,
              at |-> Len(image) + Len(pixels)],
         Settled(v),
         \A s \in Point : s.data = bytes /\ s.last = writer.last
                          /\ s.indexed = writer.indexed /\ s.table = writer.table
                          /\ s.at = Len(image)
                            => Written(image \o pixels, s, v)
  PROVE  ImageIInv'
  <1> DEFINE all == image \o pixels
  <1>0. PICK n \in Nat : \E t :
           /\ Path(t, n, image) /\ AtDecoder(t[0], decoder, Len(decoded))
           /\ t[n].at = Len(image)
           /\ phase = "writing" =>
                t[n].data = <<>> /\ t[n].last = writer.last /\ t[n].indexed = writer.indexed
                /\ t[n].table = writer.table
    BY DEF ImageIInv, FileLeft
  <1>1. PICK t :
           /\ Path(t, n, image) /\ AtDecoder(t[0], decoder, Len(decoded))
           /\ t[n].at = Len(image)
           /\ phase = "writing" =>
                t[n].data = <<>> /\ t[n].last = writer.last /\ t[n].indexed = writer.indexed
                /\ t[n].table = writer.table
    BY <1>0
  <1>2. /\ phase = "writing" /\ phase' = "writing" /\ decoded' = decoded /\ font' = font
        /\ image' = all /\ decoder' = [decoder EXCEPT !.data = @ \o bytes]
        /\ writer'.last = Last(pixels) /\ writer'.indexed = (bytes[1] < 64)
        /\ writer'.table = table
    BY DEF Emit
  <1>3. /\ image \in Seq(ColorType) /\ decoded = <<>> /\ decoder \in DecoderType
        /\ decoder.width = Width /\ decoder.height = Height /\ decoder.run_counter = 0
        /\ \A i \in 1 .. Len(decoded) : decoded[i] = image[i]
    BY <1>2 DEF ImageIInv, ImageTypes, PhaseSays, Returned
  <1>4. /\ all \in Seq(ColorType) /\ Len(all) = Len(image) + Len(pixels)
        /\ Len(image) \in Nat /\ Len(pixels) \in Nat
    BY <1>3, ConcatProperties, LenProperties
  <1>5. /\ decoder' \in DecoderType /\ decoder'.data = decoder.data \o bytes
        /\ decoder'.width = Width /\ decoder'.height = Height /\ decoder'.run_counter = 0
        /\ decoder'.last_pixel = decoder.last_pixel
        /\ decoder'.prev_pixels = decoder.prev_pixels
    <2>1. decoder.data \o bytes \in Data
      BY <1>3, ConcatProperties DEF DecoderType, Data
    <2> QED  BY <1>2, <1>3, <2>1 DEF DecoderType
  <1> HIDE DEF all
  <1> DEFINE r == [j \in 0 .. n |-> Longer(t[j], bytes)]
             q == [j \in 0 .. n + 1 |-> IF j <= n THEN r[j] ELSE v]
  <1>6. Path(r, n, all)
    BY <1>1, <1>3, PathLonger DEF all
  <1>7. 0 \in 0 .. n /\ n \in 0 .. n
    OBVIOUS
  <1>8. t[0] \in Point /\ t[n] \in Point
    BY <1>1, <1>7, Zenon DEF Path
  <1>9. r[0] = Longer(t[0], bytes) /\ r[n] = Longer(t[n], bytes)
    BY <1>7, Zenon
  <1>10. /\ r[0].data = decoder'.data /\ r[0].last = decoder'.last_pixel
         /\ r[0].table = t[0].table /\ r[0].at = t[0].at
    <2> DEFINE s == t[0]
    <2>1. s \in Point /\ r[0] = Longer(s, bytes)
      BY <1>8, <1>9
    <2>2. s.data = decoder.data /\ s.last = decoder.last_pixel
      BY <1>1 DEF AtDecoder
    <2> HIDE DEF s, r
    <2>3. /\ Longer(s, bytes).data = s.data \o bytes /\ Longer(s, bytes).last = s.last
          /\ Longer(s, bytes).table = s.table /\ Longer(s, bytes).at = s.at
      BY <2>1, LongerPoint, Zenon
    <2> QED  BY <1>5, <2>1, <2>2, <2>3, Zenon DEF s
  <1>11. Knows(decoder'.prev_pixels, r[0].table) /\ r[0].at = Len(decoded')
    <2>1. Knows(decoder.prev_pixels, t[0].table) /\ t[0].at = Len(decoded) + 0
      BY <1>1, <1>3 DEF AtDecoder
    <2>2. Len(decoded) = 0
      BY <1>3
    <2> QED  BY <1>2, <1>5, <1>10, <2>1, <2>2
  <1>12. /\ r[n] \in Point /\ r[n].data = bytes /\ r[n].last = writer.last
         /\ r[n].indexed = writer.indexed /\ r[n].table = writer.table /\ r[n].at = Len(image)
    <2> DEFINE s == t[n]
    <2>1. s \in Point /\ r[n] = Longer(s, bytes)
      BY <1>8, <1>9
    <2>2. /\ s.data = <<>> /\ s.last = writer.last /\ s.indexed = writer.indexed
          /\ s.table = writer.table /\ s.at = Len(image)
      BY <1>1, <1>2, Zenon
    <2>3. <<>> \o bytes = bytes
      BY ConcatEmptySeq DEF Data
    <2> HIDE DEF s, r
    <2>4. /\ Longer(s, bytes) \in Point /\ Longer(s, bytes).indexed = s.indexed
          /\ Longer(s, bytes).data = s.data \o bytes /\ Longer(s, bytes).last = s.last
          /\ Longer(s, bytes).table = s.table /\ Longer(s, bytes).at = s.at
      BY <2>1, LongerPoint, Zenon
    <2> QED  BY <2>1, <2>2, <2>3, <2>4, Zenon
  <1>13. /\ v.at = Len(all) /\ v.data = <<>> /\ v.last = Last(pixels) /\ v.indexed = (bytes[1] < 64)
         /\ v.table = table
    BY <1>4
  <1>14. v.at <= Len(all)
    BY <1>4, <1>13
  <1>15. Written(all, r[n], v)
    BY <1>12, Zenon DEF all
  <1>16. Path(q, n + 1, all)
    <2> HIDE DEF r
    <2> QED  BY <1>6, <1>14, <1>15, PathExtended
  <1>17. q[0] = r[0] /\ q[n + 1] = v /\ n + 1 \in Nat
    OBVIOUS
  <1> HIDE DEF q, r
  <1>18. AtDecoder(q[0], decoder', Len(decoded'))
    <2>1. r[0].at = Len(decoded') + decoder'.run_counter
      <3>1. Len(decoded') = 0
        BY <1>2, <1>3
      <3> QED  BY <1>5, <1>11, <3>1
    <2> QED  BY <1>10, <1>11, <1>17, <2>1, Zenon DEF AtDecoder
  <1>19. FileLeft'
    BY <1>2, <1>13, <1>16, <1>17, <1>18 DEF FileLeft
  <1>20. ImageTypes'
    BY <1>2, <1>3, <1>4, <1>5 DEF ImageTypes
  <1>21. Returned'
    BY <1>2, <1>3, <1>4, <1>5 DEF Returned
  <1>22. PhaseSays'
    BY <1>2, <1>3, <1>5 DEF PhaseSays
  <1> QED  BY <1>19, <1>20, <1>21, <1>22 DEF ImageIInv

(* While the file is written, the writer is the end of the path.           *)
LEMMA WriterIsPoint ==
  ASSUME ImageIInv, phase = "writing"
  PROVE  writer.last \in ColorType /\ writer.table \in Table /\ Settled(writer)
  <1>0. PICK n \in Nat : \E t :
           /\ Path(t, n, image)
           /\ t[n].last = writer.last /\ t[n].table = writer.table
    BY DEF ImageIInv, FileLeft
  <1>1. PICK t :
           /\ Path(t, n, image)
           /\ t[n].last = writer.last /\ t[n].table = writer.table
    BY <1>0
  <1>2. n \in 0 .. n
    OBVIOUS
  <1>3. t[n] \in Point /\ Settled(t[n])
    BY <1>1, <1>2, Zenon DEF Path
  <1>4. t[n].last \in ColorType /\ t[n].table \in Table
    BY <1>3 DEF Point
  <1> QED  BY <1>1, <1>3, <1>4, Zenon DEF Settled

(* The encoder writes a pixel, by a chunk of any kind that can say it.     *)
LEMMA WritePixelKeeps ==
  ASSUME ImageIInv, WritePixel
  PROVE  ImageIInv'
  <1>1. phase = "writing"
    BY DEF WritePixel, Emit
  <1>2. writer.last \in ColorType /\ writer.table \in Table
    BY <1>1, WriterIsPoint
  <1>3. PICK c \in Colors : \E bytes \in Encodings(writer, c) :
           Emit(bytes, <<c>>, [writer.table EXCEPT ![ColorHash(c)] = c])
    BY Zenon DEF WritePixel
  <1>4. c \in ColorType
    BY <1>3, SizeAssumption
  <1>5. PICK bytes \in Encodings(writer, c) :
           Emit(bytes, <<c>>, [writer.table EXCEPT ![ColorHash(c)] = c])
    BY <1>3, Zenon
  <1>6. bytes \in Data
    BY <1>2, <1>4, EncodingData, Zenon
  <1> DEFINE pixels == <<c>>
             table == [writer.table EXCEPT ![ColorHash(c)] = c]
             at == Len(image) + Len(pixels)
             v == [data |-> <<>>, last |-> Last(pixels), indexed |-> bytes[1] < 64, table |-> table,
                   at |-> at]
  <1>7. pixels \in Seq(ColorType) /\ Len(pixels) = 1 /\ Last(pixels) = c
    BY <1>4 DEF Last
  <1>8. ColorHash(c) \in 0 .. 63
    BY <1>4, HashInTable
  <1>9. table \in Table /\ table[ColorHash(c)] = c
    BY <1>2, <1>4, <1>8 DEF Table
  <1>10. Emit(bytes, pixels, table)
    BY <1>5
  <1>11. image \in Seq(ColorType) /\ Len(image) \in Nat
    BY LenProperties DEF ImageIInv, ImageTypes
  <1>12. at = Len(image) + 1 /\ at \in Nat
    BY <1>7, <1>11
  <1>13. Joined(image \o pixels, ColorType, image, Len(image), pixels, 1)
    BY <1>7, <1>11, ConcatFacts
  <1>14. (image \o pixels)[at] = c
    <2>1. at \in Len(image) + 1 .. Len(image) + 1 /\ at - Len(image) = 1 /\ pixels[1] = c
      BY <1>11, <1>12
    <2> HIDE DEF at, pixels
    <2> QED  BY <1>13, <2>1 DEF Joined
  <1> HIDE DEF table, pixels, at
  <1>15. <<>> \in Data
    BY DEF Data
  <1>16. /\ v \in Point
         /\ v.data = <<>> /\ v.last = c /\ v.indexed = (bytes[1] < 64) /\ v.table = table /\ v.at = at
    BY <1>4, <1>7, <1>9, <1>12, <1>15 DEF Point
  <1>17. v = [data |-> <<>>, last |-> Last(pixels), indexed |-> bytes[1] < 64, table |-> table,
              at |-> Len(image) + Len(pixels)]
    BY DEF at
  <1> HIDE DEF v
  <1>18. Settled(v)
    BY <1>9, <1>16 DEF Settled
  <1>19. ASSUME NEW s \in Point, s.data = bytes, s.last = writer.last,
                s.indexed = writer.indexed, s.table = writer.table, s.at = Len(image)
         PROVE  Written(image \o pixels, s, v)
    <2>1. Encodings(s, c) = Encodings(writer, c)
      BY <1>19, SameEncodings
    <2>2. bytes \in Encodings(s, v.last)
      BY <1>5, <1>16, <2>1, Zenon
    <2>3. s.data = bytes \o v.data
      <3>1. bytes \o <<>> = bytes
        BY <1>6, ConcatEmptySeq DEF Data
      <3> QED  BY <1>16, <1>19, <3>1, Zenon
    <2>4. v.indexed = (bytes[1] < 64) /\ v.table = [s.table EXCEPT ![ColorHash(v.last)] = v.last]
      BY <1>16, <1>19, Zenon DEF table
    <2>5. v.at = s.at + 1 /\ (image \o pixels)[v.at] = v.last
      BY <1>12, <1>14, <1>16, <1>19, Zenon
    <2> QED  BY <2>2, <2>3, <2>4, <2>5, Zenon DEF Written, PixelWritten
  <1>20. Len(pixels) > 0
    BY <1>7
  <1> QED  BY <1>6, <1>7, <1>9, <1>10, <1>16, <1>17, <1>18, <1>19, <1>20, EmitKeeps

(* The encoder writes a run of its last pixel.                             *)
LEMMA WriteRunKeeps ==
  ASSUME ImageIInv, WriteRun
  PROVE  ImageIInv'
  <1>1. phase = "writing"
    BY DEF WriteRun, Emit
  <1>2. writer.last \in ColorType /\ writer.table \in Table /\ Settled(writer)
    BY <1>1, WriterIsPoint
  <1>3. PICK k \in Runs : Emit(<<192 + k - 1>>, [i \in 1 .. k |-> writer.last], writer.table)
    BY Zenon DEF WriteRun
  <1>4. k \in 1 .. 62
    BY <1>3, SizeAssumption
  <1> DEFINE pixels == [i \in 1 .. k |-> writer.last]
             bytes == <<192 + k - 1>>
             at == Len(image) + Len(pixels)
             v == [data |-> <<>>, last |-> Last(pixels), indexed |-> bytes[1] < 64,
                   table |-> writer.table, at |-> at]
  <1>5. bytes \in Data /\ (bytes[1] < 64) = FALSE
    BY <1>4 DEF Data, Byte
  <1>6. pixels \in Seq(ColorType) /\ Len(pixels) = k /\ Last(pixels) = writer.last
    BY <1>2, <1>4 DEF Last
  <1>7. Emit(bytes, pixels, writer.table)
    BY <1>3
  <1>8. image \in Seq(ColorType) /\ Len(image) \in Nat
    BY LenProperties DEF ImageIInv, ImageTypes
  <1>9. at = Len(image) + k /\ at \in Nat
    BY <1>4, <1>6, <1>8
  <1>10. \A i \in 1 .. k : pixels[i] = writer.last
    OBVIOUS
  <1> HIDE DEF pixels
  <1>11. Joined(image \o pixels, ColorType, image, Len(image), pixels, k)
    BY <1>6, <1>8, ConcatFacts
  <1>12. ASSUME NEW i \in 1 .. k PROVE (image \o pixels)[Len(image) + i] = writer.last
    <2>1. /\ Len(image) + i \in Len(image) + 1 .. Len(image) + k
          /\ (Len(image) + i) - Len(image) = i
      BY <1>4, <1>8
    <2> QED  BY <1>4, <1>8, <1>10, <1>11, <2>1 DEF Joined
  <1> HIDE DEF bytes, at
  <1>13. <<>> \in Data
    BY DEF Data
  <1>14. /\ v \in Point
         /\ v.data = <<>> /\ v.last = writer.last /\ v.indexed = FALSE /\ v.table = writer.table
         /\ v.at = at
    BY <1>2, <1>5, <1>6, <1>9, <1>13 DEF Point
  <1>15. v = [data |-> <<>>, last |-> Last(pixels), indexed |-> bytes[1] < 64,
              table |-> writer.table, at |-> Len(image) + Len(pixels)]
    BY DEF at
  <1> HIDE DEF v
  <1>16. Settled(v)
    BY <1>2, <1>14, Zenon DEF Settled
  <1>17. ASSUME NEW s \in Point, s.data = bytes, s.last = writer.last,
                s.indexed = writer.indexed, s.table = writer.table, s.at = Len(image)
         PROVE  Written(image \o pixels, s, v)
    <2>1. s.data = <<192 + k - 1>> \o v.data
      <3>1. bytes \o <<>> = bytes
        BY <1>5, ConcatEmptySeq DEF Data
      <3> QED  BY <1>14, <1>17, <3>1, Zenon DEF bytes
    <2>2. v.last = s.last /\ v.indexed = FALSE /\ v.table = s.table /\ v.at = s.at + k
      BY <1>9, <1>14, <1>17, Zenon
    <2>3. \A i \in 1 .. k : (image \o pixels)[s.at + i] = s.last
      BY <1>12, <1>17, Zenon
    <2> QED  BY <1>4, <2>1, <2>2, <2>3, Zenon DEF Written, RunWritten
  <1>18. Len(pixels) > 0
    BY <1>4, <1>6
  <1> QED  BY <1>2, <1>5, <1>6, <1>7, <1>14, <1>15, <1>16, <1>17, <1>18, EmitKeeps

(* The end marker is put behind the last chunk: the whole path is then     *)
(* left to the decoder, each point of it with the marker at its end.       *)
LEMMA CloseFileKeeps ==
  ASSUME ImageIInv, CloseFile
  PROVE  ImageIInv'
  <1>1. /\ phase = "writing" /\ Len(image) = Width * Height /\ phase' = "decoding"
        /\ decoder' = [decoder EXCEPT !.data = @ \o EndMarker]
        /\ image' = image /\ decoded' = decoded /\ font' = font
    BY DEF CloseFile
  <1>0. PICK n \in Nat : \E t :
           /\ Path(t, n, image) /\ AtDecoder(t[0], decoder, Len(decoded))
           /\ t[n].at = Len(image) /\ t[n].data = <<>>
    BY <1>1 DEF ImageIInv, FileLeft
  <1>2. PICK t :
           /\ Path(t, n, image) /\ AtDecoder(t[0], decoder, Len(decoded))
           /\ t[n].at = Len(image) /\ t[n].data = <<>>
    BY <1>0
  <1>3. /\ image \in Seq(ColorType) /\ decoder \in DecoderType
        /\ decoder.width = Width /\ decoder.height = Height
    BY DEF ImageIInv, ImageTypes
  <1>4. EndMarker \in Data /\ Len(EndMarker) = 8
    BY DEF EndMarker, Data, Byte
  <1>5. /\ decoder' \in DecoderType /\ decoder'.data = decoder.data \o EndMarker
        /\ decoder'.width = Width /\ decoder'.height = Height
        /\ decoder'.run_counter = decoder.run_counter
        /\ decoder'.last_pixel = decoder.last_pixel
        /\ decoder'.prev_pixels = decoder.prev_pixels
    <2>1. decoder.data \o EndMarker \in Data
      BY <1>3, <1>4, ConcatProperties DEF DecoderType, Data
    <2> QED  BY <1>1, <1>3, <2>1 DEF DecoderType
  <1> DEFINE r == [j \in 0 .. n |-> Longer(t[j], EndMarker)]
  <1>6. Path(r, n, image)
    <2>1. <<>> \in Seq(ColorType) /\ image \o <<>> = image
      BY <1>3, ConcatEmptySeq
    <2>2. Path(r, n, image \o <<>>)
      BY <1>2, <1>3, <1>4, <2>1, PathLonger
    <2> HIDE DEF r
    <2> QED  BY <2>1, <2>2, Zenon
  <1>7. 0 \in 0 .. n /\ n \in 0 .. n
    OBVIOUS
  <1>8. ASSUME NEW j \in 0 .. n
        PROVE  /\ t[j] \in Point
               /\ r[j].data = t[j].data \o EndMarker /\ r[j].last = t[j].last
               /\ r[j].table = t[j].table /\ r[j].at = t[j].at
    <2> DEFINE s == t[j]
    <2>1. s \in Point /\ r[j] = Longer(s, EndMarker)
      BY <1>2, <1>8, Zenon DEF Path
    <2> HIDE DEF s
    <2>2. /\ Longer(s, EndMarker).data = s.data \o EndMarker /\ Longer(s, EndMarker).last = s.last
          /\ Longer(s, EndMarker).table = s.table /\ Longer(s, EndMarker).at = s.at
      BY <1>4, <2>1, LongerPoint, Zenon
    <2> HIDE DEF r
    <2> QED  BY <2>1, <2>2, Zenon DEF s
  <1> HIDE DEF r
  <1>9. AtDecoder(r[0], decoder', Len(decoded'))
    <2>1. /\ r[0].data = t[0].data \o EndMarker /\ r[0].last = t[0].last
          /\ r[0].table = t[0].table /\ r[0].at = t[0].at
      BY <1>7, <1>8, Zenon
    <2> QED  BY <1>1, <1>2, <1>5, <2>1, Zenon DEF AtDecoder
  <1>10. r[n].at = Len(image) /\ r[n].data = EndMarker
    <2>1. <<>> \o EndMarker = EndMarker
      BY <1>4, ConcatEmptySeq DEF Data
    <2> QED  BY <1>2, <1>7, <1>8, <2>1, Zenon
  <1>11. ASSUME NEW j \in 0 .. n PROVE Len(r[j].data) >= 8
    <2> DEFINE data == t[j].data
    <2>1. data \in Data /\ r[j].data = data \o EndMarker
      BY <1>8, <1>11 DEF Point
    <2> HIDE DEF data
    <2>2. Len(data) \in Nat /\ Len(data \o EndMarker) = Len(data) + 8
      <3>1. Len(data) \in Nat
        BY <2>1, LenProperties DEF Data
      <3>2. Joined(data \o EndMarker, Byte, data, Len(data), EndMarker, 8)
        BY <1>4, <2>1, ConcatFacts, Zenon DEF Data
      <3> QED  BY <3>1, <3>2 DEF Joined
    <2> QED  BY <2>1, <2>2
  <1>12. FileLeft'
    <2>1. /\ Path(r, n, image') /\ AtDecoder(r[0], decoder', Len(decoded'))
          /\ r[n].at = Len(image') /\ phase' # "writing"
          /\ r[n].data = EndMarker /\ \A j \in 0 .. n : Len(r[j].data) >= 8
      BY <1>1, <1>6, <1>9, <1>10, <1>11
    <2> QED  BY <2>1, Zenon DEF FileLeft
  <1>13. ImageTypes'
    BY <1>1, <1>5 DEF ImageIInv, ImageTypes
  <1>14. Returned'
    BY <1>1, <1>5 DEF ImageIInv, Returned
  <1>15. PhaseSays'
    BY <1>1 DEF PhaseSays
  <1> QED  BY <1>12, <1>13, <1>14, <1>15 DEF ImageIInv

(* The decoder has gone on by one pixel, as far as the first point of a    *)
(* path.                                                                   *)
LEMMA ReturnedOneMore ==
  ASSUME ImageIInv, Decode, NEW n \in Nat, NEW t, Path(t, n, image),
         AtDecoder(t[0], decoder', Len(decoded) + 1), t[n].at = Len(image), t[n].data = EndMarker,
         \A j \in 0 .. n : Len(t[j].data) >= 8,
         decoder' \in DecoderType, decoder'.width = Width, decoder'.height = Height,
         decoder'.last_pixel = image[Len(decoded) + 1],
         \A i \in 1 .. decoder'.run_counter : image[Len(decoded) + 1 + i] = decoder'.last_pixel
  PROVE  /\ ImageIInv' /\ Len(decoded) + 1 <= Len(image)
         /\ decoder'.last_pixel = image[Len(decoded) + 1]
  <1> DEFINE m == Len(decoded)
             p == decoder'.last_pixel
  <1>1. /\ phase = "decoding" /\ phase' = "decoding" /\ image' = image
        /\ decoded' = Append(decoded, p)
    BY DEF Decode
  <1>2. /\ image \in Seq(ColorType) /\ decoded \in Seq(ColorType)
        /\ \A i \in 1 .. m : decoded[i] = image[i]
        /\ Len(image) = Width * Height
    BY <1>1 DEF ImageIInv, ImageTypes, Returned, PhaseSays
  <1>3. m \in Nat /\ Len(image) \in Nat
    BY <1>2, LenProperties
  <1>4. p \in ColorType /\ decoder'.run_counter \in Nat
    BY DEF DecoderType
  <1> HIDE DEF p
  <1>5. /\ decoded' \in Seq(ColorType) /\ Len(decoded') = m + 1
        /\ \A i \in 1 .. m : decoded'[i] = decoded[i]
        /\ decoded'[m + 1] = p
    BY <1>1, <1>2, <1>4
  <1> HIDE DEF m
  <1>6. 0 \in 0 .. n
    OBVIOUS
  <1>7. t[0].at <= Len(image) /\ t[0].at = m + 1 + decoder'.run_counter
    BY <1>6, Zenon DEF Path, AtDecoder, m
  <1>8. m + 1 + decoder'.run_counter <= Len(image) /\ m + 1 <= Len(image)
    BY <1>3, <1>4, <1>7
  <1>9. ASSUME NEW i \in 1 .. m + 1 PROVE decoded'[i] = image[i]
    <2>1. CASE i = m + 1
      BY <1>5, <2>1 DEF m, p
    <2>2. CASE i # m + 1
      <3>1. i \in 1 .. m
        BY <1>3, <2>2
      <3> QED  BY <1>2, <1>5, <3>1, Zenon
    <2> QED  BY <2>1, <2>2
  <1>10. Returned'
    <2>1. \A i \in 1 .. decoder'.run_counter : image[m + 1 + i] = decoder'.last_pixel
      BY DEF m
    <2>2. /\ Len(decoded') + decoder'.run_counter <= Len(image)
          /\ \A i \in 1 .. Len(decoded') : decoded'[i] = image[i]
          /\ \A i \in 1 .. decoder'.run_counter : image[Len(decoded') + i] = decoder'.last_pixel
      BY <1>5, <1>8, <1>9, <2>1, Zenon
    <2> QED  BY <1>1, <2>2 DEF Returned
  <1>11. FileLeft'
    <2>1. AtDecoder(t[0], decoder', Len(decoded'))
      BY <1>5 DEF m
    <2>2. /\ Path(t, n, image') /\ t[n].at = Len(image') /\ phase' # "writing"
      BY <1>1
    <2> QED  BY <2>1, <2>2, Zenon DEF FileLeft
  <1>12. ImageTypes'
    BY <1>1, <1>2, <1>5 DEF ImageTypes
  <1>13. PhaseSays'
    BY <1>1, <1>2 DEF PhaseSays
  <1> QED  BY <1>8, <1>10, <1>11, <1>12, <1>13 DEF ImageIInv, m

(* next_pixel returns the next pixel of the image.                         *)
LEMMA DecodeKeeps ==
  ASSUME ImageIInv, Decode
  PROVE  /\ ImageIInv' /\ Len(decoded) + 1 <= Len(image)
         /\ decoder'.last_pixel = image[Len(decoded) + 1]
  <1> DEFINE d == decoder
             m == Len(decoded)
  <1>1. phase = "decoding" /\ ~Finished(d) /\ decoder' = NextPixel(d)
    BY DEF Decode
  <1>0. PICK n \in Nat : \E t :
           /\ Path(t, n, image) /\ AtDecoder(t[0], d, m)
           /\ t[n].at = Len(image) /\ t[n].data = EndMarker
           /\ \A j \in 0 .. n : Len(t[j].data) >= 8
    BY <1>1 DEF ImageIInv, FileLeft
  <1>2. PICK t :
           /\ Path(t, n, image) /\ AtDecoder(t[0], d, m)
           /\ t[n].at = Len(image) /\ t[n].data = EndMarker
           /\ \A j \in 0 .. n : Len(t[j].data) >= 8
    BY <1>0
  <1>3. /\ image \in Seq(ColorType) /\ decoded \in Seq(ColorType) /\ d \in DecoderType
        /\ d.width = Width /\ d.height = Height
        /\ \A i \in 1 .. d.run_counter : image[m + i] = d.last_pixel
    BY DEF ImageIInv, ImageTypes, Returned
  <1>4. m \in Nat /\ d.run_counter \in Nat
    BY <1>3, LenProperties DEF DecoderType
  <1>5. 0 \in 0 .. n
    OBVIOUS
  <1> HIDE DEF d, m
  <1>6. CASE d.run_counter > 0
    <2> DEFINE rc == d.run_counter
               e == [d EXCEPT !.run_counter = rc - 1]
    <2>1. decoder' = e
      BY <1>1, <1>6 DEF NextPixel
    <2>2. rc - 1 \in Nat /\ 1 \in 1 .. rc /\ m + 1 + (rc - 1) = m + rc
      BY <1>4, <1>6
    <2>3. /\ e \in DecoderType /\ e.width = Width /\ e.height = Height
          /\ e.run_counter = rc - 1 /\ e.last_pixel = d.last_pixel /\ e.data = d.data
          /\ e.prev_pixels = d.prev_pixels
      BY <1>3, <2>2 DEF DecoderType
    <2> HIDE DEF e
    <2>4. image[m + 1] = d.last_pixel
      BY <1>3, <2>2
    <2>5. ASSUME NEW i \in 1 .. rc - 1 PROVE image[m + 1 + i] = d.last_pixel
      <3> DEFINE k == 1 + i
      <3>1. k \in 1 .. rc /\ m + 1 + i = m + k
        BY <1>4, <2>2
      <3> HIDE DEF k
      <3>2. image[m + k] = d.last_pixel
        BY <1>3, <3>1, Zenon
      <3> QED  BY <3>1, <3>2
    <2>6. AtDecoder(t[0], e, m + 1)
      BY <1>2, <2>2, <2>3, Zenon DEF AtDecoder
    <2> HIDE DEF rc
    <2>7. /\ AtDecoder(t[0], decoder', Len(decoded) + 1)
          /\ decoder' \in DecoderType /\ decoder'.width = Width /\ decoder'.height = Height
          /\ decoder'.last_pixel = image[Len(decoded) + 1]
          /\ \A i \in 1 .. decoder'.run_counter :
               image[Len(decoded) + 1 + i] = decoder'.last_pixel
      BY <2>1, <2>3, <2>4, <2>5, <2>6, Zenon DEF m
    <2> QED  BY <1>2, <2>7, ReturnedOneMore
  <1>7. CASE d.run_counter = 0
    <2>1. n # 0
      <3>1. SUFFICES ASSUME n = 0 PROVE FALSE
        OBVIOUS
      <3>2. d.data = EndMarker
        BY <1>2, <3>1 DEF AtDecoder
      <3> QED  BY <1>1, <1>7, <3>2 DEF Finished, EndMarker
    <2> DEFINE s == t[0]
               u == t[1]
               r == [j \in 0 .. n - 1 |-> t[j + 1]]
    <2>2. 1 \in 0 .. n /\ 1 \in 1 .. n /\ 1 - 1 = 0 /\ n - 1 \in Nat /\ n \in Nat \ {0}
      BY <2>1
    <2>3. s \in Point /\ u \in Point /\ Settled(s) /\ Written(image, s, u) /\ AtDecoder(s, d, m)
      BY <1>2, <1>5, <2>2, Zenon DEF Path
    <2>4. Path(r, n - 1, image)
      BY <1>2, <2>2, PathShorter
    <2>5. r[0] = u /\ r[n - 1] = t[n]
      BY <2>2
    <2>6. ASSUME NEW j \in 0 .. n - 1 PROVE Len(r[j].data) >= 8
      <3>1. j + 1 \in 0 .. n /\ r[j] = t[j + 1]
        BY <2>2
      <3> HIDE DEF r
      <3> QED  BY <1>2, <3>1
    <2> HIDE DEF s, u, r
    <2> DEFINE e == NextPixel(d)
    <2>7. PICK k \in 1 .. 62 :
             /\ e \in DecoderType
             /\ e = AfterChunk(d, u.data, k - 1, u.last)
             /\ AtDecoder(u, e, m + 1)
             /\ \A i \in 1 .. k : image[m + i] = u.last
      <3>1. d \in DecoderType /\ m \in Nat /\ s \in Point /\ u \in Point /\ AtDecoder(s, d, m)
            /\ Settled(s)
        BY <1>3, <1>4, <2>3, Zenon
      <3>2. PixelWritten(image, s, u) => ReadsOn(image, d, m, u)
        BY <1>7, <3>1, PixelDecoded, Zenon
      <3>3. RunWritten(image, s, u) => ReadsOn(image, d, m, u)
        BY <1>7, <3>1, RunDecoded, Zenon
      <3>4. ReadsOn(image, d, m, u)
        BY <2>3, <3>2, <3>3, Zenon DEF Written
      <3> QED  BY <3>4, Zenon DEF ReadsOn
    <2>8. decoder' = e
      BY <1>1
    <2> HIDE DEF e
    <2>9. /\ e.width = Width /\ e.height = Height /\ e.run_counter = k - 1 /\ e.last_pixel = u.last
      BY <1>3, <2>7 DEF AfterChunk, DecoderType
    <2>10. image[m + 1] = u.last
      BY <2>7
    <2>11. ASSUME NEW i \in 1 .. k - 1 PROVE image[m + 1 + i] = u.last
      <3> DEFINE l == 1 + i
      <3>1. l \in 1 .. k /\ m + 1 + i = m + l
        BY <1>4
      <3> HIDE DEF l
      <3>2. image[m + l] = u.last
        BY <2>7, <3>1, Zenon
      <3> QED  BY <3>1, <3>2
    <2>12. /\ AtDecoder(r[0], decoder', Len(decoded) + 1)
           /\ decoder' \in DecoderType /\ decoder'.width = Width /\ decoder'.height = Height
           /\ decoder'.last_pixel = image[Len(decoded) + 1]
           /\ \A i \in 1 .. decoder'.run_counter :
                image[Len(decoded) + 1 + i] = decoder'.last_pixel
      BY <2>5, <2>7, <2>8, <2>9, <2>10, <2>11, Zenon DEF m
    <2>13. r[n - 1].at = Len(image) /\ r[n - 1].data = EndMarker
      BY <1>2, <2>5, Zenon
    <2> QED  BY <2>2, <2>4, <2>6, <2>12, <2>13, ReturnedOneMore
  <1> QED  BY <1>4, <1>6, <1>7

(* The loop ends when the whole image has been returned.                   *)
LEMMA FinishedIsAll ==
  ASSUME ImageIInv, phase = "decoding", Finished(decoder)
  PROVE  decoded = image
  <1>0. PICK n \in Nat : \E t :
           /\ Path(t, n, image) /\ AtDecoder(t[0], decoder, Len(decoded))
           /\ t[n].at = Len(image) /\ t[n].data = EndMarker
           /\ \A j \in 0 .. n : Len(t[j].data) >= 8
    BY DEF ImageIInv, FileLeft
  <1>1. PICK t :
           /\ Path(t, n, image) /\ AtDecoder(t[0], decoder, Len(decoded))
           /\ t[n].at = Len(image) /\ t[n].data = EndMarker
           /\ \A j \in 0 .. n : Len(t[j].data) >= 8
    BY <1>0
  <1>2. /\ image \in Seq(ColorType) /\ decoded \in Seq(ColorType) /\ decoder \in DecoderType
        /\ \A i \in 1 .. Len(decoded) : decoded[i] = image[i]
    BY DEF ImageIInv, ImageTypes, Returned
  <1>3. decoder.run_counter = 0
    BY DEF Finished
  <1>4. Len(decoded) \in Nat
    BY <1>2, LenProperties
  <1>5. n = 0
    BY <1>1, <1>2, <1>4, NotAtEnd
  <1>6. Len(decoded) = Len(image)
    BY <1>1, <1>3, <1>4, <1>5 DEF AtDecoder
  <1> QED  BY <1>2, <1>6, SeqEqual

(* The loop ends with the whole image, and from_qoi builds the font from   *)
(* it.                                                                     *)
LEMMA BuildFontKeeps ==
  ASSUME ImageIInv, BuildFont
  PROVE  ImageIInv'
  <1>1. /\ phase = "decoding" /\ phase' = "done" /\ Finished(decoder)
        /\ font' = FromQoi(decoded, decoder.width, decoder.height, Grid)
        /\ image' = image /\ decoder' = decoder /\ decoded' = decoded
    BY DEF BuildFont
  <1>2. decoded = image
    BY <1>1, FinishedIsAll
  <1>3. PhaseSays'
    BY <1>1, <1>2 DEF ImageIInv, ImageTypes, PhaseSays
  <1>4. FileLeft'
    BY <1>1 DEF ImageIInv, FileLeft
  <1> QED  BY <1>1, <1>3, <1>4 DEF ImageIInv, ImageTypes, Returned

(* Of every file an encoder can write the decoder has read a whole number  *)
(* of chunks, its table says what the encoder's said there, and it has     *)
(* returned the pixels of these chunks less the rest of a run              *)
(* (qoi.cpp:38-98, the loop of font.cpp:8).                                *)
THEOREM ImageInvariance ==
  ImageSpec => []ImageIInv
  <1>1. InitImages => ImageIInv
    BY InitImagesInv
  <1>2. ImageIInv /\ [NextImages]_imageVars => ImageIInv'
    <2> SUFFICES ASSUME ImageIInv, [NextImages]_imageVars
                 PROVE  ImageIInv'
      OBVIOUS
    <2>1. CASE UNCHANGED imageVars
      BY <2>1 DEF imageVars, ImageIInv, ImageTypes, Returned, FileLeft, PhaseSays
    <2> QED
      BY <2>1, WritePixelKeeps, WriteRunKeeps, CloseFileKeeps, DecodeKeeps, BuildFontKeeps
      DEF NextImages
  <1> QED  BY <1>1, <1>2, PTL DEF ImageSpec

-----------------------------------------------------------------------------
(* Images: the stream of pixels, and the font. *)

(* What is seen of the PixelStream.                                        *)
Left == SubSeq(image, Len(decoded) + 1, Len(image))
LastPixel == IF decoded = <<>> THEN Black ELSE Last(decoded)
Done == phase = "done"

(* The steps as those of PixelStream.                                      *)
LEMMA StreamActions ==
  /\ Left = <<>> /\ ~Done => Pixels!Init
  /\ Pixels!IsPrefix(Left, Left') /\ UNCHANGED <<LastPixel, Done>> => Pixels!Write
  /\ Left # <<>> /\ Left' = Tail(Left) /\ LastPixel' = Head(Left) /\ UNCHANGED Done
       => Pixels!Return
  /\ Left = <<>> /\ Done' = TRUE /\ UNCHANGED <<Left, LastPixel>> => Pixels!Finish
  BY Zenon DEF Pixels!Init, Pixels!Write, Pixels!Return, Pixels!Finish, Left, LastPixel, Done

(* What is written comes after all that is left.                           *)
LEMMA EmitIsWrite ==
  ASSUME ImageIInv, NEW bytes, NEW pixels \in Seq(ColorType), NEW table,
         Emit(bytes, pixels, table)
  PROVE  Pixels!Write
  <1>1. /\ phase = "writing" /\ phase' = phase /\ image' = image \o pixels /\ decoded' = decoded
    BY DEF Emit
  <1>2. image \in Seq(ColorType) /\ decoded = <<>>
    BY <1>1 DEF ImageIInv, ImageTypes, PhaseSays
  <1> DEFINE all == image \o pixels
             n == Len(image)
             m == Len(all)
  <1>3. /\ all \in Seq(ColorType) /\ n \in Nat /\ m \in Nat /\ n <= m
        /\ \A i \in 1 .. n : all[i] = image[i]
    BY <1>2, ConcatFacts, LenProperties DEF Joined
  <1>4. Left = image /\ Left' = all
    <2>1. Len(decoded) + 1 = 1
      BY <1>2
    <2>2. SubSeq(image, 1, Len(image)) = image /\ SubSeq(all, 1, Len(all)) = all
      BY <1>2, <1>3, SubSeqFull
    <2>3. Left = SubSeq(image, 1, Len(image)) /\ Left' = SubSeq(all, 1, Len(all))
      BY <1>1, <2>1, Zenon DEF Left
    <2> QED  BY <2>2, <2>3, Zenon
  <1> HIDE DEF all, m
  <1>5. SubSeq(image, 1, n) = SubSeq(all, 1, n)
    <2>1. n \in 0 .. n /\ n \in 0 .. m
      BY <1>3
    <2>2. FirstPart(SubSeq(image, 1, n), ColorType, image, n)
      BY <1>2, <2>1, PrefixFacts, Zenon
    <2>3. FirstPart(SubSeq(all, 1, n), ColorType, all, n)
      BY <1>3, <2>1, PrefixFacts, Zenon DEF m
    <2> HIDE DEF n
    <2> QED  BY <1>3, <2>2, <2>3, SeqEqual DEF FirstPart
  <1>6. Pixels!IsPrefix(image, all)
    BY <1>3, <1>5 DEF Pixels!IsPrefix, m
  <1>7. UNCHANGED <<LastPixel, Done>>
    BY <1>1 DEF LastPixel, Done
  <1> QED  BY <1>4, <1>6, <1>7, StreamActions, Zenon

(* next_pixel takes the first of the pixels that are left.                 *)
LEMMA DecodeIsReturn ==
  ASSUME ImageIInv, Decode
  PROVE  Pixels!Return
  <1> DEFINE m == Len(decoded)
             n == Len(image)
             p == decoder'.last_pixel
  <1>1. /\ phase = "decoding" /\ phase' = phase /\ image' = image
        /\ decoded' = Append(decoded, p)
    BY DEF Decode
  <1>2. /\ image \in Seq(ColorType) /\ decoded \in Seq(ColorType)
    BY DEF ImageIInv, ImageTypes
  <1>3. p = image[m + 1] /\ m + 1 <= n /\ m \in Nat /\ n \in Nat
    BY <1>2, DecodeKeeps, LenProperties
  <1>4. p \in ColorType
    BY <1>2, <1>3
  <1> HIDE DEF p
  <1>5. decoded' # <<>> /\ Len(decoded') = m + 1 /\ Last(decoded') = p
    BY <1>1, <1>2, <1>4 DEF Last
  <1> HIDE DEF m
  <1>6. m + 1 \in 1 .. n /\ n \in m + 1 .. n
    BY <1>3
  <1>7. Head(SubSeq(image, m + 1, n)) = image[m + 1]
        /\ Tail(SubSeq(image, m + 1, n)) = SubSeq(image, m + 1 + 1, n)
    BY <1>2, <1>6, HeadTailOfSubSeq
  <1>8. SubSeq(image, m + 1, n) # <<>>
    <2>1. m \in 0 .. n
      BY <1>3
    <2>2. RestOf(SubSeq(image, m + 1, n), ColorType, image, n, m)
      BY <1>2, <2>1, SuffixFacts, Zenon
    <2>3. Len(SubSeq(image, m + 1, n)) = n - m
      BY <2>2 DEF RestOf
    <2>4. n - m # 0
      BY <1>3
    <2> QED  BY <2>3, <2>4
  <1>9. Left = SubSeq(image, m + 1, n) /\ Left' = SubSeq(image, m + 1 + 1, n)
    BY <1>1, <1>5, Zenon DEF Left, m
  <1>10. LastPixel' = p /\ UNCHANGED Done
    BY <1>1, <1>5 DEF LastPixel, Done
  <1> QED  BY <1>3, <1>7, <1>8, <1>9, <1>10, StreamActions, Zenon

(* The loop ends when no pixel is left.                                    *)
LEMMA BuildFontIsFinish ==
  ASSUME ImageIInv, BuildFont
  PROVE  Pixels!Finish
  <1>1. /\ phase = "decoding" /\ phase' = "done" /\ Finished(decoder)
        /\ image' = image /\ decoded' = decoded
    BY DEF BuildFont
  <1>2. decoded = image /\ image \in Seq(ColorType)
    BY <1>1, FinishedIsAll DEF ImageIInv, ImageTypes
  <1>3. Left = <<>>
    <2>1. Len(image) \in Nat
      BY <1>2, LenProperties
    <2>2. Len(image) + 1 \in Int /\ Len(image) \in Int /\ Len(image) < Len(image) + 1
      BY <2>1
    <2>3. SubSeq(image, Len(image) + 1, Len(image)) = <<>>
      BY <2>2, SubSeqEmpty
    <2> QED  BY <1>2, <2>3 DEF Left
  <1>4. UNCHANGED <<Left, LastPixel>> /\ Done' = TRUE
    BY <1>1 DEF Left, LastPixel, Done
  <1> QED  BY <1>3, <1>4, StreamActions, Zenon

(* Each step is one of PixelStream or leaves what is seen of it.           *)
LEMMA StepOfStream ==
  ASSUME ImageIInv, [NextImages]_imageVars
  PROVE  [Pixels!Write \/ Pixels!Return \/ Pixels!Finish]_(Pixels!vars)
  <1> DEFINE Same == /\ UNCHANGED Left /\ UNCHANGED LastPixel /\ UNCHANGED Done
  <1>1. Same => UNCHANGED Pixels!vars
    BY DEF Pixels!vars, Left, LastPixel, Done
  <1>2. CASE UNCHANGED imageVars
    <2>1. Same
      BY <1>2 DEF imageVars, Left, LastPixel, Done
    <2> QED  BY <1>1, <2>1
  <1>3. CASE WritePixel
    <2>1. phase = "writing"
      BY <1>3 DEF WritePixel, Emit
    <2>2. PICK c \in Colors : \E bytes \in Encodings(writer, c) :
             Emit(bytes, <<c>>, [writer.table EXCEPT ![ColorHash(c)] = c])
      BY <1>3, Zenon DEF WritePixel
    <2>3. c \in ColorType
      BY <2>2, SizeAssumption
    <2>4. <<c>> \in Seq(ColorType)
      BY <2>3
    <2> QED  BY <2>2, <2>4, EmitIsWrite, Zenon
  <1>4. CASE WriteRun
    <2>1. phase = "writing"
      BY <1>4 DEF WriteRun, Emit
    <2>2. PICK k \in Runs : Emit(<<192 + k - 1>>, [i \in 1 .. k |-> writer.last], writer.table)
      BY <1>4, Zenon DEF WriteRun
    <2>3. k \in 1 .. 62
      BY <2>2, SizeAssumption
    <2>4. writer.last \in ColorType
      BY <2>1, WriterIsPoint
    <2>5. [i \in 1 .. k |-> writer.last] \in Seq(ColorType)
      BY <2>3, <2>4
    <2> QED  BY <2>2, <2>5, EmitIsWrite, Zenon
  <1>5. CASE CloseFile
    <2>1. Same
      BY <1>5 DEF CloseFile, Left, LastPixel, Done
    <2> QED  BY <1>1, <2>1
  <1>6. CASE Decode
    BY <1>6, DecodeIsReturn
  <1>7. CASE BuildFont
    BY <1>7, BuildFontIsFinish
  <1> QED  BY <1>2, <1>3, <1>4, <1>5, <1>6, <1>7 DEF NextImages

(* For every image, every choice of chunks and every number of them the    *)
(* decoder returns exactly the pixels that were written and is finished    *)
(* after the last of them: it takes no chunk for the end marker and the    *)
(* marker for no chunk (QOIStreamDecoder::next_pixel and finished).        *)
THEOREM DecoderReturnsImage ==
  ImageSpec => ImplementsPixelStream
  <1>1. InitImages => Pixels!Init
    <2>1. SUFFICES ASSUME InitImages PROVE Left = <<>> /\ ~Done
      BY StreamActions
    <2>2. image = <<>> /\ decoded = <<>> /\ phase = "writing"
      BY <2>1 DEF InitImages
    <2>3. SubSeq(<<>>, 1, 0) = <<>>
      BY SubSeqEmpty
    <2> QED  BY <2>2, <2>3 DEF Left, Done
  <1>2. ImageIInv /\ [NextImages]_imageVars
          => [Pixels!Write \/ Pixels!Return \/ Pixels!Finish]_(Pixels!vars)
    BY StepOfStream
  <1> QED
    BY <1>1, <1>2, ImageInvariance, PTL DEF ImageSpec, ImplementsPixelStream, Pixels!Spec

(* Two numbers in one.                                                     *)
LEMMA TwoInOne ==
  ASSUME NEW n \in Nat \ {0}, NEW b \in Nat, NEW a \in 0 .. b - 1, NEW s \in 0 .. n - 1
  PROVE  /\ a * n + s \in 0 .. (b * n) - 1
         /\ (a * n + s) \div n = a /\ (a * n + s) % n = s
  <1>1. a \in Nat /\ a < b
    OBVIOUS
  <1>2. (a * n) + n <= b * n /\ a * n \in Nat /\ b * n \in Nat
    BY <1>1, Products
  <1>3. (a * n + s) \div n = a /\ (a * n + s) % n = s
    BY <1>1, DivModUnique
  <1> DEFINE an == a * n
             bn == b * n
  <1>4. an + s \in 0 .. bn - 1
    <2>1. an + n <= bn /\ an \in Nat /\ bn \in Nat
      BY <1>2
    <2> HIDE DEF an, bn
    <2> QED  BY <2>1
  <1> QED  BY <1>3, <1>4

(* A number in parts of n.                                                 *)
LEMMA PartOfWhole ==
  ASSUME NEW n \in Nat \ {0}, NEW b \in Nat, NEW a \in Nat, a < b * n
  PROVE  a \div n \in 0 .. b - 1 /\ a % n \in 0 .. n - 1 /\ (a \div n) * n + (a % n) = a
  <1> DEFINE q == a \div n
  <1>1. q \in Nat /\ a % n \in 0 .. n - 1 /\ a = q * n + (a % n)
    BY DivMod
  <1>2. q < b
    <2>1. SUFFICES ASSUME b <= q PROVE FALSE
      BY <1>1
    <2>2. b * n <= q * n /\ q * n \in Nat /\ b * n \in Nat
      BY <1>1, <2>1, Products
    <2> HIDE DEF q
    <2> QED  BY <1>1, <2>2
  <1> QED  BY <1>1, <1>2

(* The pixel k of a font with g characters of w times h pixels in a row is  *)
(* the one at x and y of the character ch at this line and column.          *)
PixelAt(k, g, w, h, ch, line, place, x, y) ==
  /\ ch \div g = line /\ ch % g = place
  /\ k + 1 \in 1 .. g * g * w * h /\ (k + 1) - 1 = k
  /\ k \div (w * h) = ch /\ k % w = x /\ (k % (w * h)) \div w = y

(* Where a pixel of a character is in the data of the font.                *)
LEMMA PixelOfCharacter ==
  ASSUME NEW g \in Nat \ {0}, NEW w \in Nat \ {0}, NEW h \in Nat \ {0},
         NEW line \in 0 .. g - 1, NEW place \in 0 .. g - 1, NEW y \in 0 .. h - 1, NEW x \in 0 .. w - 1,
         NEW ch, ch = line * g + place, NEW k, k = w * h * ch + y * w + x
  PROVE  PixelAt(k, g, w, h, ch, line, place, x, y)
  <1> DEFINE size == w * h
             o == y * w + x
             q == h * ch + y
  <1>1. /\ ch \in 0 .. (g * g) - 1 /\ ch \div g = line /\ ch % g = place
    BY TwoInOne
  <1>2. g * g \in Nat /\ ch \in Nat
    BY <1>1, Products
  <1>3. size \in Nat \ {0} /\ size = h * w
    BY SMT
  <1>4. /\ o \in 0 .. (h * w) - 1 /\ o \div w = y
    BY TwoInOne
  <1>5. o \in 0 .. size - 1
    BY <1>3, <1>4
  <1>6. k = ch * size + o
    <2>1. w * h * ch = ch * size
      BY <1>2, SMT
    <2>2. ch * size \in Nat /\ y * w \in Nat /\ x \in Nat
      BY <1>2, <1>3, Products
    <2> DEFINE a == ch * size
               b == y * w
    <2>3. k = a + b + x /\ a \in Nat /\ b \in Nat /\ o = b + x
      BY <2>1, <2>2
    <2> HIDE DEF a, b, o
    <2>4. k = a + o
      BY <2>2, <2>3
    <2> QED  BY <2>4 DEF a
  <1>7. k = q * w + x
    <2>1. w * h * ch = (h * ch) * w /\ h * ch \in Nat
      BY <1>2, SMT
    <2>2. q * w = ((h * ch) * w) + (y * w)
      BY <2>1, Products
    <2> QED  BY <2>1, <2>2
  <1>8. q \in Nat
    BY <1>2, Products
  <1> HIDE DEF o, q, size
  <1>9. /\ k \in 0 .. ((g * g) * size) - 1 /\ k \div size = ch /\ k % size = o
    BY <1>1, <1>2, <1>3, <1>5, <1>6, TwoInOne
  <1>10. k % w = x
    <2>1. (q * w + x) % w = x
      BY <1>8, DivModUnique
    <2> QED  BY <1>7, <2>1, Zenon
  <1>11. g * g * w * h = (g * g) * size
    BY <1>2, Products DEF size
  <1>12. (g * g) * size \in Nat
    BY <1>2, <1>3, Products
  <1> DEFINE all == (g * g) * size
  <1>13. k + 1 \in 1 .. all /\ (k + 1) - 1 = k
    <2>1. k \in 0 .. all - 1 /\ all \in Nat
      BY <1>9, <1>12
    <2> HIDE DEF all
    <2> QED  BY <2>1
  <1> QED  BY <1>1, <1>4, <1>9, <1>10, <1>11, <1>13 DEF size, PixelAt

(* The two index computations of the font, of from_qoi and of              *)
(* is_char_pixel_set, meet at the same pixel.                              *)
LEMMA FontOfImage ==
  ASSUME ImageIInv
  PROVE  FontShowsImage
  <1> SUFFICES ASSUME phase = "done", NEW px \in 0 .. Width - 1, NEW py \in 0 .. Height - 1
               PROVE  IsCharPixelSet(font, (py \div (Height \div Grid)) * Grid
                                             + px \div (Width \div Grid),
                                     px % (Width \div Grid), py % (Height \div Grid))
                        <=> image[py * Width + px + 1].r > 127
    BY DEF FontShowsImage
  <1> DEFINE w == Width \div Grid
             h == Height \div Grid
             line == py \div h
             place == px \div w
             y == py % h
             x == px % w
             ch == line * Grid + place
             k == w * h * ch + y * w + x
  <1>1. font = FromQoi(image, Width, Height, Grid)
    BY DEF ImageIInv, PhaseSays
  <1>2. /\ w \in Nat \ {0} /\ h \in Nat \ {0} /\ Grid \in Nat \ {0}
        /\ w * Grid = Width /\ h * Grid = Height
    <2>1. Width \in Nat \ {0} /\ Height \in Nat \ {0} /\ Grid \in Nat \ {0}
          /\ Width % Grid = 0 /\ Height % Grid = 0
      BY SizesAre, SizeAssumption
    <2>2. w \in Nat /\ h \in Nat /\ Width = w * Grid + 0 /\ Height = h * Grid + 0
      BY <2>1, DivMod
    <2> HIDE DEF w, h
    <2>3. w * Grid \in Nat /\ h * Grid \in Nat
      BY <2>1, <2>2, Products
    <2>4. w # 0 /\ h # 0
      BY <2>1, <2>2
    <2> QED  BY <2>1, <2>2, <2>3, <2>4
  <1> HIDE DEF w, h
  <1>3. Width = Grid * w /\ Height = Grid * h /\ Width \in Nat /\ Height \in Nat
    BY <1>2, Products
  <1>4. /\ line \in 0 .. Grid - 1 /\ y \in 0 .. h - 1 /\ line * h + y = py
    <2>1. py \in Nat /\ py < Grid * h
      BY <1>3
    <2> QED  BY <1>2, <2>1, PartOfWhole
  <1>5. /\ place \in 0 .. Grid - 1 /\ x \in 0 .. w - 1 /\ place * w + x = px
    <2>1. px \in Nat /\ px < Grid * w
      BY <1>3
    <2> QED  BY <1>2, <2>1, PartOfWhole
  <1> HIDE DEF line, place, x, y
  <1>6. /\ ch \div Grid = line /\ ch % Grid = place
        /\ k + 1 \in 1 .. Grid * Grid * w * h /\ (k + 1) - 1 = k
        /\ k \div (w * h) = ch /\ k % w = x /\ (k % (w * h)) \div w = y
    <2>1. ch = line * Grid + place /\ k = w * h * ch + y * w + x
      OBVIOUS
    <2> HIDE DEF ch, k
    <2>2. line \in 0 .. Grid - 1 /\ y \in 0 .. h - 1 /\ place \in 0 .. Grid - 1 /\ x \in 0 .. w - 1
      BY <1>4, <1>5
    <2>3. PixelAt(k, Grid, w, h, ch, line, place, x, y)
      BY <1>2, <2>1, <2>2, PixelOfCharacter
    <2> QED  BY <2>3, Zenon DEF PixelAt
  <1> HIDE DEF ch, k
  <1> DEFINE bright(c, i, j) ==
               image[((c \div Grid) * h + j) * Width + (c % Grid) * w + i + 1].r > 127
  <1>7. /\ font.width = w /\ font.height = h
        /\ font.data = [i \in 1 .. Grid * Grid * w * h |->
                          bright((i - 1) \div (w * h), (i - 1) % w, ((i - 1) % (w * h)) \div w)]
    BY <1>1 DEF FromQoi, w, h
  <1>8. font.data[k + 1] = bright(ch, x, y)
    <2> DEFINE i == k + 1
    <2>1. i \in 1 .. Grid * Grid * w * h /\ i - 1 = k
      BY <1>6
    <2> HIDE DEF i
    <2>2. font.data[i] = bright((i - 1) \div (w * h), (i - 1) % w, ((i - 1) % (w * h)) \div w)
      BY <1>7, <2>1
    <2>3. (i - 1) \div (w * h) = ch /\ (i - 1) % w = x /\ ((i - 1) % (w * h)) \div w = y
      BY <1>6, <2>1, Zenon
    <2> HIDE DEF bright
    <2>4. font.data[i] = bright(ch, x, y)
      BY <2>2, <2>3, Zenon
    <2> QED  BY <2>4, Zenon DEF i
  <1>9. ((ch \div Grid) * h + y) * Width + (ch % Grid) * w + x + 1 = py * Width + px + 1
    <2> DEFINE a == py * Width
               b == place * w
    <2>1. /\ a \in Nat /\ b \in Nat /\ x \in Nat /\ b + x = px
      BY <1>2, <1>3, <1>4, <1>5, Products
    <2>2. ((ch \div Grid) * h + y) * Width + (ch % Grid) * w + x + 1 = a + b + x + 1
      BY <1>4, <1>6, Zenon
    <2> HIDE DEF a, b
    <2>3. a + b + x + 1 = a + px + 1
      BY <2>1
    <2> QED  BY <2>2, <2>3, Zenon DEF a
  <1>10. IsCharPixelSet(font, ch, x, y) = font.data[k + 1]
    BY <1>7, Zenon DEF IsCharPixelSet, k
  <1>11. IsCharPixelSet(font, ch, x, y) <=> image[py * Width + px + 1].r > 127
    BY <1>8, <1>9, <1>10, Zenon
  <1> QED  BY <1>11, Zenon DEF ch, line, place, x, y, w, h

(* For every grid of characters a pixel of a character is set in the font  *)
(* exactly where the image is bright at that place of its cell             *)
(* (BitmapFont::from_qoi and is_char_pixel_set).                           *)
THEOREM FontIsRight ==
  ImageSpec => []FontShowsImage
  BY ImageInvariance, FontOfImage, PTL

=============================================================================
