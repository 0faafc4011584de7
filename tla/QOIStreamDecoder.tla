-------------------------- MODULE QOIStreamDecoder --------------------------
(***************************************************************************)
(* kernel/window/qoi.cpp: the decoder of QOI images, one pixel at a call,  *)
(* and BitmapFont of kernel/window/font.cpp, which is built from its       *)
(* pixels. The decoder is a record; a byte is a number, and a channel      *)
(* wraps around like a u8.                                                 *)
(***************************************************************************)
EXTENDS Integers, Sequences

Byte == 0 .. 255
ColorType == [r : Byte, g : Byte, b : Byte, a : Byte]
Color(r, g, b, a) == [r |-> r, g |-> g, b |-> b, a |-> a]

Black == Color(0, 0, 0, 255)
Clear == Color(0, 0, 0, 0)

ColorHash(c) == (c.r * 3 + c.g * 5 + c.b * 7 + c.a * 11) % 64

(* Span::sub from start to the end.                                        *)
Sub(data, start) == SubSeq(data, start + 1, Len(data))

U32(data) == ((data[1] * 256 + data[2]) * 256 + data[3]) * 256 + data[4]

(* The constructor: magic bytes, width and height, channels and colorspace. *)
Decoder(data) ==
  [data |-> Sub(data, 14), width |-> U32(Sub(data, 4)), height |-> U32(Sub(data, 8)),
   prev_pixels |-> [i \in 0 .. 63 |-> Clear], last_pixel |-> Black, run_counter |-> 0]

Shifted(c, dr, dg, db) ==
  Color((c.r + dr) % 256, (c.g + dg) % 256, (c.b + db) % 256, c.a)

QOI_OP_RGB == 254
QOI_OP_RGBA == 255

(* What a chunk says: the pixel, how many bytes it took, and how often the *)
(* pixel comes again.                                                      *)
Chunk(d) ==
  LET byte == d.data[1]
      tag == byte \div 64
      no_tag == byte % 64
      last == d.last_pixel
      diff(place) == ((no_tag \div place) % 4) - 2
      luma == no_tag - 32
      is(color, size, run) == [color |-> color, size |-> size, run |-> run]
  IN  CASE byte \in {QOI_OP_RGB, QOI_OP_RGBA} ->
             LET size == IF byte = QOI_OP_RGBA THEN 5 ELSE 4
             IN  is(Color(d.data[2], d.data[3], d.data[4],
                          IF size = 5 THEN d.data[5] ELSE last.a), size, 0)
        [] tag = 0 -> is(d.prev_pixels[byte], 1, 0)
        [] tag = 1 -> is(Shifted(last, diff(16), diff(4), diff(1)), 1, 0)
        [] tag = 2 -> is(Shifted(last, luma + (d.data[2] \div 16) - 8, luma,
                                 luma + (d.data[2] % 16) - 8), 2, 0)
        [] OTHER -> is(last, 1, no_tag)

(* Mutant: the run is counted once more than it says. *)
NextPixelOneMore(d) ==
  IF d.run_counter > 0
  THEN [d EXCEPT !.run_counter = @ - 1]
  ELSE LET chunk == Chunk(d)
       IN  [d EXCEPT !.data = Sub(@, chunk.size),
                     !.run_counter = IF d.data[1] \div 64 = 3 THEN chunk.run + 1 ELSE 0,
                     !.last_pixel = chunk.color,
                     !.prev_pixels[ColorHash(chunk.color)] = chunk.color]

(* next_pixel: the pixel is the last_pixel of the decoder afterwards. A    *)
(* run returns its first pixel at once.                                    *)
NextPixel(d) ==
  IF d.run_counter > 0
  THEN [d EXCEPT !.run_counter = @ - 1]
  ELSE LET chunk == Chunk(d)
       IN  [d EXCEPT !.data = Sub(@, chunk.size), !.run_counter = chunk.run,
                     !.last_pixel = chunk.color,
                     !.prev_pixels[ColorHash(chunk.color)] = chunk.color]

(* finished: seven bytes of zero and a one, or less than that.             *)
Finished(d) ==
  /\ d.run_counter = 0
  /\ \/ Len(d.data) < 8
     \/ (\A i \in 1 .. 7 : d.data[i] = 0) /\ d.data[8] = 1

-----------------------------------------------------------------------------
(* BitmapFont: a grid of characters, column by column in a row, each kept  *)
(* as its own rows of pixels. grid is 16 in the code.                      *)

FromQoi(image, width, height, grid) ==
  LET w == width \div grid
      h == height \div grid
      isSet(ch, x, y) ==
        image[((ch \div grid) * h + y) * width + (ch % grid) * w + x + 1].r > 127
  IN  [width |-> w, height |-> h,
       data |-> [i \in 1 .. grid * grid * w * h |->
                   isSet((i - 1) \div (w * h), (i - 1) % w, ((i - 1) % (w * h)) \div w)]]

(* Mutant: rows are stepped by the height of a character. *)
IsCharPixelSetByHeight(font, ch, x, y) ==
  font.data[font.width * font.height * ch + y * font.height + x + 1]

IsCharPixelSet(font, ch, x, y) ==
  font.data[font.width * font.height * ch + y * font.width + x + 1]
=============================================================================
