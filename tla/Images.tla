------------------------------- MODULE Images -------------------------------
(***************************************************************************)
(* An image on its way from the program that wrote the file to the font of *)
(* the window manager: any encoder that keeps to the format, the decoder   *)
(* of qoi.cpp, the loop of BitmapFont::from_qoi (and of the constructor of *)
(* WindowManager) around it, and the font.                                 *)
(***************************************************************************)
EXTENDS QOIStreamDecoder, SequencesExt

CONSTANTS
  Colors,     (* the colors in use *)
  Runs,       (* the lengths of runs that the encoder uses *)
  Width, Height,
  Grid,       (* bound: characters in a row and rows of characters *)
  MaxChunks   (* bound: chunks of a file *)

(* A size is written to two bytes of the header. The grid divides it: the  *)
(* code takes one of 16, and assets/font.qoi has 112 by 160 pixels.        *)
ASSUME SizeAssumption ==
  /\ \A size \in {Width, Height, Grid} : size \in Nat \ {0} /\ size < 65536
  /\ Colors \subseteq ColorType
  /\ Width % Grid = 0 /\ Height % Grid = 0
  /\ Runs \subseteq 1 .. 62

VARIABLES
  phase,     (* "writing", "decoding" or "done" *)
  writer,    (* the encoder: its last pixel, whether that was indexed to, its
                table, how many chunks *)
  image,     (* history: the pixels it wrote *)
  decoder,   (* the QOIStreamDecoder; its data is the file *)
  decoded,   (* the vector the loop pushes to *)
  font

imageVars == <<phase, writer, image, decoder, decoded, font>>

NewWriter ==
  [last |-> Black, indexed |-> FALSE, table |-> [i \in 0 .. 63 |-> Clear], chunks |-> 0]
NoFont == [width |-> 0, height |-> 0, data |-> <<>>]

Header ==
  <<113, 111, 105, 102, 0, 0, Width \div 256, Width % 256, 0, 0, Height \div 256, Height % 256,
    4, 0>>
EndMarker == <<0, 0, 0, 0, 0, 0, 0, 1>>

InitImages ==
  /\ phase = "writing"
  /\ writer = NewWriter
  /\ image = <<>>
  /\ decoder = Decoder(Header)
  /\ decoded = <<>>
  /\ font = NoFont

(* The difference of two channels as a signed byte.                        *)
Difference(new, old) == ((new - old + 128) % 256) - 128

(* All chunks that stand for a color. The format forbids to index twice in *)
(* a row to the same pixel.                                                *)
Encodings(w, c) ==
  LET last == w.last
      dr == Difference(c.r, last.r)
      dg == Difference(c.g, last.g)
      db == Difference(c.b, last.b)
      opaque == c.a = last.a
  IN  {<<QOI_OP_RGBA, c.r, c.g, c.b, c.a>>}
      \cup (IF opaque THEN {<<QOI_OP_RGB, c.r, c.g, c.b>>} ELSE {})
      \cup (IF w.table[ColorHash(c)] = c /\ ~(w.indexed /\ c = last)
            THEN {<<ColorHash(c)>>} ELSE {})
      \cup (IF opaque /\ {dr, dg, db} \subseteq -2 .. 1
            THEN {<<64 + (dr + 2) * 16 + (dg + 2) * 4 + db + 2>>} ELSE {})
      \cup (IF opaque /\ dg \in -32 .. 31 /\ {dr - dg, db - dg} \subseteq -8 .. 7
            THEN {<<128 + dg + 32, (dr - dg + 8) * 16 + db - dg + 8>>} ELSE {})

Emit(bytes, pixels, table) ==
  /\ phase = "writing" /\ writer.chunks < MaxChunks
  /\ Len(image) + Len(pixels) <= Width * Height
  /\ writer' = [last |-> Last(pixels), indexed |-> bytes[1] < 64, table |-> table,
                chunks |-> writer.chunks + 1]
  /\ image' = image \o pixels
  /\ decoder' = [decoder EXCEPT !.data = @ \o bytes]
  /\ UNCHANGED <<phase, decoded, font>>

WritePixel ==
  \E c \in Colors : \E bytes \in Encodings(writer, c) :
    Emit(bytes, <<c>>, [writer.table EXCEPT ![ColorHash(c)] = c])

WriteRun ==
  \E n \in Runs : Emit(<<192 + n - 1>>, [i \in 1 .. n |-> writer.last], writer.table)

(* The boot loader hands the whole file over.                              *)
CloseFile ==
  /\ phase = "writing" /\ Len(image) = Width * Height
  /\ phase' = "decoding"
  /\ writer' = NewWriter
  /\ decoder' = [decoder EXCEPT !.data = @ \o EndMarker]
  /\ UNCHANGED <<image, decoded, font>>

(* image.push(decoder.next_pixel())                                        *)
Decode ==
  /\ phase = "decoding" /\ ~Finished(decoder)
  /\ decoder' = NextPixel(decoder)
  /\ decoded' = Append(decoded, decoder'.last_pixel)
  /\ UNCHANGED <<phase, writer, image, font>>

BuildFont ==
  /\ phase = "decoding" /\ Finished(decoder)
  /\ phase' = "done"
  /\ font' = FromQoi(decoded, decoder.width, decoder.height, Grid)
  /\ UNCHANGED <<writer, image, decoder, decoded>>

NextImages == WritePixel \/ WriteRun \/ CloseFile \/ Decode \/ BuildFont

ImageSpec == InitImages /\ [][NextImages]_imageVars

-----------------------------------------------------------------------------
(* Whatever chunks an encoder chooses, next_pixel returns the pixels that  *)
(* were written and finished is true exactly after the last of them: it    *)
(* takes no chunk for the end and the end for no chunk.                    *)
Pixels == INSTANCE PixelStream
            WITH left <- SubSeq(image, Len(decoded) + 1, Len(image)),
                 pixel <- IF decoded = <<>> THEN Black ELSE Last(decoded),
                 finished <- (phase = "done")
ImplementsPixelStream == Pixels!Spec

(* A pixel of a character is set in the font where the image is bright at  *)
(* that place of that character's cell.                                    *)
FontShowsImage ==
  phase = "done" =>
    \A px \in 0 .. Width - 1, py \in 0 .. Height - 1 :
      IsCharPixelSet(font, (py \div (Height \div Grid)) * Grid + px \div (Width \div Grid),
                     px % (Width \div Grid), py % (Height \div Grid))
        <=> image[py * Width + px + 1].r > 127
=============================================================================
