------------------------------ MODULE ImageParts ------------------------------
(***************************************************************************)
(* UnpackG00.h: an image of the game is one picture, or a directory of     *)
(* parts, each a picture put together from blocks.  Every picture is       *)
(* turned upside down in its buffer and saved as BMP, PNG or JPEG, in a    *)
(* file of its number.                                                     *)
(*                                                                         *)
(* A buffer is its pixels, row by row.  The compressed data of a directory *)
(* are those of ScriptCodec; of a picture they are decoded here, pixel by  *)
(* pixel.                                                                  *)
(***************************************************************************)
EXTENDS Integers, Sequences

CONSTANTS Parts,     \* the parts a directory may have
          MaxParts,  \* bound: the entries of a directory
          Sizes,     \* the widths and heights of a single picture
          Colours,
          MaxCount,  \* bound: the pixels of one reference, 16 in the format
          PngHead,   \* what a PNG has beside its pixels, in pixels
          PngRoom    \* 4, the pixels the buffer of savepng has for each

Clear     == <<0, 0, 0>>
NoPicture == <<>>
Garbage   == <<>>

(* A part: its width, height and origin (hs_orig), its blocks by position and
   size, its type and whether its entry in the directory is not empty. *)
Block(x, y, w, h) == [x |-> x, y |-> y, width |-> w, height |-> h]

Blocks == [x : Int, y : Int, width : Nat, height : Nat]

ImageAssumption ==
  /\ Parts \subseteq [listed : BOOLEAN, type : Nat, width : Nat, height : Nat,
                      hs_x : Int, hs_y : Int, blocks : Seq(Blocks)]
  /\ MaxParts \in Nat /\ MaxCount \in Nat /\ Sizes \subseteq Nat

VARIABLES
  image,    \* the file: type, width, height, pixels, parts
  G00Flag,  \* "bmp", "png" or "jpg"
  debuf,    \* the pixels decoded so far
  iphase,   \* "decode", "save", "parts", "done" or "fault"
  entry,    \* the entry of the directory
  pictures, \* of each number the file saved, or NoPicture
  refused   \* history: the numbers whose file could not be made

ivars == <<image, G00Flag, debuf, iphase, entry, pictures, refused>>

Single(type, w, h, pixels) ==
  [type |-> type, width |-> w, height |-> h, pixels |-> pixels, parts |-> <<>>]

Init ==
  /\ \/ \E w, h \in Sizes, type \in {"24bit", "8bit"} : \E pixels \in [1 .. w * h -> Colours] :
          image = Single(type, w, h, pixels)
     \/ \E n \in 0 .. MaxParts : \E parts \in [1 .. n -> Parts] :
          image = [Single("dir", 0, 0, <<>>) EXCEPT !.parts = parts]
  /\ G00Flag \in {"bmp", "png", "jpg"}
  /\ debuf = <<>> /\ entry = 1
  /\ iphase = IF image.type = "dir" THEN "parts" ELSE "decode"
  /\ pictures = [n \in 0 .. Len(image.parts) |-> NoPicture]
  /\ refused = {}

-----------------------------------------------------------------------------
(* lzss_decompress_24bit. *)

(* rep movsd: a reference may reach into the pixels it makes. *)
Copied(buf, distance, count) ==
  LET to[k \in 1 .. Len(buf) + count] == IF k <= Len(buf) THEN buf[k] ELSE to[k - distance]
  IN  [k \in 1 .. Len(buf) + count |-> to[k]]

(* A reference that an encoder can use for the pixels that come next. *)
Repeats(distance, count) ==
  /\ Len(debuf) + count <= Len(image.pixels)
  /\ \A k \in Len(debuf) + 1 .. Len(debuf) + count : image.pixels[k] = image.pixels[k - distance]

(* The next item is a pixel or a reference; the decoder stops when the buffer
   is exactly full. *)
DecodeItem ==
  /\ iphase = "decode" /\ image.type = "24bit" /\ Len(debuf) # Len(image.pixels)
  /\ \/ debuf' = Append(debuf, image.pixels[Len(debuf) + 1])
     \/ \E distance \in DOMAIN debuf, count \in 1 .. MaxCount :
          Repeats(distance, count) /\ debuf' = Copied(debuf, distance, count)
  /\ UNCHANGED <<image, G00Flag, iphase, entry, pictures, refused>>

EndItems ==
  /\ iphase = "decode" /\ image.type = "24bit" /\ Len(debuf) = Len(image.pixels)
  /\ iphase' = "save"
  /\ UNCHANGED <<image, G00Flag, debuf, entry, pictures, refused>>

-----------------------------------------------------------------------------
(* The pictures. *)

(* The rows in the opposite order. *)
fix_bmp(width, height, data) ==
  [k \in 1 .. width * height |->
    data[(height - 1 - ((k - 1) \div width)) * width + ((k - 1) % width) + 1]]

(* savebmp, savepng and savejpg: EncodeBmpToPng writes the last row first, and
   GDI+ reads the bitmap that it is given from its last row. *)
Stored(width, height, data) ==
  [width |-> width, height |-> height,
   rows |-> IF G00Flag = "bmp" \/ data = Garbage THEN data ELSE fix_bmp(width, height, data)]

(* A PNG that does not fit its buffer is given up. *)
NoRoom(width, height) == G00Flag = "png" /\ width * height + PngHead > PngRoom * width * height

SavePicture(n, width, height, data) ==
  \/ pictures' = [pictures EXCEPT ![n] = Stored(width, height, data)]
       /\ ~NoRoom(width, height) /\ UNCHANGED refused
  \/ NoRoom(width, height) /\ UNCHANGED <<pictures, refused>>
  \/ refused' = refused \cup {n} /\ UNCHANGED pictures

SaveSingle ==
  /\ iphase = "save"
  /\ SavePicture(0, image.width, image.height, fix_bmp(image.width, image.height, debuf))
  /\ iphase' = "done"
  /\ UNCHANGED <<image, G00Flag, debuf, entry>>

(* A picture with a table of colours is taken for one of four bytes a pixel:
   the table, the pixels and what lies behind them are saved, or the reading
   fails. *)
SaveIndexed ==
  /\ iphase = "decode" /\ image.type = "8bit"
  /\ \/ SavePicture(0, image.width, image.height, Garbage) /\ iphase' = "done"
     \/ iphase' = "fault" /\ UNCHANGED <<pictures, refused>>
  /\ UNCHANGED <<image, G00Flag, debuf, entry>>

-----------------------------------------------------------------------------
(* The parts of a directory. *)

Pixel(b, x, y) == <<b, x, y>>

(* Where the first pixel of a block goes. *)
Offset(p, b) == (p.blocks[b].y - p.hs_y) * p.width + p.blocks[b].x - p.hs_x

(* Mutant: each row of a block directly behind the one before. *)
PastedPacked(buf, p, b) ==
  LET c == p.blocks[b] IN
  [k \in DOMAIN buf |->
    LET at == k - 1 - Offset(p, b)
    IN  IF at \in 0 .. c.width * c.height - 1 THEN Pixel(b, at % c.width, at \div c.width) ELSE buf[k]]

(* part_extract_buf: row by row, each a row of the part further and over what
   the one before has left there. *)
Pasted(buf, p, b) ==
  LET c == p.blocks[b] IN
  [k \in DOMAIN buf |->
    LET at == k - 1 - Offset(p, b)
        y  == IF at \div p.width < c.height THEN at \div p.width ELSE c.height - 1
        x  == at - y * p.width
    IN  IF at >= 0 /\ c.height > 0 /\ x < c.width THEN Pixel(b, x, y) ELSE buf[k]]

extract_g02_part(p) ==
  LET dib[b \in 0 .. Len(p.blocks)] ==
        IF b = 0 THEN [k \in 1 .. p.width * p.height |-> Clear] ELSE Pasted(dib[b - 1], p, b)
  IN  dib[Len(p.blocks)]

(* The types that get a buffer, and a block that leaves it. *)
Painted == {1, 2}

Outside(p, b) ==
  LET c == p.blocks[b] IN
  /\ c.width > 0 /\ c.height > 0
  /\ \/ Offset(p, b) < 0
     \/ Offset(p, b) + (c.height - 1) * p.width + c.width > p.width * p.height

(* A part without a buffer is turned, saved and freed through the pointer that
   the stack holds, most often that of the part before; blocks are copied where
   they say they lie.  Both write to memory of others and are not noticed. *)
Strays(p) ==
  p.listed /\ (p.type \notin Painted \/ \E b \in DOMAIN p.blocks : Outside(p, b))

Astray(n) == \E m \in 1 .. n : Strays(image.parts[m])

InDirectory == iphase = "parts" /\ entry <= Len(image.parts)

(* Mutant: the first empty entry ends the directory. *)
StopAtEmpty ==
  /\ InDirectory /\ ~image.parts[entry].listed
  /\ entry' = Len(image.parts) + 1
  /\ UNCHANGED <<image, G00Flag, debuf, iphase, pictures, refused>>

SkipPart ==
  /\ InDirectory /\ ~Astray(entry) /\ ~image.parts[entry].listed
  /\ entry' = entry + 1
  /\ UNCHANGED <<image, G00Flag, debuf, iphase, pictures, refused>>

SavePart ==
  /\ InDirectory /\ ~Astray(entry)
  /\ LET p == image.parts[entry] IN
       /\ p.listed
       /\ SavePicture(entry, p.width, p.height, fix_bmp(p.width, p.height, extract_g02_part(p)))
  /\ entry' = entry + 1
  /\ UNCHANGED <<image, G00Flag, debuf, iphase>>

(* Once memory of others was written nothing of the rest is sure: the pixels,
   the directory in debuf, the heap.  A part is saved as it is meant, as
   something else or not at all, or the run ends in an exception. *)
SaveAstray ==
  /\ InDirectory /\ Astray(entry)
  /\ LET p == image.parts[entry]
         right == IF p.type \in Painted THEN {fix_bmp(p.width, p.height, extract_g02_part(p))} ELSE {}
     IN  \/ \E data \in right \cup {Garbage} :
              SavePicture(entry, p.width, p.height, data) /\ UNCHANGED iphase
         \/ UNCHANGED <<iphase, pictures, refused>>
         \/ iphase' = "fault" /\ UNCHANGED <<pictures, refused>>
  /\ entry' = entry + 1
  /\ UNCHANGED <<image, G00Flag, debuf>>

EndParts ==
  /\ iphase = "parts" /\ entry > Len(image.parts)
  /\ iphase' = "done"
  /\ UNCHANGED <<image, G00Flag, debuf, entry, pictures, refused>>

Next == DecodeItem \/ EndItems \/ SaveSingle \/ SaveIndexed
          \/ SkipPart \/ SavePart \/ SaveAstray \/ EndParts

Spec == Init /\ [][Next]_ivars

-----------------------------------------------------------------------------
(* Properties. *)

(* The pixel (x, y) of a part: of the last block that covers it. *)
Covers(p, x, y) ==
  {b \in DOMAIN p.blocks : LET c == p.blocks[b] IN
     x + p.hs_x \in c.x .. c.x + c.width - 1 /\ y + p.hs_y \in c.y .. c.y + c.height - 1}
PartPixel(p, x, y) ==
  LET covers == Covers(p, x, y) IN
  IF covers = {} THEN Clear
  ELSE LET b == CHOOSE m \in covers : \A n \in covers : n <= m
       IN  Pixel(b, x + p.hs_x - p.blocks[b].x, y + p.hs_y - p.blocks[b].y)

(* What a viewer shows: a BMP starts with the row at the bottom. *)
Shown(file, x, y) ==
  file.rows[(IF G00Flag = "bmp" THEN file.height - 1 - y ELSE y) * file.width + x + 1]

(* All blocks lie in the part. *)
Fits(p) ==
  \A b \in DOMAIN p.blocks :
    /\ p.blocks[b].x >= p.hs_x /\ p.blocks[b].x - p.hs_x + p.blocks[b].width <= p.width
    /\ p.blocks[b].y >= p.hs_y /\ p.blocks[b].y - p.hs_y + p.blocks[b].height <= p.height

Drawn(n) ==
  IF n = 0 THEN image.type = "24bit"
  ELSE image.parts[n].listed /\ image.parts[n].type \in Painted /\ Fits(image.parts[n]) /\ ~Astray(n - 1)

(* Every saved picture shows, upright in each of the formats, the picture that
   was stored or the blocks of its part, each at its place and the later over
   the earlier, when its blocks lie in it and no part before it wrote to memory
   of others. (Pictures with a table of colours are not decoded by the code.) *)
PicturesShown ==
  \A n \in DOMAIN pictures : Drawn(n) /\ pictures[n] # NoPicture =>
    \A x \in 0 .. pictures[n].width - 1, y \in 0 .. pictures[n].height - 1 :
      Shown(pictures[n], x, y) =
        IF n = 0 THEN image.pixels[y * image.width + x + 1]
        ELSE PartPixel(image.parts[n], x, y)

(* However a directory ends, also in an exception, every part of it has its
   file that neither strays itself nor comes after one that does: an empty
   entry, a file that cannot be made or a later stray part costs it nothing.
   A PNG of so few pixels that its buffer is too small has none. *)
EveryPartSaved ==
  iphase \in {"done", "fault"} =>
    \A n \in DOMAIN image.parts : image.parts[n].listed /\ ~Astray(n) /\ n \notin refused =>
      \/ pictures[n] # NoPicture
      \/ NoRoom(image.parts[n].width, image.parts[n].height)
=============================================================================
