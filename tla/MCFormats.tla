------------------------------ MODULE MCFormats ------------------------------
(***************************************************************************)
(* Values for the constants of Formats.                                    *)
(***************************************************************************)
EXTENDS Formats, TLC

CONSTANTS s1, s2

(* Scripts of one and two bytes. *)
MCSize == (s1 :> 1) @@ (s2 :> 2)

(* The names of a drop: one of each kind that the code tells apart. *)
FileName(s, h, p) == [suffix |-> s, hidden |-> h, point |-> p]
FileNames == {FileName("always", FALSE, FALSE), FileName("always", TRUE, FALSE),
              FileName("always", FALSE, TRUE), FileName("keyed", FALSE, FALSE),
              FileName("other", FALSE, FALSE), FileName("none", FALSE, FALSE)}

(* The texts of Gameexe.dat, with a byte order mark and without one. *)
GameTexts == {<<"b", "a">>, <<"bom", "a">>}

(* The parts of an image: whole, put together with an overlap and a gap behind
   an origin, a single pixel, with a block that is wider than the part, two of
   types without a buffer, two with a block before and behind the buffer and an
   empty entry. *)
Part(listed, type, w, h, x, y, blocks) ==
  [listed |-> listed, type |-> type, width |-> w, height |-> h, hs_x |-> x, hs_y |-> y, blocks |-> blocks]
Area(x, y, w, h) == [x |-> x, y |-> y, width |-> w, height |-> h]
ImageParts2 == {Part(TRUE, 2, 2, 2, 0, 0, <<Area(0, 0, 2, 2)>>),
                Part(TRUE, 1, 3, 2, 1, 2, <<Area(1, 2, 2, 1), Area(2, 2, 1, 2), Area(3, 3, 1, 1)>>),
                Part(TRUE, 1, 1, 1, 2, 0, <<Area(2, 0, 1, 1)>>),
                Part(TRUE, 1, 1, 2, 0, 0, <<Area(0, 0, 2, 1)>>),
                Part(TRUE, 0, 1, 1, 0, 0, <<>>),
                Part(TRUE, 3, 1, 1, 0, 0, <<Area(0, 0, 1, 1)>>),
                Part(TRUE, 2, 1, 1, 1, 0, <<Area(0, 0, 1, 1)>>),
                Part(TRUE, 2, 1, 1, 0, 0, <<Area(0, 0, 1, 2)>>),
                Part(FALSE, 1, 0, 0, 0, 0, <<>>)}
=============================================================================
