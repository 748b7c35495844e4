----------------------------- MODULE MCWordBoxes -----------------------------
(* Characters for TLC: on two lines and below the page's origin, at three    *)
(* distances, of two heights, one flat; a space, a character without text    *)
(* and one outside ASCII.                                                    *)
EXTENDS WordBoxes

Glyph(kind, left, bottom, height) ==
  [kind |-> kind, left |-> left, bottom |-> bottom, right |-> left + 2,
   top |-> bottom + height]

MCGlyphs ==
  {Glyph("ascii", left, bottom, 2) : left \in {-6, 0, 3, 4}, bottom \in {-4, 0, 1, 2}}
    \union {Glyph("ascii", 4, 0, 6), Glyph("ascii", 2, 0, 0), Glyph("space", 0, 0, 0),
            Glyph("empty", 2, 0, 2), Glyph("other", 2, 0, 2)}
=============================================================================
