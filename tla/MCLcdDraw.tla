----------------------------- MODULE MCLcdDraw -----------------------------
(* A panel on which the second character of a line does not fit and the    *)
(* second line is cut off through a row of squares, with three glyphs of   *)
(* glyph_for ('-', ':' and the one for unknown characters).                *)
EXTENDS LcdDraw

MCFont == [c \in {"-", ":"} |-> IF c = "-" THEN <<8, 8, 8, 8, 8>>
                                ELSE <<0, 54, 54, 0, 0>>]
MCUnknown == <<127, 65, 93, 65, 127>>
MCStates ==
  { [status |-> "BOOT", line1 |-> <<"-", ":">>, line2 |-> <<":">>],
    [status |-> "WAITING_FOR_TOUCH", line1 |-> <<>>, line2 |-> <<>>] }
=============================================================================
