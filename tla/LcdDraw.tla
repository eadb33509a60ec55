------------------------------ MODULE LcdDraw ------------------------------
(***************************************************************************)
(* How the display task draws one state, src/src/m5boards/                 *)
(* pico_fido2_display.c: lcd_fill, then both lines as glyphs made of       *)
(* squares, each of them an lcd_rect.  Every rectangle is a window         *)
(* (CASET, RASET, RAMWR) that the controller then fills with the pixels    *)
(* it is sent.  A step is one SPI transaction, and any may fail.           *)
(*                                                                         *)
(* This module opens up the Fill and DrawText of module Display, which has *)
(* shown that the task is the only user of the D/C line and the SPI device *)
(* while it draws; setting D/C is therefore part of the transaction.       *)
(***************************************************************************)
EXTENDS I2cBus, Sequences

CONSTANTS
  Width, Height,          (* The panel, from its descriptor.               *)
  Font,                   (* The five column bytes of each known character.*)
  unknown,                (* Those drawn for every other character.        *)
  TextX, Line1Y, Line2Y,  (* 8, 12 and 34 in the code.                     *)
  Scale,                  (* 2 in the code.                                *)
  Chunk,                  (* Pixels lcd_fill sends at a time: 64.          *)
  States                  (* States posted to the display.                 *)

UInt8  == {n \in Nat : n < 256}
UInt16 == {n \in Nat : n < 65536}
U16(n) == n % 65536       (* Conversion to uint16_t.                       *)
Bytes5 == [1..5 -> UInt8]

ASSUME PanelAssumption == Width \in UInt16 \ {0} /\ Height \in UInt16 \ {0}
ASSUME FontAssumption ==
  unknown \in Bytes5 /\ \A c \in DOMAIN Font : Font[c] \in Bytes5
\* The rows of a line's squares do not wrap: 34 + 6 * 2 at most in the code.
ASSUME TextAssumption ==
  /\ TextX \in UInt16 /\ Line1Y \in UInt16 /\ Line2Y \in UInt16
  /\ Scale \in UInt8 \ {0}
  /\ Line1Y + 6 * Scale \in UInt16 /\ Line2Y + 6 * Scale \in UInt16
ASSUME ChunkAssumption == Chunk \in Nat \ {0}

VARIABLES
  command,        (* Controller: the command it took last.                 *)
  colWindow,      (* Controller: first and last column of the window,      *)
  rowWindow,      (* first and last row.                                   *)
  written,        (* Controller: pixels received since RAMWR.              *)
  pix,            (* Controller: what the panel shows.                     *)
  pc,             (* Where the display task is.                            *)
  state,          (* The state it draws.                                   *)
  job,            (* Which rectangle of it, where the loops are.           *)
  remaining,      (* Pixels of that rectangle still to send.               *)
  filled,         (* History: lcd_fill sent every pixel of this state.     *)
  clean           (* History: nothing failed since this state was received.*)

controller == <<command, colWindow, rowWindow, written, pix>>
vars == <<controller, pc, state, job, remaining, filled, clean, faults>>

Px == (0..(Width - 1)) \X (0..(Height - 1))

(***************************************************************************)
(* The controller (external): CASET and RASET set the window, RAMWR goes   *)
(* to its first pixel, and pixels fill it row by row, from the start again *)
(* when it is full.                                                        *)
(***************************************************************************)
Columns == colWindow[2] - colWindow[1] + 1
Rows    == rowWindow[2] - rowWindow[1] + 1

Spot(j) ==
  << colWindow[1] + (j % Columns), rowWindow[1] + ((j \div Columns) % Rows) >>

TakeCommand(c) ==
  /\ command' = c
  /\ written' = IF c = "RAMWR" THEN 0 ELSE written
  /\ UNCHANGED <<colWindow, rowWindow, pix>>

FromBytes(b) == << 256 * b[1] + b[2], 256 * b[3] + b[4] >>

TakeWindow(b) ==
  /\ colWindow' = IF command = "CASET" THEN FromBytes(b) ELSE colWindow
  /\ rowWindow' = IF command = "RASET" THEN FromBytes(b) ELSE rowWindow
  /\ UNCHANGED <<command, written, pix>>

TakePixels(k, colour) ==
  LET spots == { Spot(j) : j \in written..(written + k - 1) }
  IN IF command = "RAMWR"
     THEN /\ pix' = [p \in Px |-> IF p \in spots THEN colour ELSE pix[p]]
          /\ written' = written + k
          /\ UNCHANGED <<command, colWindow, rowWindow>>
     ELSE UNCHANGED controller

(***************************************************************************)
(* What is drawn: the rectangles of a state, in order.                     *)
(***************************************************************************)
status_color(status) ==
  CASE status = "WAITING_FOR_TOUCH" -> "yellow"
    [] status = "AUTH_SUCCESS"      -> "green"
    [] status = "AUTH_FAILURE"      -> "red"
    [] status = "LOCKED"            -> "blue"
    [] OTHER                        -> "black"

\* Clipping of lcd_rect.  The sums are of type int and do not wrap; what goes
\* into the window is converted to uint16_t.
\* (Mutation: the pixels of the whole rectangle are sent.)
Inside(x, y, w, h) == w # 0 /\ h # 0 /\ x < Width /\ y < Height

Clip(x, w, limit) == IF x + w > limit THEN U16(limit - x) ELSE w

WindowUnclippedCount(x, y, w, h) ==
  [ x0 |-> x, x1 |-> U16(x + Clip(x, w, Width) - 1),
    y0 |-> y, y1 |-> U16(y + Clip(y, h, Height) - 1), count |-> w * h ]

Window(x, y, w, h) ==
  [ x0 |-> x, x1 |-> U16(x + Clip(x, w, Width) - 1),
    y0 |-> y, y1 |-> U16(y + Clip(y, h, Height) - 1),
    count |-> Clip(x, w, Width) * Clip(y, h, Height) ]

\* A rectangle asked for, its window, and how it is sent.
lcd_rect(x, y, w, h, colour) ==
  [ x |-> x, y |-> y, w |-> w, h |-> h, colour |-> colour, chunk |-> 1,
    window |-> Window(x, y, w, h) ]

\* Mutation: the window is one column too wide.
lcd_fill_wide(colour) ==
  [ x |-> 0, y |-> 0, w |-> Width, h |-> Height, colour |-> colour,
    chunk |-> Chunk,
    window |-> [ x0 |-> 0, x1 |-> Width, y0 |-> 0, y1 |-> U16(Height - 1),
                 count |-> Width * Height ] ]

lcd_fill(colour) ==
  [ x |-> 0, y |-> 0, w |-> Width, h |-> Height, colour |-> colour,
    chunk |-> Chunk,
    window |-> [ x0 |-> 0, x1 |-> U16(Width - 1), y0 |-> 0,
                 y1 |-> U16(Height - 1), count |-> Width * Height ] ]

glyph_for(c) == IF c \in DOMAIN Font THEN Font[c] ELSE unknown

\* lcd_draw_text: as many characters as fit whole; x is a uint16_t.
\* (Mutation: a character is drawn if it begins on the panel.)
Advance == 6 * Scale
CharX(i) == U16(TextX + (i - 1) * Advance)

FitsHalf(i) == \A j \in 1..i : CharX(j) <= Width
Fits(i) == \A j \in 1..i : CharX(j) + Advance <= Width

\* A rectangle of a text is named by where the loops are: line, character,
\* column and row of the glyph.  lcd_draw_char draws a square for every bit
\* that is set, and lcd_rect does nothing for one outside the panel.
Text(s, line) == IF line = 1 THEN s.line1 ELSE s.line2
LineY(line)   == IF line = 1 THEN Line1Y ELSE Line2Y

BitSet(byte, row) == (byte \div 2^row) % 2 = 1

lcd_draw_char(p) ==
  lcd_rect(U16(CharX(p[2]) + p[3] * Scale), U16(LineY(p[1]) + p[4] * Scale),
           Scale, Scale, "white")

Squares(s, line) ==
  { p \in {line} \X (1..Len(Text(s, line))) \X (0..4) \X (0..6) :
      /\ Fits(p[2])
      /\ BitSet(glyph_for(Text(s, line)[p[2]])[p[3] + 1], p[4])
      /\ Inside(lcd_draw_char(p).x, lcd_draw_char(p).y, Scale, Scale) }

\* The body of display_task's loop: the fill, then two lines of text (which
\* draw nothing if they are empty), in the order of the loops.
fill == <<0, 0, 0, 0>>

Before(p, q) == \E k \in 1..4 : p[k] < q[k] /\ \A l \in 1..(k - 1) : p[l] = q[l]

Jobs == [s \in States |-> {fill} \cup Squares(s, 1) \cup Squares(s, 2)]

Rectangle(s, p) == IF p = fill THEN lcd_fill(status_color(s.status))
                               ELSE lcd_draw_char(p)

(***************************************************************************)
(* The display task, one SPI transaction at a time.                        *)
(***************************************************************************)
Current == Rectangle(state, job)

\* lcd_set_window: the four bytes of CASET and RASET.
Bytes(a, b) == << (a \div 256) % 256, a % 256, (b \div 256) % 256, b % 256 >>

\* The end of a fill or a rectangle, complete or not: its result is ignored.
\* (Mutation: the loop does not go on to the next one.)
LeaveWithoutAdvancing ==
  pc' = "caset" /\ remaining' = 0 /\ UNCHANGED job

Leave ==
  /\ remaining' = 0
  /\ \/ \E p \in Jobs[state] :
          /\ Before(job, p)
          /\ \A q \in Jobs[state] : ~(Before(job, q) /\ Before(q, p))
          /\ job' = p /\ pc' = "caset"
     \/ /\ \A p \in Jobs[state] : ~Before(job, p)
        /\ pc' = "receive" /\ UNCHANGED job

\* A transaction of lcd_set_window, that has "effect" on the controller if it
\* gets there; if it fails the rectangle is given up.
\* (Mutation: the result of lcd_set_window is not checked.)
Go(next) ==
  /\ pc' = next /\ UNCHANGED job
  /\ remaining' = IF next = "pixels" THEN Current.window.count ELSE 0

SendUnchecked(at, next, effect) ==
  \E ok, reached \in BOOLEAN :
    /\ pc = at
    /\ Transfer(ok, reached)
    /\ IF reached THEN effect ELSE UNCHANGED controller
    /\ Go(next)
    /\ clean' = (clean /\ ok)
    /\ UNCHANGED <<state, filled>>

Send(at, next, effect) ==
  \E ok, reached \in BOOLEAN :
    /\ pc = at
    /\ Transfer(ok, reached)
    /\ IF reached THEN effect ELSE UNCHANGED controller
    /\ IF ok THEN Go(next) ELSE Leave
    /\ clean' = (clean /\ ok)
    /\ UNCHANGED <<state, filled>>

Receive(s) ==
  /\ pc = "receive"
  /\ state' = s /\ job' = fill /\ pc' = "caset"
  /\ filled' = FALSE /\ clean' = TRUE
  /\ UNCHANGED <<controller, remaining, faults>>

Columns4 == Bytes(Current.window.x0, Current.window.x1)
Rows4    == Bytes(Current.window.y0, Current.window.y1)

SendCaset   == Send("caset",   "columns", TakeCommand("CASET"))
SendColumns == Send("columns", "raset",   TakeWindow(Columns4))
SendRaset   == Send("raset",   "rows",    TakeCommand("RASET"))
SendRows    == Send("rows",    "ramwr",   TakeWindow(Rows4))
SendRamwr   == Send("ramwr",   "pixels",  TakeCommand("RAMWR"))

\* One round of the loop over the pixels, 64 of them in lcd_fill and one in
\* lcd_rect; of a failing transaction any part may get through.
\* (Mutation: one round too many.)
Pixels == IF remaining > Current.chunk THEN Current.chunk ELSE remaining

MorePixelsThanNone == remaining >= Pixels
MorePixels == remaining > Pixels

SendPixels ==
  /\ pc = "pixels"
  /\ \/ /\ Transfer(TRUE, TRUE)
        /\ TakePixels(Pixels, Current.colour)
        /\ IF MorePixels
           THEN /\ remaining' = remaining - Pixels
                /\ UNCHANGED <<pc, job, filled>>
           ELSE Leave /\ filled' = (filled \/ job = fill)
        /\ UNCHANGED clean
     \/ \E k \in 0..Pixels :
          /\ Transfer(FALSE, k > 0)
          /\ TakePixels(k, Current.colour)
          /\ Leave /\ clean' = FALSE
          /\ UNCHANGED filled
  /\ UNCHANGED state

Init ==
  /\ command = "none" /\ colWindow = <<0, 0>> /\ rowWindow = <<0, 0>>
  /\ written = 0 /\ pix = [p \in Px |-> "noise"]
  /\ pc = "receive" /\ state \in States /\ job = fill /\ remaining = 0
  /\ filled = FALSE /\ clean = FALSE
  /\ faults = MaxFaults

Draw == SendCaset \/ SendColumns \/ SendRaset \/ SendRows \/ SendRamwr \/ SendPixels

Next == Draw \/ \E s \in States : Receive(s)

Spec == Init /\ [][Next]_vars /\ WF_vars(Draw)

-----------------------------------------------------------------------------
LcdTypeOK ==
  /\ command \in {"none", "CASET", "RASET", "RAMWR"}
  /\ colWindow \in UInt16 \X UInt16 /\ rowWindow \in UInt16 \X UInt16
  /\ written \in Nat
  /\ pix \in [Px -> {"noise", "white", "black", "yellow", "green", "red", "blue"}]
  /\ pc \in {"receive", "caset", "columns", "raset", "rows", "ramwr", "pixels"}
  /\ state \in States
  /\ job \in Jobs[state]
  /\ remaining \in Nat /\ (remaining > 0 <=> pc = "pixels")
  /\ filled \in BOOLEAN /\ clean \in BOOLEAN
  /\ faults \in 0..MaxFaults

\* The number of pixels sent agrees with the window they are sent to, clipped
\* or not: a window is never filled past its end, where the controller would
\* start again at its beginning.
NoWrap == command = "RAMWR" => written <= Columns * Rows

\* Whatever fails, nothing is painted outside the rectangle that was asked
\* for: a window that is only half set, or left over from an earlier
\* rectangle, is never painted in.
PaintsInside ==
  [][ \A p \in Px : pix'[p] # pix[p] =>
        /\ pc = "pixels"
        /\ p[1] \in Current.x..(Current.x + Current.w - 1)
        /\ p[2] \in Current.y..(Current.y + Current.h - 1) ]_vars

(***************************************************************************)
(* The picture of a state, by pixels instead of rectangles: character i of *)
(* a line has the cells 6 * Scale * (i - 1) from TextX on, and is shown if *)
(* all of them are on the panel.                                           *)
(***************************************************************************)
InkOf(text, y) ==
  { p \in Px : \E i \in 1..Len(text) :
      LET left == TextX + 6 * Scale * (i - 1)
      IN /\ left + 6 * Scale <= Width
         /\ p[1] >= left /\ p[1] < left + 5 * Scale
         /\ p[2] >= y /\ p[2] < y + 7 * Scale
         /\ BitSet(glyph_for(text[i])[(p[1] - left) \div Scale + 1],
                   (p[2] - y) \div Scale) }

Ink == [s \in States |-> InkOf(s.line1, Line1Y) \cup InkOf(s.line2, Line2Y)]

\* A state that was drawn without a failure is exactly its picture, whatever
\* was on the panel before: text of an earlier state is gone, and a text too
\* long for the panel ends with a whole character.
PictureComplete ==
  pc = "receive" /\ clean =>
    \A p \in Px : pix[p] = IF p \in Ink[state] THEN "white"
                           ELSE status_color(state.status)

\* Once the fill got through, transactions that fail may cost ink but add
\* none: what is on the panel is this state's colour and part of its text.
OnlyOwnInk ==
  filled => \A p \in Px : \/ pix[p] = status_color(state.status)
                          \/ pix[p] = "white" /\ p \in Ink[state]

\* Drawing a state ends, whatever fails: the task gets back to its queue.
DrawingEnds == (pc # "receive") ~> (pc = "receive")
=============================================================================
