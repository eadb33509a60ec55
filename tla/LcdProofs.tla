----------------------------- MODULE LcdProofs -----------------------------
(***************************************************************************)
(* The window of every rectangle, for every panel, font, scale, text and   *)
(* number of failures: 16 bits are enough for it, the pixels sent agree    *)
(* with it, and nothing is painted outside what was asked for.  From that, *)
(* the picture: what the rectangles of a state leave on the panel.  At the *)
(* end, that drawing it comes nearer to its end with every transaction.    *)
(***************************************************************************)
EXTENDS LcdDraw, TLAPS

\* Converting to uint16_t gives one, and changes nothing that is one.
LEMMA U16Type == ASSUME NEW n \in Nat PROVE U16(n) \in UInt16
<1>1. n % 65536 \in Nat /\ n % 65536 < 65536
  OBVIOUS
<1> QED  BY <1>1 DEF U16, UInt16

LEMMA U16Same == ASSUME NEW n \in UInt16 PROVE U16(n) = n
<1>1. n \in Nat /\ n < 65536
  BY DEF UInt16
<1>2. n % 65536 = n
  BY <1>1, Z3
<1> QED  BY <1>2 DEF U16

\* Clipping keeps at least one pixel, ends on the panel, and its last pixel
\* fits into a uint16_t.
LEMMA ClipExact ==
  ASSUME NEW x \in UInt16, NEW w \in UInt16, NEW limit \in UInt16,
         w # 0, x < limit
  PROVE  /\ Clip(x, w, limit) \in 1..w
         /\ x + Clip(x, w, limit) <= limit
         /\ U16(x + Clip(x, w, limit) - 1) = x + Clip(x, w, limit) - 1
<1>1. limit - x \in UInt16 /\ U16(limit - x) = limit - x
  <2>1. limit - x \in UInt16
    BY DEF UInt16
  <2> QED  BY <2>1, U16Same
<1>2. Clip(x, w, limit) = IF x + w > limit THEN limit - x ELSE w
  BY <1>1 DEF Clip
<1>3. /\ Clip(x, w, limit) \in 1..w
      /\ x + Clip(x, w, limit) <= limit
      /\ x + Clip(x, w, limit) - 1 \in UInt16
  BY <1>2 DEF UInt16
<1> QED  BY <1>3, U16Same

\* The four bytes the controller takes are the first and last it was meant
\* to get.
LEMMA BytesRoundTrip ==
  ASSUME NEW a \in UInt16, NEW b \in UInt16
  PROVE  FromBytes(Bytes(a, b)) = <<a, b>>
<1>1. ASSUME NEW n \in UInt16
      PROVE  256 * ((n \div 256) % 256) + (n % 256) = n
  <2>1. n \in Nat /\ n < 65536
    BY DEF UInt16
  <2>2. n \div 256 \in Nat /\ n \div 256 <= 255
    BY <2>1
  <2>3. \A m \in Nat : m <= 255 => m % 256 = m
    OBVIOUS
  <2>4. (n \div 256) % 256 = n \div 256
    BY <2>2, <2>3
  <2>5. 256 * (n \div 256) + (n % 256) = n
    BY <2>1
  <2> QED  BY <2>4, <2>5
<1> DEFINE hi(n) == (n \div 256) % 256
           lo(n) == n % 256
<1>2. Bytes(a, b) = <<hi(a), lo(a), hi(b), lo(b)>>
  BY DEF Bytes
<1>3. 256 * hi(a) + lo(a) = a /\ 256 * hi(b) + lo(b) = b
  BY <1>1
<1> HIDE DEF hi, lo
<1> QED  BY <1>2, <1>3 DEF FromBytes

-----------------------------------------------------------------------------
\* What there is to know of a rectangle: its window lies in it and on the
\* panel, and has as many pixels as are sent.
Good(r) ==
  /\ r.window.x0 = r.x /\ r.window.y0 = r.y
  /\ r.x \in UInt16 /\ r.y \in UInt16 /\ r.w \in UInt16 /\ r.h \in UInt16
  /\ r.window.x1 \in UInt16 /\ r.window.y1 \in UInt16
  /\ r.x <= r.window.x1 /\ r.window.x1 <= r.x + r.w - 1
  /\ r.y <= r.window.y1 /\ r.window.y1 <= r.y + r.h - 1
  /\ r.window.x1 < Width /\ r.window.y1 < Height
  /\ r.window.count = (r.window.x1 - r.x + 1) * (r.window.y1 - r.y + 1)
  /\ r.window.count \in Nat \ {0}
  /\ r.chunk \in Nat \ {0}
  /\ r.colour \in {"white", "black", "yellow", "green", "red", "blue"}

LEMMA AreaPositive == ASSUME NEW m \in Nat \ {0}, NEW n \in Nat \ {0}
                      PROVE  m * n \in Nat \ {0}
OBVIOUS

LEMMA RectGood ==
  ASSUME NEW x \in UInt16, NEW y \in UInt16, NEW w \in UInt16, NEW h \in UInt16,
         Inside(x, y, w, h)
  PROVE  Good(lcd_rect(x, y, w, h, "white"))
<1> DEFINE cw == Clip(x, w, Width)
           ch == Clip(y, h, Height)
           r  == lcd_rect(x, y, w, h, "white")
<1>1. w # 0 /\ h # 0 /\ x < Width /\ y < Height
  BY DEF Inside
<1>2. /\ cw \in 1..w /\ x + cw <= Width
      /\ U16(x + cw - 1) = x + cw - 1
  BY <1>1, ClipExact, PanelAssumption DEF UInt16
<1>3. /\ ch \in 1..h /\ y + ch <= Height
      /\ U16(y + ch - 1) = y + ch - 1
  BY <1>1, ClipExact, PanelAssumption DEF UInt16
<1>4. r = [ x |-> x, y |-> y, w |-> w, h |-> h, colour |-> "white", chunk |-> 1,
            window |-> [ x0 |-> x, x1 |-> x + cw - 1, y0 |-> y,
                         y1 |-> y + ch - 1, count |-> cw * ch ] ]
  BY <1>2, <1>3 DEF lcd_rect, Window
<1> HIDE DEF cw, ch, r
<1>5. cw \in Nat \ {0} /\ ch \in Nat \ {0} /\ cw * ch \in Nat \ {0}
  BY <1>2, <1>3, AreaPositive DEF UInt16
<1>6. (x + cw - 1) - x + 1 = cw /\ (y + ch - 1) - y + 1 = ch
  BY <1>5 DEF UInt16
<1>7. /\ r.window.count = (r.window.x1 - r.x + 1) * (r.window.y1 - r.y + 1)
      /\ r.window.count \in Nat \ {0}
  BY <1>4, <1>5, <1>6
<1>8. /\ x + cw - 1 \in UInt16 /\ x <= x + cw - 1 /\ x + cw - 1 <= x + w - 1
      /\ x + cw - 1 < Width
      /\ y + ch - 1 \in UInt16 /\ y <= y + ch - 1 /\ y + ch - 1 <= y + h - 1
      /\ y + ch - 1 < Height
  BY <1>2, <1>3, PanelAssumption DEF UInt16
<1> QED  BY <1>4, <1>7, <1>8 DEF Good, r

LEMMA FillGood ==
  ASSUME NEW c \in {"black", "yellow", "green", "red", "blue"}
  PROVE  Good(lcd_fill(c))
<1>1. U16(Width - 1) = Width - 1 /\ U16(Height - 1) = Height - 1
  <2>1. Width - 1 \in UInt16 /\ Height - 1 \in UInt16
    BY PanelAssumption DEF UInt16
  <2> QED  BY <2>1, U16Same
<1>2. lcd_fill(c) = [ x |-> 0, y |-> 0, w |-> Width, h |-> Height, colour |-> c,
                      chunk |-> Chunk,
                      window |-> [ x0 |-> 0, x1 |-> Width - 1, y0 |-> 0,
                                   y1 |-> Height - 1, count |-> Width * Height ] ]
  BY <1>1 DEF lcd_fill
<1>3. Width \in Nat \ {0} /\ Height \in Nat \ {0} /\ Width * Height \in Nat \ {0}
  BY PanelAssumption, AreaPositive DEF UInt16
<1>4. (Width - 1) - 0 + 1 = Width /\ (Height - 1) - 0 + 1 = Height
  BY <1>3
<1>5. Width * Height = ((Width - 1) - 0 + 1) * ((Height - 1) - 0 + 1)
  BY <1>4
<1>6. /\ Width - 1 \in UInt16 /\ Height - 1 \in UInt16
      /\ 0 <= Width - 1 /\ Width - 1 <= 0 + Width - 1 /\ Width - 1 < Width
      /\ 0 <= Height - 1 /\ Height - 1 <= 0 + Height - 1 /\ Height - 1 < Height
      /\ 0 \in UInt16 /\ Width \in UInt16 /\ Height \in UInt16
  BY PanelAssumption DEF UInt16
<1> QED  BY <1>2, <1>3, <1>5, <1>6, ChunkAssumption DEF Good

\* Every rectangle of every state is good.
LEMMA JobsGood ==
  ASSUME NEW s \in States, NEW p \in Jobs[s]
  PROVE  Good(Rectangle(s, p))
<1>1. CASE p = fill
  <2>1. status_color(s.status) \in {"black", "yellow", "green", "red", "blue"}
    BY DEF status_color
  <2> QED  BY <1>1, <2>1, FillGood DEF Rectangle
<1>2. CASE p # fill
  <2>1. PICK line \in {1, 2} : p \in Squares(s, line)
    BY <1>2 DEF Jobs
  <2>2. /\ p[1] = line /\ p[2] \in 1..Len(Text(s, line))
        /\ p[3] \in 0..4 /\ p[4] \in 0..6
        /\ Inside(lcd_draw_char(p).x, lcd_draw_char(p).y, Scale, Scale)
    BY <2>1 DEF Squares
  <2> DEFINE x == U16(CharX(p[2]) + p[3] * Scale)
             y == U16(LineY(p[1]) + p[4] * Scale)
  <2>3. CharX(p[2]) \in Nat
    <3>1. p[2] - 1 \in Nat /\ Advance \in Nat
      BY <2>2, TextAssumption DEF Advance, UInt8
    <3>2. (p[2] - 1) * Advance \in Nat
      BY <3>1
    <3> QED  BY <3>2, TextAssumption, U16Type DEF CharX, UInt16
  <2>4. LineY(p[1]) \in Nat
    BY TextAssumption DEF LineY, UInt16
  <2>5. p[3] * Scale \in Nat /\ p[4] * Scale \in Nat
    BY <2>2, TextAssumption DEF UInt8
  <2>6. x \in UInt16 /\ y \in UInt16 /\ Scale \in UInt16
    BY <2>3, <2>4, <2>5, U16Type, TextAssumption DEF UInt8, UInt16
  <2>7. lcd_draw_char(p) = lcd_rect(x, y, Scale, Scale, "white")
    BY DEF lcd_draw_char
  <2> HIDE DEF x, y
  <2>8. Inside(x, y, Scale, Scale)
    BY <2>2, <2>7 DEF lcd_rect
  <2> QED  BY <1>2, <2>6, <2>7, <2>8, RectGood DEF Rectangle
<1> QED  BY <1>1, <1>2

-----------------------------------------------------------------------------
(***************************************************************************)
(* The inductive invariant: the part of the window that has been sent is   *)
(* the controller's, and what was sent and what remains are its pixels.    *)
(***************************************************************************)
Aligned ==
  LET w == Current.window IN
  /\ pc = "columns" => command = "CASET"
  /\ pc = "rows" => command = "RASET"
  /\ pc \in {"raset", "rows", "ramwr", "pixels"} => colWindow = <<w.x0, w.x1>>
  /\ pc \in {"ramwr", "pixels"} => rowWindow = <<w.y0, w.y1>>
  /\ pc = "pixels" => command = "RAMWR" /\ written + remaining = w.count

LcdInv == LcdTypeOK /\ Aligned /\ NoWrap

Places  == {"receive", "caset", "columns", "raset", "rows", "ramwr", "pixels"}
Colours == {"noise", "white", "black", "yellow", "green", "red", "blue"}

\* What Leave does to the task: it goes on or is done, and nothing remains.
LEMMA LeaveType ==
  ASSUME LcdTypeOK, Leave
  PROVE  /\ pc' \in {"caset", "receive"} /\ job' \in Jobs[state]
         /\ remaining' = 0
BY DEF Leave, LcdTypeOK

\* The current rectangle is good.
LEMMA CurrentGood == ASSUME LcdTypeOK PROVE Good(Current)
BY JobsGood DEF LcdTypeOK, Current

\* A pixel that arrives lies in the window.
LEMMA SpotInWindow ==
  ASSUME LcdTypeOK, NEW j \in Nat,
         NEW r, Good(r), colWindow = <<r.window.x0, r.window.x1>>,
         rowWindow = <<r.window.y0, r.window.y1>>
  PROVE  /\ Spot(j)[1] \in r.x..(r.x + r.w - 1)
         /\ Spot(j)[2] \in r.y..(r.y + r.h - 1)
<1> DEFINE c == Columns
           d == Rows
<1>1. /\ c = r.window.x1 - r.x + 1 /\ c \in Nat \ {0}
      /\ d = r.window.y1 - r.y + 1 /\ d \in Nat \ {0}
  BY DEF Good, Columns, Rows, UInt16
<1> HIDE DEF c, d
<1>2. \A n \in Nat : n % c \in 0..(c - 1) /\ n % d \in 0..(d - 1) /\ n \div c \in Nat
  BY <1>1
<1>3. Spot(j) = << r.x + (j % c), r.y + ((j \div c) % d) >>
  BY DEF Spot, Good, c, d
<1>4. j % c \in 0..(c - 1) /\ (j \div c) % d \in 0..(d - 1)
  BY <1>2
<1> QED  BY <1>1, <1>3, <1>4 DEF Good, UInt16

-----------------------------------------------------------------------------
\* What a transaction of lcd_set_window does to the task, whatever it does to
\* the controller: it succeeds and the task goes on, or fails and the task
\* leaves the rectangle.
Succeeded(next) == Go(next) /\ UNCHANGED state

TaskType ==
  /\ state' \in States /\ job' \in Jobs[state']
  /\ remaining' \in Nat /\ (remaining' > 0 <=> pc' = "pixels")
  /\ filled' \in BOOLEAN /\ clean' \in BOOLEAN
  /\ faults' \in 0..MaxFaults

LEMMA SendTask ==
  ASSUME LcdTypeOK, NEW at, NEW next \in Places \ {"receive", "caset"},
         Send(at, next, TRUE)
  PROVE  /\ pc = at /\ TaskType
         /\ Succeeded(next) \/ pc' \in {"caset", "receive"}
<1>1. PICK ok \in BOOLEAN, reached \in BOOLEAN :
        /\ pc = at /\ Transfer(ok, reached)
        /\ IF ok THEN Go(next) ELSE Leave
        /\ clean' = (clean /\ ok) /\ UNCHANGED <<state, filled>>
  BY DEF Send
<1>2. clean' \in BOOLEAN /\ filled' \in BOOLEAN /\ state' \in States
  BY <1>1 DEF LcdTypeOK
<1>3. faults' \in 0..MaxFaults
  BY <1>1, FaultsAssumption DEF Transfer, LcdTypeOK
<1>4. CASE ok
  <2>1. Good(Current)
    BY CurrentGood
  <2>2. /\ pc' = next /\ job' = job
        /\ remaining' = IF next = "pixels" THEN Current.window.count ELSE 0
    BY <1>1, <1>4 DEF Go
  <2>3. remaining' \in Nat /\ (remaining' > 0 <=> pc' = "pixels")
    BY <2>1, <2>2 DEF Good
  <2>4. job' \in Jobs[state']
    BY <1>1, <2>2 DEF LcdTypeOK
  <2> QED  BY <1>1, <1>2, <1>3, <1>4, <2>3, <2>4 DEF TaskType, Succeeded
<1>5. CASE ~ok
  <2>1. pc' \in {"caset", "receive"} /\ job' \in Jobs[state] /\ remaining' = 0
    BY <1>1, <1>5, LeaveType
  <2> QED  BY <1>1, <1>2, <1>3, <2>1 DEF TaskType
<1> QED  BY <1>4, <1>5

\* If a transaction succeeds it has had its effect; otherwise it may have.
LEMMA Effects ==
  /\ SendCaset => /\ Send("caset", "columns", TRUE)
                  /\ TakeCommand("CASET") \/ UNCHANGED controller
                  /\ pc' = "columns" => TakeCommand("CASET")
  /\ SendColumns => /\ Send("columns", "raset", TRUE)
                    /\ TakeWindow(Columns4) \/ UNCHANGED controller
                    /\ pc' = "raset" => TakeWindow(Columns4)
  /\ SendRaset => /\ Send("raset", "rows", TRUE)
                  /\ TakeCommand("RASET") \/ UNCHANGED controller
                  /\ pc' = "rows" => TakeCommand("RASET")
  /\ SendRows => /\ Send("rows", "ramwr", TRUE)
                 /\ TakeWindow(Rows4) \/ UNCHANGED controller
                 /\ pc' = "ramwr" => TakeWindow(Rows4)
  /\ SendRamwr => /\ Send("ramwr", "pixels", TRUE)
                  /\ TakeCommand("RAMWR") \/ UNCHANGED controller
                  /\ pc' = "pixels" => TakeCommand("RAMWR")
<1>1. Leave => pc' \in {"caset", "receive"}
  BY DEF Leave
<1> QED  BY <1>1 DEF SendCaset, SendColumns, SendRaset, SendRows, SendRamwr,
                     Send, Transfer

\* A command or a window leaves the controller well typed, and what was
\* written within the window.
ControllerType ==
  /\ command' \in {"none", "CASET", "RASET", "RAMWR"}
  /\ colWindow' \in UInt16 \X UInt16 /\ rowWindow' \in UInt16 \X UInt16
  /\ written' \in Nat /\ pix' \in [Px -> Colours]

LEMMA CommandType ==
  ASSUME LcdTypeOK, NEW c \in {"CASET", "RASET", "RAMWR"}, TakeCommand(c)
  PROVE  ControllerType
BY DEF TakeCommand, LcdTypeOK, ControllerType, Colours

LEMMA WindowType ==
  ASSUME LcdTypeOK, NEW a \in UInt16, NEW b \in UInt16, TakeWindow(Bytes(a, b))
  PROVE  ControllerType
BY BytesRoundTrip DEF TakeWindow, LcdTypeOK, ControllerType, Colours

\* A transaction that may have changed the controller keeps everything if it
\* fails, because then the task is at the start of a rectangle or done.
LEMMA LeavingKeeps ==
  ASSUME TaskType, ControllerType, NoWrap', pc' \in {"caset", "receive"}
  PROVE  LcdInv'
BY DEF LcdInv, LcdTypeOK, TaskType, ControllerType, Aligned, Colours

LEMMA SameController ==
  ASSUME LcdInv, UNCHANGED controller
  PROVE  ControllerType /\ NoWrap'
BY DEF LcdInv, LcdTypeOK, ControllerType, NoWrap, Columns, Rows, controller, Colours

LEMMA CasetKeeps == ASSUME LcdInv, SendCaset PROVE LcdInv'
<1>1. /\ pc = "caset" /\ TaskType
      /\ Succeeded("columns") \/ pc' \in {"caset", "receive"}
      /\ TakeCommand("CASET") \/ UNCHANGED controller
      /\ pc' = "columns" => TakeCommand("CASET")
  BY Effects, SendTask DEF LcdInv, Places
<1>2. ControllerType /\ NoWrap'
  BY <1>1, CommandType, SameController DEF LcdInv, TakeCommand, NoWrap
<1>3. CASE Succeeded("columns")
  BY <1>1, <1>2, <1>3
  DEF Succeeded, Go, TakeCommand, LcdInv, LcdTypeOK, TaskType, ControllerType,
      Aligned, Colours
<1> QED  BY <1>1, <1>2, <1>3, LeavingKeeps

LEMMA ColumnsKeeps == ASSUME LcdInv, SendColumns PROVE LcdInv'
<1>1. /\ pc = "columns" /\ TaskType
      /\ Succeeded("raset") \/ pc' \in {"caset", "receive"}
      /\ TakeWindow(Columns4) \/ UNCHANGED controller
      /\ pc' = "raset" => TakeWindow(Columns4)
  BY Effects, SendTask DEF LcdInv, Places
<1>2. Good(Current) /\ command = "CASET"
  BY <1>1, CurrentGood DEF LcdInv, Aligned
<1>3. Current.window.x0 \in UInt16 /\ Current.window.x1 \in UInt16
  BY <1>2 DEF Good
<1>4. ControllerType /\ NoWrap'
  BY <1>1, <1>2, <1>3, WindowType, SameController
  DEF LcdInv, TakeWindow, NoWrap, Columns4
<1>5. CASE Succeeded("raset")
  <2>1. colWindow' = <<Current.window.x0, Current.window.x1>>
    BY <1>1, <1>2, <1>3, <1>5, BytesRoundTrip
    DEF Succeeded, Go, TakeWindow, Columns4
  <2>2. Current' = Current
    BY <1>5 DEF Succeeded, Go, Current
  <2> QED  BY <1>1, <1>4, <1>5, <2>1, <2>2
           DEF Succeeded, Go, LcdInv, LcdTypeOK, TaskType, ControllerType,
               Aligned, Colours
<1> QED  BY <1>1, <1>4, <1>5, LeavingKeeps

LEMMA RasetKeeps == ASSUME LcdInv, SendRaset PROVE LcdInv'
<1>1. /\ pc = "raset" /\ TaskType
      /\ Succeeded("rows") \/ pc' \in {"caset", "receive"}
      /\ TakeCommand("RASET") \/ UNCHANGED controller
      /\ pc' = "rows" => TakeCommand("RASET")
  BY Effects, SendTask DEF LcdInv, Places
<1>2. ControllerType /\ NoWrap'
  BY <1>1, CommandType, SameController DEF LcdInv, TakeCommand, NoWrap
<1>3. CASE Succeeded("rows")
  <2>1. Current' = Current
    BY <1>3 DEF Succeeded, Go, Current
  <2> QED  BY <1>1, <1>2, <1>3, <2>1
           DEF Succeeded, Go, TakeCommand, LcdInv, LcdTypeOK, TaskType,
               ControllerType, Aligned, Colours
<1> QED  BY <1>1, <1>2, <1>3, LeavingKeeps

LEMMA RowsKeeps == ASSUME LcdInv, SendRows PROVE LcdInv'
<1>1. /\ pc = "rows" /\ TaskType
      /\ Succeeded("ramwr") \/ pc' \in {"caset", "receive"}
      /\ TakeWindow(Rows4) \/ UNCHANGED controller
      /\ pc' = "ramwr" => TakeWindow(Rows4)
  BY Effects, SendTask DEF LcdInv, Places
<1>2. Good(Current) /\ command = "RASET"
  BY <1>1, CurrentGood DEF LcdInv, Aligned
<1>3. Current.window.y0 \in UInt16 /\ Current.window.y1 \in UInt16
  BY <1>2 DEF Good
<1>4. ControllerType /\ NoWrap'
  BY <1>1, <1>2, <1>3, WindowType, SameController
  DEF LcdInv, TakeWindow, NoWrap, Rows4
<1>5. CASE Succeeded("ramwr")
  <2>1. /\ rowWindow' = <<Current.window.y0, Current.window.y1>>
        /\ colWindow' = colWindow
    BY <1>1, <1>2, <1>3, <1>5, BytesRoundTrip
    DEF Succeeded, Go, TakeWindow, Rows4
  <2>2. Current' = Current
    BY <1>5 DEF Succeeded, Go, Current
  <2> QED  BY <1>1, <1>4, <1>5, <2>1, <2>2
           DEF Succeeded, Go, LcdInv, LcdTypeOK, TaskType, ControllerType,
               Aligned, Colours
<1> QED  BY <1>1, <1>4, <1>5, LeavingKeeps

LEMMA RamwrKeeps == ASSUME LcdInv, SendRamwr PROVE LcdInv'
<1>1. /\ pc = "ramwr" /\ TaskType
      /\ Succeeded("pixels") \/ pc' \in {"caset", "receive"}
      /\ TakeCommand("RAMWR") \/ UNCHANGED controller
      /\ pc' = "pixels" => TakeCommand("RAMWR")
  BY Effects, SendTask DEF LcdInv, Places
<1>2. Good(Current)
  BY CurrentGood DEF LcdInv
<1>3. /\ colWindow = <<Current.window.x0, Current.window.x1>>
      /\ rowWindow = <<Current.window.y0, Current.window.y1>>
  BY <1>1 DEF LcdInv, Aligned
<1>4. Columns * Rows = Current.window.count /\ Current.window.count \in Nat
  BY <1>2, <1>3 DEF Good, Columns, Rows
<1>5. ControllerType /\ NoWrap'
  BY <1>1, <1>4, CommandType, SameController
  DEF LcdInv, TakeCommand, NoWrap, Columns, Rows
<1>6. CASE Succeeded("pixels")
  <2>1. Current' = Current /\ remaining' = Current.window.count
    BY <1>6 DEF Succeeded, Go, Current
  <2>2. written' = 0 /\ command' = "RAMWR" /\ UNCHANGED <<colWindow, rowWindow>>
    BY <1>1, <1>6 DEF Succeeded, Go, TakeCommand
  <2> QED  BY <1>1, <1>3, <1>4, <1>5, <1>6, <2>1, <2>2
           DEF Succeeded, Go, LcdInv, LcdTypeOK, TaskType, ControllerType,
               Aligned, Colours
<1> QED  BY <1>1, <1>5, <1>6, LeavingKeeps

\* Pixels: those that arrive are some of those that remain.
LEMMA PixelsKeeps == ASSUME LcdInv, SendPixels PROVE LcdInv'
<1>1. /\ pc = "pixels" /\ command = "RAMWR" /\ Good(Current)
      /\ colWindow = <<Current.window.x0, Current.window.x1>>
      /\ rowWindow = <<Current.window.y0, Current.window.y1>>
      /\ written + remaining = Current.window.count
      /\ written \in Nat /\ remaining \in Nat \ {0}
  BY CurrentGood DEF SendPixels, LcdInv, LcdTypeOK, Aligned
<1>2. Columns * Rows = Current.window.count
  BY <1>1 DEF Good, Columns, Rows
<1>3. Pixels \in Nat \ {0} /\ Pixels <= remaining
  BY <1>1 DEF Pixels, Good
<1>4. ASSUME NEW k \in 0..Pixels, TakePixels(k, Current.colour)
      PROVE  ControllerType /\ NoWrap' /\ written' = written + k
             /\ UNCHANGED <<command, colWindow, rowWindow>>
  <2>1. /\ written' = written + k /\ UNCHANGED <<command, colWindow, rowWindow>>
        /\ pix' \in [Px -> Colours]
    BY <1>1, <1>4 DEF TakePixels, LcdInv, LcdTypeOK, Good, Colours
  <2>2. written' \in Nat /\ written' <= Current.window.count
    BY <1>1, <1>3, <2>1 DEF Good
  <2> QED  BY <1>1, <1>2, <2>1, <2>2
           DEF ControllerType, NoWrap, Columns, Rows, LcdInv, LcdTypeOK
<1>5. CASE /\ Transfer(TRUE, TRUE) /\ TakePixels(Pixels, Current.colour)
           /\ MorePixels /\ remaining' = remaining - Pixels
           /\ UNCHANGED <<pc, job, filled, clean, state>>
  <2>1. Pixels \in 0..Pixels
    BY <1>3
  <2>2. /\ ControllerType /\ NoWrap' /\ written' = written + Pixels
        /\ UNCHANGED <<command, colWindow, rowWindow>>
    BY <1>4, <1>5, <2>1
  <2>3. remaining' \in Nat \ {0} /\ written' + remaining' = Current.window.count
    BY <1>1, <1>3, <1>5, <2>2 DEF MorePixels, Good
  <2>4. Current' = Current
    BY <1>5 DEF Current
  <2> QED  BY <1>1, <1>5, <2>2, <2>3, <2>4
           DEF LcdInv, LcdTypeOK, ControllerType, Aligned, Transfer, Colours
<1>6. CASE /\ \E ok \in BOOLEAN, k \in 0..Pixels :
                Transfer(ok, ok \/ k > 0) /\ TakePixels(k, Current.colour)
           /\ Leave /\ filled' \in BOOLEAN /\ clean' \in BOOLEAN
           /\ UNCHANGED state
  <2>1. ControllerType /\ NoWrap'
    BY <1>4, <1>6
  <2>2. faults' \in 0..MaxFaults
    BY <1>6, FaultsAssumption DEF Transfer, LcdInv, LcdTypeOK
  <2>3. TaskType /\ pc' \in {"caset", "receive"}
    BY <1>6, <2>2, LeaveType DEF TaskType, LcdInv, LcdTypeOK
  <2> QED  BY <2>1, <2>3, LeavingKeeps
<1>7. filled \in BOOLEAN /\ clean \in BOOLEAN
  BY DEF LcdInv, LcdTypeOK
<1>8. Pixels \in 0..Pixels
  BY <1>3
<1>9. CASE MorePixels /\ UNCHANGED clean /\ remaining' = remaining - Pixels
           /\ UNCHANGED <<pc, job, filled, state>>
           /\ Transfer(TRUE, TRUE) /\ TakePixels(Pixels, Current.colour)
  BY <1>5, <1>9
<1>10. CASE ~MorePixels /\ UNCHANGED clean /\ Leave
            /\ filled' = (filled \/ job = fill) /\ UNCHANGED state
            /\ Transfer(TRUE, TRUE) /\ TakePixels(Pixels, Current.colour)
  <2>1. filled' \in BOOLEAN /\ clean' \in BOOLEAN
    BY <1>7, <1>10
  <2>2. Transfer(TRUE, TRUE \/ Pixels > 0)
    BY <1>10 DEF Transfer
  <2> QED  BY <1>6, <1>8, <1>10, <2>1, <2>2
<1>11. CASE Leave /\ clean' = FALSE /\ UNCHANGED filled /\ UNCHANGED state
            /\ \E k \in 0..Pixels :
                 Transfer(FALSE, k > 0) /\ TakePixels(k, Current.colour)
  <2>1. filled' \in BOOLEAN /\ clean' \in BOOLEAN
    BY <1>7, <1>11
  <2>2. PICK k \in 0..Pixels : Transfer(FALSE, k > 0) /\ TakePixels(k, Current.colour)
    BY <1>11
  <2>3. Transfer(FALSE, FALSE \/ k > 0)
    BY <2>2 DEF Transfer
  <2> QED  BY <1>6, <1>11, <2>1, <2>2, <2>3
<1> QED  BY <1>9, <1>10, <1>11 DEF SendPixels

LEMMA ReceiveKeeps == ASSUME LcdInv, NEW s \in States, Receive(s) PROVE LcdInv'
BY DEF Receive, LcdInv, LcdTypeOK, Aligned, NoWrap, Columns, Rows, controller, Jobs

LEMMA LcdInvInit == Init => LcdInv
<1> SUFFICES ASSUME Init PROVE LcdInv
  OBVIOUS
<1>1. <<0, 0>> \in UInt16 \X UInt16
  BY DEF UInt16
<1>2. job \in Jobs[state]
  BY DEF Init, Jobs
<1>3. pix \in [Px -> Colours] /\ faults \in 0..MaxFaults
  BY FaultsAssumption DEF Init, Colours
<1>4. /\ command \in {"none", "CASET", "RASET", "RAMWR"} /\ written \in Nat
      /\ colWindow \in UInt16 \X UInt16 /\ rowWindow \in UInt16 \X UInt16
      /\ state \in States /\ remaining \in Nat
  BY <1>1 DEF Init
<1>5. pc \in Places /\ ~(remaining > 0) /\ pc # "pixels"
  BY DEF Init, Places
<1>6. filled \in BOOLEAN /\ clean \in BOOLEAN
  BY DEF Init
<1>7. LcdTypeOK
  BY <1>2, <1>3, <1>4, <1>5, <1>6 DEF LcdTypeOK, Colours, Places
<1> QED  BY <1>7 DEF Init, LcdInv, Aligned, NoWrap

LEMMA LcdInvNext == LcdInv /\ [Next]_vars => LcdInv'
<1> SUFFICES ASSUME LcdInv, [Next]_vars PROVE LcdInv'
  OBVIOUS
<1>1. CASE Draw
  BY <1>1, CasetKeeps, ColumnsKeeps, RasetKeeps, RowsKeeps, RamwrKeeps,
     PixelsKeeps DEF Draw
<1>2. CASE \E s \in States : Receive(s)
  BY <1>2, ReceiveKeeps
<1>3. CASE UNCHANGED vars
  BY <1>3 DEF vars, controller, LcdInv, LcdTypeOK, Aligned, NoWrap, Columns,
              Rows, Current
<1> QED  BY <1>1, <1>2, <1>3 DEF Next

\* The types of the controller and of the display task, and where the task
\* is in its loops (LcdTypeOK).
THEOREM LcdTypeCorrect == Spec => []LcdTypeOK
BY LcdInvInit, LcdInvNext, PTL DEF Spec, LcdInv

\* On every panel, with every font and text and whatever fails, no window is
\* written past its end (NoWrap).
THEOREM LcdNoWrap == Spec => []NoWrap
BY LcdInvInit, LcdInvNext, PTL DEF Spec, LcdInv

\* A step changes pixels of the current rectangle only.
LEMMA PaintStep ==
  ASSUME LcdInv, [Next]_vars, NEW p \in Px, pix'[p] # pix[p]
  PROVE  /\ pc = "pixels"
         /\ p[1] \in Current.x..(Current.x + Current.w - 1)
         /\ p[2] \in Current.y..(Current.y + Current.h - 1)
<1>1. pix' # pix
  OBVIOUS
<1>2. SendPixels
  <2>1. SendCaset \/ SendColumns \/ SendRaset \/ SendRows \/ SendRamwr => UNCHANGED pix
    BY Effects DEF TakeCommand, TakeWindow, controller
  <2>2. (\E s \in States : Receive(s)) \/ UNCHANGED vars => UNCHANGED pix
    BY DEF Receive, vars, controller
  <2> QED  BY <1>1, <2>1, <2>2 DEF Next, Draw
<1>3. /\ pc = "pixels" /\ Good(Current)
      /\ colWindow = <<Current.window.x0, Current.window.x1>>
      /\ rowWindow = <<Current.window.y0, Current.window.y1>>
      /\ written \in Nat /\ Pixels \in Nat
  <2>1. pc = "pixels" /\ Good(Current)
    BY <1>2, CurrentGood DEF SendPixels, LcdInv
  <2> QED  BY <2>1 DEF LcdInv, LcdTypeOK, Aligned, Pixels, Good
<1>4. PICK k \in 0..Pixels : TakePixels(k, Current.colour)
  <2>1. TakePixels(Pixels, Current.colour)
        \/ \E k \in 0..Pixels : TakePixels(k, Current.colour)
    BY <1>2 DEF SendPixels
  <2>2. Pixels \in 0..Pixels
    BY <1>3
  <2> QED  BY <2>1, <2>2
<1>5. PICK j \in written..(written + k - 1) : p = Spot(j)
  BY <1>1, <1>4 DEF TakePixels, controller
<1>6. j \in Nat
  BY <1>3, <1>5
<1>7. /\ Spot(j)[1] \in Current.x..(Current.x + Current.w - 1)
      /\ Spot(j)[2] \in Current.y..(Current.y + Current.h - 1)
  <2>1. LcdTypeOK
    BY DEF LcdInv
  <2> QED  BY <1>3, <1>6, <2>1, SpotInWindow
<1> QED  BY <1>3, <1>5, <1>7

\* Nothing is painted outside the rectangle that was asked for, whichever
\* transactions of its window fail (PaintsInside).
THEOREM LcdPaintsInside == Spec => PaintsInside
<1>1. LcdInv /\ [Next]_vars =>
        [ \A p \in Px : pix'[p] # pix[p] =>
            /\ pc = "pixels"
            /\ p[1] \in Current.x..(Current.x + Current.w - 1)
            /\ p[2] \in Current.y..(Current.y + Current.h - 1) ]_vars
  BY PaintStep
<1> QED  BY <1>1, LcdInvInit, LcdInvNext, PTL DEF Spec, PaintsInside

-----------------------------------------------------------------------------
(***************************************************************************)
(* The picture.  While a rectangle is sent its first pixels have its       *)
(* colour; as long as nothing failed, the squares before the current one   *)
(* are on the panel; and what is not a square of the state has, since the  *)
(* fill got through, its colour.                                           *)
(***************************************************************************)
InWindow(w) == { p \in Px : p[1] \in w.x0..w.x1 /\ p[2] \in w.y0..w.y1 }

Painted ==
  pc = "pixels" => \A j \in 0..(written - 1) : pix[Spot(j)] = Current.colour

Drawn(p) ==
  p # fill => \A q \in InWindow(Rectangle(state, p).window) : pix[q] = "white"

Progress ==
  /\ filled => job # fill \/ pc = "receive"
  /\ clean /\ pc # "receive" =>
       /\ job = fill \/ filled
       /\ \A p \in Jobs[state] : Before(p, job) => Drawn(p)
  /\ clean /\ pc = "receive" => filled /\ \A p \in Jobs[state] : Drawn(p)

PictureInv == LcdInv /\ Painted /\ Progress /\ OnlyOwnInk

(***************************************************************************)
(* Arithmetic.                                                             *)
(***************************************************************************)
LEMMA TimesMonotone ==
  ASSUME NEW c \in Nat, NEW a \in Nat, NEW b \in Nat, a <= b
  PROVE  c * a \in Nat /\ c * b \in Nat /\ c * a <= c * b
<1>1. PICK d \in Nat : b = a + d
  <2>1. b - a \in Nat /\ b = a + (b - a)
    OBVIOUS
  <2> QED  BY <2>1
<1>2. c * b = c * a + c * d
  BY <1>1
<1>3. c * a \in Nat /\ c * d \in Nat
  OBVIOUS
<1> QED  BY <1>2, <1>3

LEMMA Division ==
  ASSUME NEW c \in Nat \ {0}, NEW n \in Nat
  PROVE  /\ n \div c \in Nat /\ n % c \in 0..(c - 1)
         /\ n = c * (n \div c) + (n % c)
OBVIOUS

LEMMA Quotient ==
  ASSUME NEW c \in Nat \ {0}, NEW n \in Nat
  PROVE  \E q \in Nat, m \in 0..(c - 1) : n = c * q + m
<1>1. /\ n \div c \in Nat /\ n % c \in 0..(c - 1)
      /\ n = c * (n \div c) + (n % c)
  BY Division
<1> QED  BY <1>1, Zenon

LEMMA DivisionUnique ==
  ASSUME NEW c \in Nat \ {0}, NEW q \in Nat, NEW m \in 0..(c - 1)
  PROVE  (c * q + m) \div c = q /\ (c * q + m) % c = m
<1> DEFINE n == c * q + m
<1>1. c * q \in Nat /\ n \in Nat /\ m \in Nat /\ m < c
  <2>1. m \in Nat /\ m < c
    OBVIOUS
  <2>2. c * q \in Nat
    OBVIOUS
  <2> QED  BY ONLY <2>1, <2>2
<1> DEFINE Q == n \div c
           M == n % c
<1>2. Q \in Nat /\ M \in Nat /\ M < c /\ n = c * Q + M /\ c * Q \in Nat
  <2>1. n \in Nat
    BY <1>1
  <2> HIDE DEF n
  <2>2. Q \in Nat /\ M \in 0..(c - 1) /\ n = c * Q + M
    BY <2>1, Division
  <2> HIDE DEF Q, M
  <2>3. c * Q \in Nat
    BY <2>2
  <2> QED  BY <2>2, <2>3
<1> HIDE DEF Q, M
<1>3. n = c * q + m
  OBVIOUS
<1> HIDE DEF n
<1>4. ~(Q + 1 <= q)
  <2> SUFFICES ASSUME Q + 1 <= q PROVE FALSE
    OBVIOUS
  <2>1. c * (Q + 1) <= c * q
    BY <1>2, TimesMonotone
  <2>2. c * (Q + 1) = c * Q + c
    BY <1>2
  <2> QED  BY <1>1, <1>2, <1>3, <2>1, <2>2
<1>5. ~(q + 1 <= Q)
  <2> SUFFICES ASSUME q + 1 <= Q PROVE FALSE
    OBVIOUS
  <2>1. c * (q + 1) <= c * Q
    BY <1>2, TimesMonotone
  <2>2. c * (q + 1) = c * q + c
    OBVIOUS
  <2> QED  BY <1>1, <1>2, <1>3, <2>1, <2>2
<1>6. q = Q
  BY <1>2, <1>4, <1>5
<1>7. m = M
  BY <1>1, <1>2, <1>3, <1>6
<1> QED  BY <1>6, <1>7 DEF Q, M, n

(***************************************************************************)
(* Geometry.                                                               *)
(***************************************************************************)

\* The controller puts the pixels it gets into the window, and as many as
\* the window has fill it.
LEMMA WindowSpots ==
  ASSUME NEW r, Good(r), colWindow = <<r.window.x0, r.window.x1>>,
         rowWindow = <<r.window.y0, r.window.y1>>
  PROVE  /\ \A j \in Nat : Spot(j) \in InWindow(r.window)
         /\ \A q \in InWindow(r.window) :
              \E j \in 0..(r.window.count - 1) : q = Spot(j)
<1> DEFINE c == Columns
           d == Rows
<1>1. /\ c = r.window.x1 - r.x + 1 /\ c \in Nat \ {0}
      /\ d = r.window.y1 - r.y + 1 /\ d \in Nat \ {0}
      /\ r.x \in Nat /\ r.y \in Nat
      /\ r.x + c <= Width /\ r.y + d <= Height
      /\ r.window.x1 = r.x + c - 1 /\ r.window.y1 = r.y + d - 1
      /\ r.window.count = c * d
  BY PanelAssumption DEF Good, Columns, Rows, UInt16
<1>2. \A j : Spot(j) = << r.x + (j % c), r.y + ((j \div c) % d) >>
  BY DEF Spot, Good
<1>3. InWindow(r.window) =
        { p \in Px : p[1] \in r.x..(r.x + c - 1) /\ p[2] \in r.y..(r.y + d - 1) }
  BY <1>1 DEF InWindow, Good
<1>4. Width \in Nat /\ Height \in Nat
  BY PanelAssumption DEF UInt16
<1> HIDE DEF c, d
<1>5. ASSUME NEW j \in Nat PROVE Spot(j) \in InWindow(r.window)
  <2> DEFINE m == j % c
             k == (j \div c) % d
  <2>1. m \in 0..(c - 1) /\ k \in 0..(d - 1)
    BY <1>1, Division
  <2>2. Spot(j) = << r.x + m, r.y + k >>
    BY <1>2
  <2> HIDE DEF m, k
  <2>3. r.x + m \in 0..(Width - 1) /\ r.y + k \in 0..(Height - 1)
    BY <1>1, <1>4, <2>1
  <2>4. r.x + m \in r.x..(r.x + c - 1) /\ r.y + k \in r.y..(r.y + d - 1)
    BY <1>1, <2>1
  <2> QED  BY <1>3, <2>2, <2>3, <2>4 DEF Px
<1>6. ASSUME NEW q \in InWindow(r.window)
      PROVE  \E j \in 0..(r.window.count - 1) : q = Spot(j)
  <2> DEFINE m == q[1] - r.x
             k == q[2] - r.y
             j == c * k + m
  <2>1. m \in 0..(c - 1) /\ k \in 0..(d - 1) /\ k \in Nat
        /\ q = << r.x + m, r.y + k >>
    BY <1>1, <1>3, <1>4 DEF Px
  <2> HIDE DEF m, k
  <2>2. j \div c = k /\ j % c = m
    BY <1>1, <2>1, DivisionUnique
  <2>3. k % d = k
    <3>1. d * 0 + k = k
      BY <1>1, <2>1
    <3> QED  BY <1>1, <2>1, <3>1, DivisionUnique
  <2>4. q = Spot(j)
    BY <1>2, <2>1, <2>2, <2>3
  <2>5. j \in 0..(r.window.count - 1)
    <3> DEFINE a == c * k
               b == c * d
    <3>1. c * (k + 1) <= b /\ c * (k + 1) = a + c /\ a \in Nat /\ b \in Nat
      BY <1>1, <2>1, TimesMonotone
    <3>2. j = a + m /\ r.window.count = b
      BY <1>1
    <3> HIDE DEF a, b, j
    <3>3. a + c <= b
      BY <3>1
    <3>4. m \in Nat /\ m < c /\ c \in Nat
      BY <1>1, <2>1
    <3>5. a + m \in 0..(b - 1)
      BY <3>1, <3>3, <3>4
    <3> QED  BY <3>2, <3>5
  <2> QED  BY <2>4, <2>5
<1> QED  BY <1>5, <1>6

\* Clipping keeps what is on the panel.
LEMMA ClipEdge ==
  ASSUME NEW x \in UInt16, NEW w \in UInt16, NEW limit \in UInt16,
         w # 0, x < limit, NEW n \in 0..(limit - 1)
  PROVE  n \in x..U16(x + Clip(x, w, limit) - 1) <=> x <= n /\ n < x + w
<1>1. Clip(x, w, limit) = IF x + w > limit THEN limit - x ELSE w
  <2>1. limit - x \in UInt16
    BY DEF UInt16
  <2> QED  BY <2>1, U16Same DEF Clip
<1>2. U16(x + Clip(x, w, limit) - 1) = x + Clip(x, w, limit) - 1
  BY ClipExact
<1> QED  BY <1>1, <1>2 DEF UInt16

\* Where character i begins, as if x could not wrap.
Left(i) == TextX + Advance * (i - 1)

LEMMA LeftType ==
  ASSUME NEW i \in Nat \ {0}
  PROVE  /\ Left(i) \in Nat /\ Advance \in Nat \ {0} /\ Advance = 6 * Scale
         /\ Scale \in Nat \ {0} /\ TextX \in Nat
         /\ U16(Left(i)) = CharX(i)
         /\ Left(i) = TextX + 6 * Scale * (i - 1)
<1>1. Advance \in Nat \ {0} /\ Advance = 6 * Scale /\ Scale \in Nat \ {0}
      /\ TextX \in Nat
  BY TextAssumption DEF Advance, UInt8, UInt16
<1>2. i - 1 \in Nat
  OBVIOUS
<1>3. Advance * (i - 1) \in Nat /\ Advance * (i - 1) = (i - 1) * Advance
  BY <1>1, <1>2
<1>4. Advance * (i - 1) = 6 * Scale * (i - 1)
  BY <1>1
<1>5. Left(i) = TextX + (i - 1) * Advance
  BY <1>3 DEF Left
<1>6. Left(i) \in Nat
  <2>1. \A a, b \in Nat : a + b \in Nat
    OBVIOUS
  <2> QED  BY <1>1, <1>3, <2>1, Zenon DEF Left
<1> QED  BY <1>1, <1>4, <1>5, <1>6, Zenon DEF Left, CharX

\* The largest uint16_t.
Top == 65535

LEMMA TopIs == Top \in Nat /\ \A n : n \in UInt16 <=> n \in Nat /\ n <= Top
BY DEF Top, UInt16

\* A character fits if its last column is on the panel: before x wraps, one
\* that does not fit has ended the line.
LEMMA FitsExact ==
  ASSUME NEW i \in Nat \ {0}
  PROVE  /\ Fits(i) <=> Left(i) + Advance <= Width
         /\ Fits(i) => CharX(i) = Left(i)
<1>0. \A j \in Nat \ {0} : Left(j) \in Nat /\ U16(Left(j)) = CharX(j)
  BY LeftType, Zenon
<1>1. /\ Width \in Nat /\ Width <= Top /\ TextX \in Nat /\ TextX <= Top
      /\ Advance \in Nat \ {0} /\ Top \in Nat
  BY PanelAssumption, LeftType, TextAssumption, TopIs
<1>2. ASSUME NEW j \in Nat \ {0}, Left(j) <= Top
      PROVE  CharX(j) = Left(j)
  <2>1. Left(j) \in UInt16
    BY <1>0, <1>2, TopIs
  <2> QED  BY <1>0, <2>1, U16Same
<1>3. ASSUME NEW j \in Nat \ {0}, NEW k \in Nat \ {0}, j <= k
      PROVE  Left(j) <= Left(k)
  <2>1. Advance * (j - 1) <= Advance * (k - 1) /\ Advance * (j - 1) \in Nat
        /\ Advance * (k - 1) \in Nat
    <3>1. j - 1 \in Nat /\ k - 1 \in Nat /\ j - 1 <= k - 1
      BY <1>3
    <3> QED  BY <1>1, <3>1, TimesMonotone
  <2> QED  BY <1>1, <2>1 DEF Left
<1>4. ASSUME Fits(i) PROVE Left(i) <= Top
  <2> SUFFICES ASSUME Left(i) > Top PROVE FALSE
    BY <1>0, <1>1
  <2> DEFINE room == Top - TextX
  <2>0. room \in Nat /\ TextX + room = Top
    BY <1>1, TopIs
  <2> HIDE DEF room
  <2>1. PICK q \in Nat, m \in 0..(Advance - 1) : room = Advance * q + m
    BY <1>1, <2>0, Quotient, Zenon
  <2> DEFINE a == Advance * q
  <2>2. Left(q + 1) = TextX + a /\ a \in Nat /\ room = a + m
    <3>1. (q + 1) - 1 = q
      OBVIOUS
    <3>2. a \in Nat
      BY <1>1
    <3> QED  BY <2>1, <3>1, <3>2 DEF Left
  <2> HIDE DEF a
  <2>3. Left(q + 1) <= Top /\ Left(q + 1) + Advance > Top
    BY <1>1, <2>0, <2>2
  <2>4. q + 1 \in Nat \ {0}
    BY <2>1
  <2>5. q + 1 \in 1..i
    <3>1. ~(i <= q + 1)
      BY <1>0, <1>1, <1>3, <2>3, <2>4
    <3> QED  BY <2>4, <3>1
  <2>6. CharX(q + 1) + Advance <= Width
    BY <1>4, <2>5 DEF Fits
  <2> QED  BY <1>0, <1>1, <1>2, <2>3, <2>4, <2>6
<1>5. Fits(i) => CharX(i) = Left(i)
  BY <1>2, <1>4
<1>6. Fits(i) => Left(i) + Advance <= Width
  BY <1>5 DEF Fits
<1>7. ASSUME Left(i) + Advance <= Width PROVE Fits(i)
  <2> SUFFICES ASSUME NEW j \in 1..i PROVE CharX(j) + Advance <= Width
    BY DEF Fits
  <2>1. j \in Nat \ {0} /\ j <= i
    OBVIOUS
  <2>2. Left(j) <= Left(i) /\ Left(j) \in Nat /\ Left(i) \in Nat
    BY <1>0, <1>3, <2>1
  <2> QED  BY <1>1, <1>2, <1>7, <2>1, <2>2
<1> QED  BY <1>5, <1>6, <1>7

\* Where the square of a bit is drawn: neither coordinate wraps.
Edge(a, c)       == a + Scale * c
SquareX(i, c)    == Edge(Left(i), c)
SquareY(line, r) == Edge(LineY(line), r)

LEMMA SquareAt ==
  ASSUME NEW line \in {1, 2}, NEW i \in Nat \ {0}, NEW c \in 0..4, NEW r \in 0..6,
         Fits(i)
  PROVE  /\ SquareX(i, c) \in UInt16 /\ SquareX(i, c) < Width
         /\ SquareY(line, r) \in UInt16
         /\ lcd_draw_char(<<line, i, c, r>>) =
              lcd_rect(SquareX(i, c), SquareY(line, r), Scale, Scale, "white")
<1>1. /\ Scale \in Nat \ {0} /\ Advance = 6 * Scale
      /\ Left(i) \in Nat /\ Left(i) + Advance <= Width /\ CharX(i) = Left(i)
      /\ Width \in Nat /\ Width <= Top /\ Top \in Nat
  BY LeftType, FitsExact, PanelAssumption, TopIs
<1>2. /\ LineY(line) \in Nat /\ LineY(line) + 6 * Scale <= Top
  BY TextAssumption, TopIs DEF LineY
<1>3. /\ Scale * c \in Nat /\ Scale * c <= 4 * Scale
      /\ Scale * r \in Nat /\ Scale * r <= 6 * Scale
  <2>1. /\ Scale * c \in Nat /\ Scale * c <= Scale * 4
        /\ Scale * r \in Nat /\ Scale * r <= Scale * 6
    BY <1>1, TimesMonotone
  <2> QED  BY <1>1, <2>1
<1> DEFINE a == Scale * c
           b == Scale * r
<1>4. a \in Nat /\ b \in Nat /\ a <= 4 * Scale /\ b <= 6 * Scale
  BY <1>3
<1>5. c * Scale = a /\ r * Scale = b
  BY <1>1
<1>6. SquareX(i, c) = Left(i) + a /\ SquareY(line, r) = LineY(line) + b
  BY DEF SquareX, SquareY, Edge
<1> HIDE DEF a, b
<1>7. SquareX(i, c) \in Nat /\ SquareX(i, c) < Width /\ SquareY(line, r) \in Nat
      /\ SquareY(line, r) <= Top
  BY <1>1, <1>2, <1>4, <1>6
<1>8. SquareX(i, c) \in UInt16 /\ SquareY(line, r) \in UInt16
  BY <1>1, <1>7, TopIs
<1>9. /\ U16(CharX(i) + c * Scale) = SquareX(i, c)
      /\ U16(LineY(line) + r * Scale) = SquareY(line, r)
  BY <1>1, <1>5, <1>6, <1>8, U16Same
<1> QED  BY <1>7, <1>8, <1>9 DEF lcd_draw_char

LEMMA SquareParts ==
  ASSUME NEW s \in States, NEW line \in {1, 2}, NEW p
  PROVE  p \in Squares(s, line) <=>
           \E i \in 1..Len(Text(s, line)), c \in 0..4, r \in 0..6 :
              /\ p = <<line, i, c, r>> /\ Fits(i)
              /\ BitSet(glyph_for(Text(s, line)[i])[c + 1], r)
              /\ SquareY(line, r) < Height
<1>1. ASSUME NEW i \in 1..Len(Text(s, line)), NEW c \in 0..4, NEW r \in 0..6,
             Fits(i)
      PROVE  Inside(lcd_draw_char(<<line, i, c, r>>).x,
                    lcd_draw_char(<<line, i, c, r>>).y, Scale, Scale)
             <=> SquareY(line, r) < Height
  <2>1. i \in Nat \ {0} /\ Scale # 0
    BY TextAssumption
  <2>2. /\ lcd_draw_char(<<line, i, c, r>>).x = SquareX(i, c)
        /\ lcd_draw_char(<<line, i, c, r>>).y = SquareY(line, r)
        /\ SquareX(i, c) < Width
    <3>1. \A x, y, w, h, colour : /\ lcd_rect(x, y, w, h, colour).x = x
                                  /\ lcd_rect(x, y, w, h, colour).y = y
      BY DEF lcd_rect
    <3>2. /\ SquareX(i, c) < Width
          /\ lcd_draw_char(<<line, i, c, r>>) =
              lcd_rect(SquareX(i, c), SquareY(line, r), Scale, Scale, "white")
      BY <1>1, <2>1, SquareAt
    <3> QED  BY <3>1, <3>2
  <2> QED  BY <2>1, <2>2 DEF Inside
<1>2. ASSUME p \in Squares(s, line)
      PROVE  \E i \in 1..Len(Text(s, line)), c \in 0..4, r \in 0..6 :
              /\ p = <<line, i, c, r>> /\ Fits(i)
              /\ BitSet(glyph_for(Text(s, line)[i])[c + 1], r)
              /\ SquareY(line, r) < Height
  <2>1. PICK i \in 1..Len(Text(s, line)), c \in 0..4, r \in 0..6 :
               p = <<line, i, c, r>>
    BY <1>2 DEF Squares
  <2>2. /\ Fits(i) /\ BitSet(glyph_for(Text(s, line)[i])[c + 1], r)
        /\ Inside(lcd_draw_char(p).x, lcd_draw_char(p).y, Scale, Scale)
    BY <1>2, <2>1 DEF Squares
  <2>3. SquareY(line, r) < Height
    BY <1>1, <2>1, <2>2
  <2> QED  BY <2>1, <2>2, <2>3
<1>3. ASSUME NEW i \in 1..Len(Text(s, line)), NEW c \in 0..4, NEW r \in 0..6,
             p = <<line, i, c, r>>, Fits(i),
             BitSet(glyph_for(Text(s, line)[i])[c + 1], r),
             SquareY(line, r) < Height
      PROVE  p \in Squares(s, line)
  <2>1. Inside(lcd_draw_char(p).x, lcd_draw_char(p).y, Scale, Scale)
    BY <1>1, <1>3
  <2>2. p \in {line} \X (1..Len(Text(s, line))) \X (0..4) \X (0..6)
    BY <1>3
  <2>3. /\ Fits(p[2])
        /\ BitSet(glyph_for(Text(s, line)[p[2]])[p[3] + 1], p[4])
    BY <1>3
  <2> QED  BY <2>1, <2>2, <2>3 DEF Squares
<1> QED  BY <1>2, <1>3

\* The window of a square has the pixels of the square that are on the panel.
LEMMA SquareWindow ==
  ASSUME NEW line \in {1, 2}, NEW i \in Nat \ {0}, NEW c \in 0..4, NEW r \in 0..6,
         Fits(i), SquareY(line, r) < Height, NEW q \in Px
  PROVE  q \in InWindow(lcd_draw_char(<<line, i, c, r>>).window) <=>
           /\ SquareX(i, c) <= q[1] /\ q[1] < SquareX(i, c) + Scale
           /\ SquareY(line, r) <= q[2] /\ q[2] < SquareY(line, r) + Scale
<1> DEFINE x == SquareX(i, c)
           y == SquareY(line, r)
<1>1. /\ x \in UInt16 /\ x < Width /\ y \in UInt16 /\ y < Height
      /\ lcd_draw_char(<<line, i, c, r>>) = lcd_rect(x, y, Scale, Scale, "white")
  BY SquareAt
<1>2. /\ Scale \in UInt16 /\ Scale # 0
      /\ Width \in UInt16 /\ Height \in UInt16
  BY TextAssumption, PanelAssumption DEF UInt8, UInt16
<1>3. q[1] \in 0..(Width - 1) /\ q[2] \in 0..(Height - 1)
  BY DEF Px
<1> HIDE DEF x, y
<1>4. /\ lcd_rect(x, y, Scale, Scale, "white").window.x0 = x
      /\ lcd_rect(x, y, Scale, Scale, "white").window.y0 = y
      /\ lcd_rect(x, y, Scale, Scale, "white").window.x1
           = U16(x + Clip(x, Scale, Width) - 1)
      /\ lcd_rect(x, y, Scale, Scale, "white").window.y1
           = U16(y + Clip(y, Scale, Height) - 1)
  BY DEF lcd_rect, Window
<1>5. /\ q[1] \in x..U16(x + Clip(x, Scale, Width) - 1)
           <=> x <= q[1] /\ q[1] < x + Scale
      /\ q[2] \in y..U16(y + Clip(y, Scale, Height) - 1)
           <=> y <= q[2] /\ q[2] < y + Scale
  BY <1>1, <1>2, <1>3, ClipEdge
<1>6. q \in InWindow(lcd_draw_char(<<line, i, c, r>>).window) <=>
        /\ x <= q[1] /\ q[1] < x + Scale
        /\ y <= q[2] /\ q[2] < y + Scale
  BY <1>1, <1>4, <1>5, Zenon DEF InWindow
<1> QED  BY <1>6 DEF x, y

\* Dividing by the scale finds the one square a pixel is in.
Cell(n, a) == (n - a) \div Scale

LEMMA CellOf ==
  ASSUME NEW a \in Nat, NEW m \in Nat, NEW n \in Nat, NEW k \in Nat, m = k + 1
  PROVE  /\ a <= n /\ n < Edge(a, m) =>
              /\ Cell(n, a) \in 0..k
              /\ Edge(a, Cell(n, a)) <= n /\ n < Edge(a, Cell(n, a)) + Scale
         /\ \A c \in 0..k :
              Edge(a, c) <= n /\ n < Edge(a, c) + Scale =>
                a <= n /\ n < Edge(a, m) /\ Cell(n, a) = c
<1>1. Scale \in Nat \ {0}
  BY TextAssumption DEF UInt8
<1>2. ASSUME a <= n, n < a + m * Scale
      PROVE  /\ (n - a) \div Scale \in 0..(m - 1)
             /\ a + Scale * ((n - a) \div Scale) <= n
             /\ n < a + Scale * ((n - a) \div Scale) + Scale
  <2> DEFINE d == n - a
             cell == d \div Scale
             l == d % Scale
  <2>1. d \in Nat /\ n = a + d /\ d < m * Scale
    <3>1. m * Scale \in Nat
      BY <1>1
    <3> DEFINE ms == m * Scale
    <3>2. ms \in Nat /\ n < a + ms
      BY <1>2, <3>1
    <3> HIDE DEF ms
    <3>3. n - a \in Nat /\ n = a + (n - a) /\ n - a < ms
      BY <1>2, <3>2
    <3> QED  BY <3>3 DEF ms
  <2> HIDE DEF d
  <2>2. cell \in Nat /\ l \in 0..(Scale - 1) /\ d = Scale * cell + l
    BY <1>1, <2>1, Division
  <2> HIDE DEF cell, l
  <2> DEFINE sk == Scale * cell
  <2>3. sk \in Nat /\ d = sk + l
    BY <1>1, <2>2
  <2>4. m <= cell => m * Scale <= sk
    <3>1. m <= cell => Scale * m <= Scale * cell
      BY <1>1, <2>2, TimesMonotone
    <3> QED  BY <1>1, <3>1
  <2> HIDE DEF sk
  <2>5. cell \in 0..(m - 1)
    <3>1. m * Scale \in Nat
      BY <1>1
    <3> DEFINE ms == m * Scale
    <3>2. ms \in Nat /\ d < ms /\ (m <= cell => ms <= sk)
      BY <2>1, <2>4, <3>1
    <3> HIDE DEF ms
    <3> QED  BY <2>2, <2>3, <3>2
  <2>6. a + sk <= n /\ n < a + sk + Scale
    BY <1>1, <2>1, <2>2, <2>3
  <2> QED  BY <2>5, <2>6 DEF sk, cell, d
<1>3. ASSUME NEW c \in 0..(m - 1), a + Scale * c <= n, n < a + Scale * c + Scale
      PROVE  a <= n /\ n < a + m * Scale /\ (n - a) \div Scale = c
  <2> DEFINE sc == Scale * c
             l  == n - (a + sc)
  <2>1. sc \in Nat
    BY <1>1
  <2>2. sc + Scale <= m * Scale /\ m * Scale \in Nat
    <3>1. Scale * (c + 1) <= Scale * m
      BY <1>1, TimesMonotone
    <3> QED  BY <1>1, <3>1
  <2>3. a + sc <= n /\ n < a + sc + Scale
    BY <1>3
  <2> HIDE DEF sc
  <2>4. l \in 0..(Scale - 1) /\ n - a = sc + l /\ a <= n
    BY <1>1, <2>1, <2>3
  <2>5. n < a + m * Scale
    <3> DEFINE ms == m * Scale
    <3>1. ms \in Nat /\ sc + Scale <= ms
      BY <2>2
    <3> HIDE DEF ms
    <3>2. n < a + ms
      BY <1>1, <2>1, <2>3, <3>1
    <3> QED  BY <3>2 DEF ms
  <2> HIDE DEF l
  <2>6. (Scale * c + l) \div Scale = c
    BY <1>1, <2>4, DivisionUnique
  <2> QED  BY <2>4, <2>5, <2>6 DEF sc
<1>4. Edge(a, m) = a + m * Scale
  BY <1>1 DEF Edge
<1>5. 0..(m - 1) = 0..k
  OBVIOUS
<1> QED  BY <1>2, <1>3, <1>4, <1>5, Zenon DEF Edge, Cell

\* The picture of a line is made of the windows of its squares.
LEMMA LineInk ==
  ASSUME NEW s \in States, NEW line \in {1, 2}, NEW q \in Px
  PROVE  q \in InkOf(Text(s, line), LineY(line)) <=>
           \E p \in Squares(s, line) : q \in InWindow(Rectangle(s, p).window)
<1> DEFINE text == Text(s, line)
           y    == LineY(line)
           Bit(i, c, r) == BitSet(glyph_for(text[i])[c + 1], r)
<1>1. /\ y \in Nat /\ q[1] \in Nat /\ q[2] \in Nat /\ q[2] < Height
      /\ Scale \in Nat \ {0} /\ Height \in Nat
  BY PanelAssumption, TextAssumption DEF LineY, Px, UInt8, UInt16
<1>2. \A i \in 1..Len(text), c \in 0..4, r \in 0..6 :
        Rectangle(s, <<line, i, c, r>>) = lcd_draw_char(<<line, i, c, r>>)
  BY DEF Rectangle, fill
<1>3. \A i \in 1..Len(text) :
        /\ i \in Nat \ {0} /\ Left(i) \in Nat
        /\ Left(i) = TextX + 6 * Scale * (i - 1)
        /\ Fits(i) <=> Left(i) + 6 * Scale <= Width
  <2> SUFFICES ASSUME NEW i \in 1..Len(text)
               PROVE  /\ i \in Nat \ {0} /\ Left(i) \in Nat
                      /\ Left(i) = TextX + 6 * Scale * (i - 1)
                      /\ Fits(i) <=> Left(i) + 6 * Scale <= Width
    OBVIOUS
  <2>1. i \in Nat \ {0}
    OBVIOUS
  <2> QED  BY <2>1, LeftType, FitsExact
<1>4. q \in InkOf(text, y) <=>
        \E i \in 1..Len(text) :
          /\ Fits(i)
          /\ Left(i) <= q[1] /\ q[1] < Left(i) + 5 * Scale
          /\ y <= q[2] /\ q[2] < y + 7 * Scale
          /\ BitSet(glyph_for(text[i])[(q[1] - Left(i)) \div Scale + 1],
                    (q[2] - y) \div Scale)
  <2> DEFINE In(i, left) ==
               /\ left + 6 * Scale <= Width
               /\ q[1] >= left /\ q[1] < left + 5 * Scale
               /\ q[2] >= y /\ q[2] < y + 7 * Scale
               /\ BitSet(glyph_for(text[i])[(q[1] - left) \div Scale + 1],
                         (q[2] - y) \div Scale)
  <2>1. q \in InkOf(text, y) <=>
          \E i \in 1..Len(text) : In(i, TextX + 6 * Scale * (i - 1))
    BY DEF InkOf
  <2>2. \A i \in 1..Len(text) :
          In(i, TextX + 6 * Scale * (i - 1)) <=> In(i, Left(i))
    <3> HIDE DEF In
    <3> QED  BY <1>3
  <2>3. \A i \in 1..Len(text) :
          In(i, Left(i)) <=>
            /\ Fits(i)
            /\ Left(i) <= q[1] /\ q[1] < Left(i) + 5 * Scale
            /\ y <= q[2] /\ q[2] < y + 7 * Scale
            /\ BitSet(glyph_for(text[i])[(q[1] - Left(i)) \div Scale + 1],
                      (q[2] - y) \div Scale)
    BY <1>1, <1>3
  <2> HIDE DEF In
  <2> QED  BY <2>1, <2>2, <2>3
<1>5. \A a : Edge(a, 5) = a + 5 * Scale /\ Edge(a, 7) = a + 7 * Scale
  BY <1>1 DEF Edge
<1>6. ASSUME NEW a \in Nat, NEW n \in Nat
      PROVE  /\ a <= n /\ n < Edge(a, 5) =>
                  /\ Cell(n, a) \in 0..4
                  /\ Edge(a, Cell(n, a)) <= n /\ n < Edge(a, Cell(n, a)) + Scale
             /\ \A c \in 0..4 :
                  Edge(a, c) <= n /\ n < Edge(a, c) + Scale =>
                    a <= n /\ n < Edge(a, 5) /\ Cell(n, a) = c
  <2> DEFINE last == 4
             m    == 5
  <2>1. last \in Nat /\ m \in Nat /\ m = last + 1
    OBVIOUS
  <2> HIDE DEF last, m
  <2>2. /\ a <= n /\ n < Edge(a, m) =>
             /\ Cell(n, a) \in 0..last
             /\ Edge(a, Cell(n, a)) <= n /\ n < Edge(a, Cell(n, a)) + Scale
        /\ \A c \in 0..last :
             Edge(a, c) <= n /\ n < Edge(a, c) + Scale =>
               a <= n /\ n < Edge(a, m) /\ Cell(n, a) = c
    BY <2>1, CellOf
  <2> QED  BY <2>2 DEF last, m
<1>7. ASSUME NEW a \in Nat, NEW n \in Nat
      PROVE  /\ a <= n /\ n < Edge(a, 7) =>
                  /\ Cell(n, a) \in 0..6
                  /\ Edge(a, Cell(n, a)) <= n /\ n < Edge(a, Cell(n, a)) + Scale
             /\ \A c \in 0..6 :
                  Edge(a, c) <= n /\ n < Edge(a, c) + Scale =>
                    a <= n /\ n < Edge(a, 7) /\ Cell(n, a) = c
  <2> DEFINE last == 6
             m    == 7
  <2>1. last \in Nat /\ m \in Nat /\ m = last + 1
    OBVIOUS
  <2> HIDE DEF last, m
  <2>2. /\ a <= n /\ n < Edge(a, m) =>
             /\ Cell(n, a) \in 0..last
             /\ Edge(a, Cell(n, a)) <= n /\ n < Edge(a, Cell(n, a)) + Scale
        /\ \A c \in 0..last :
             Edge(a, c) <= n /\ n < Edge(a, c) + Scale =>
               a <= n /\ n < Edge(a, m) /\ Cell(n, a) = c
    BY <2>1, CellOf
  <2> QED  BY <2>2 DEF last, m
<1>8. ASSUME NEW i \in 1..Len(text), Fits(i),
             Left(i) <= q[1], q[1] < Left(i) + 5 * Scale,
             y <= q[2], q[2] < y + 7 * Scale,
             BitSet(glyph_for(text[i])[(q[1] - Left(i)) \div Scale + 1],
                    (q[2] - y) \div Scale)
      PROVE  \E p \in Squares(s, line) : q \in InWindow(Rectangle(s, p).window)
  <2> DEFINE c == Cell(q[1], Left(i))
             r == Cell(q[2], y)
             p == <<line, i, c, r>>
  <2>0. q[1] < Edge(Left(i), 5) /\ q[2] < Edge(y, 7)
    BY <1>1, <1>8, <1>5
  <2>1. /\ c \in 0..4
        /\ Edge(Left(i), c) <= q[1] /\ q[1] < Edge(Left(i), c) + Scale
    BY <1>1, <1>3, <1>8, <1>6, <2>0
  <2>2. /\ r \in 0..6
        /\ Edge(y, r) <= q[2] /\ q[2] < Edge(y, r) + Scale
    BY <1>1, <1>8, <1>7, <2>0
  <2>3. Bit(i, c, r)
    BY <1>8 DEF Cell
  <2> HIDE DEF c, r
  <2>4. SquareY(line, r) < Height
    <3>1. SquareY(line, r) <= q[2]
      BY <2>2 DEF SquareY
    <3>2. i \in Nat \ {0}
      BY <1>3
    <3>3. SquareY(line, r) \in UInt16
      BY <1>8, <2>1, <2>2, <3>2, SquareAt
    <3>4. SquareY(line, r) \in Nat
      BY <3>3 DEF UInt16
    <3> QED  BY <1>1, <3>1, <3>4
  <2>5. p \in Squares(s, line)
    BY <1>8, <2>1, <2>2, <2>3, <2>4, SquareParts
  <2>6. q \in InWindow(lcd_draw_char(p).window)
    BY <1>3, <1>8, <2>1, <2>2, <2>4, SquareWindow DEF SquareX, SquareY
  <2> QED  BY <1>2, <2>1, <2>2, <2>5, <2>6
<1>9. ASSUME NEW p \in Squares(s, line), q \in InWindow(Rectangle(s, p).window)
      PROVE  \E i \in 1..Len(text) :
               /\ Fits(i)
               /\ Left(i) <= q[1] /\ q[1] < Left(i) + 5 * Scale
               /\ y <= q[2] /\ q[2] < y + 7 * Scale
               /\ BitSet(glyph_for(text[i])[(q[1] - Left(i)) \div Scale + 1],
                         (q[2] - y) \div Scale)
  <2>1. PICK i \in 1..Len(text), c \in 0..4, r \in 0..6 :
               /\ p = <<line, i, c, r>> /\ Fits(i) /\ Bit(i, c, r)
               /\ SquareY(line, r) < Height
    BY SquareParts
  <2>2. /\ Edge(Left(i), c) <= q[1] /\ q[1] < Edge(Left(i), c) + Scale
        /\ Edge(y, r) <= q[2] /\ q[2] < Edge(y, r) + Scale
    BY <1>2, <1>3, <1>9, <2>1, SquareWindow DEF SquareX, SquareY
  <2>3. /\ Left(i) <= q[1] /\ q[1] < Edge(Left(i), 5)
        /\ Cell(q[1], Left(i)) = c
    BY <1>1, <1>3, <1>6, <2>2
  <2>4. y <= q[2] /\ q[2] < Edge(y, 7) /\ Cell(q[2], y) = r
    BY <1>1, <1>7, <2>2
  <2>5. q[1] < Left(i) + 5 * Scale /\ q[2] < y + 7 * Scale
    BY <1>1, <1>5, <2>3, <2>4
  <2>6. BitSet(glyph_for(text[i])[Cell(q[1], Left(i)) + 1], Cell(q[2], y))
    BY <2>1, <2>3, <2>4
  <2> QED  BY <2>1, <2>3, <2>4, <2>5, <2>6 DEF Cell
<1> QED  BY <1>4, <1>8, <1>9

LEMMA InkIsSquares ==
  ASSUME NEW s \in States, NEW q \in Px
  PROVE  q \in Ink[s] <=>
           \E p \in Jobs[s] \ {fill} : q \in InWindow(Rectangle(s, p).window)
<1>1. /\ Text(s, 1) = s.line1 /\ LineY(1) = Line1Y
      /\ Text(s, 2) = s.line2 /\ LineY(2) = Line2Y
  BY DEF Text, LineY
<1>2. Ink[s] = InkOf(Text(s, 1), LineY(1)) \cup InkOf(Text(s, 2), LineY(2))
  BY <1>1 DEF Ink
<1>3. Jobs[s] \ {fill} = Squares(s, 1) \cup Squares(s, 2)
  <2>1. \A p \in Squares(s, 1) \cup Squares(s, 2) : p # fill
    BY DEF Squares, fill
  <2> QED  BY <2>1 DEF Jobs
<1> QED  BY <1>2, <1>3, LineInk

(***************************************************************************)
(* The order of the rectangles: the fill comes first, and of two others    *)
(* one comes first.                                                        *)
(***************************************************************************)
LEMMA JobForm ==
  ASSUME NEW s \in States, NEW p \in Jobs[s]
  PROVE  /\ p = <<p[1], p[2], p[3], p[4]>>
         /\ p[1] \in Nat /\ p[2] \in Nat /\ p[3] \in Nat /\ p[4] \in Nat
<1>1. CASE p = fill
  BY <1>1 DEF fill
<1>2. CASE p # fill
  <2>1. PICK line \in {1, 2} : p \in Squares(s, line)
    BY <1>2 DEF Jobs
  <2> QED  BY <2>1 DEF Squares
<1> QED  BY <1>1, <1>2

LEMMA BeforeIs ==
  ASSUME NEW p, NEW q
  PROVE  Before(p, q) <=>
           \/ p[1] < q[1]
           \/ p[1] = q[1] /\ p[2] < q[2]
           \/ p[1] = q[1] /\ p[2] = q[2] /\ p[3] < q[3]
           \/ p[1] = q[1] /\ p[2] = q[2] /\ p[3] = q[3] /\ p[4] < q[4]
<1>1. 1..4 = {1, 2, 3, 4} /\ 1..(1 - 1) = {} /\ 1..(2 - 1) = {1}
      /\ 1..(3 - 1) = {1, 2} /\ 1..(4 - 1) = {1, 2, 3}
  OBVIOUS
<1> QED  BY <1>1 DEF Before

LEMMA JobOrder ==
  ASSUME NEW s \in States, NEW p \in Jobs[s], NEW q \in Jobs[s]
  PROVE  /\ ~Before(p, p) /\ ~Before(p, fill)
         /\ p = q \/ Before(p, q) \/ Before(q, p)
<1>1. /\ p[1] \in Nat /\ p[2] \in Nat /\ p[3] \in Nat /\ p[4] \in Nat
      /\ q[1] \in Nat /\ q[2] \in Nat /\ q[3] \in Nat /\ q[4] \in Nat
  BY JobForm
<1>2. p[1] = q[1] /\ p[2] = q[2] /\ p[3] = q[3] /\ p[4] = q[4] => p = q
  BY JobForm
<1>3. ~Before(p, p)
  BY <1>1, BeforeIs
<1>4. ~Before(p, fill)
  BY <1>1, BeforeIs DEF fill
<1>5. p = q \/ Before(p, q) \/ Before(q, p)
  BY <1>1, <1>2, BeforeIs
<1> QED  BY <1>3, <1>4, <1>5

(***************************************************************************)
(* The steps.                                                              *)
(***************************************************************************)

\* The fill covers the panel in the colour of the state; everything else is
\* white and within its picture.
LEMMA CurrentIs ==
  ASSUME LcdTypeOK
  PROVE  /\ job = fill => /\ Current.colour = status_color(state.status)
                          /\ InWindow(Current.window) = Px
         /\ job # fill => /\ Current.colour = "white"
                          /\ InWindow(Current.window) \subseteq Ink[state]
<1>0. state \in States /\ job \in Jobs[state]
  BY DEF LcdTypeOK
<1>1. ASSUME job = fill
      PROVE  /\ Current.colour = status_color(state.status)
             /\ InWindow(Current.window) = Px
  <2>1. U16(Width - 1) = Width - 1 /\ U16(Height - 1) = Height - 1
    <3>1. Width - 1 \in UInt16 /\ Height - 1 \in UInt16
      BY PanelAssumption DEF UInt16
    <3> QED  BY <3>1, U16Same
  <2>2. Current = lcd_fill(status_color(state.status))
    BY <1>1 DEF Current, Rectangle
  <2>3. /\ Current.colour = status_color(state.status)
        /\ Current.window.x0 = 0 /\ Current.window.x1 = Width - 1
        /\ Current.window.y0 = 0 /\ Current.window.y1 = Height - 1
    BY <2>1, <2>2 DEF lcd_fill
  <2> QED  BY <2>3 DEF InWindow, Px
<1>2. ASSUME job # fill
      PROVE  /\ Current.colour = "white"
             /\ InWindow(Current.window) \subseteq Ink[state]
  <2>1. Current.colour = "white"
    BY <1>2 DEF Current, Rectangle, lcd_draw_char, lcd_rect
  <2>2. ASSUME NEW q \in InWindow(Current.window) PROVE q \in Ink[state]
    <3>1. q \in Px
      BY DEF InWindow
    <3> QED  BY <1>0, <1>2, <2>2, <3>1, InkIsSquares DEF Current
  <2> QED  BY <2>1, <2>2
<1> QED  BY <1>1, <1>2

\* Pixels that arrive go into the window, in the colour of the rectangle.
LEMMA PixelsArrive ==
  ASSUME LcdInv, Painted, pc = "pixels",
         NEW k \in 0..Pixels, TakePixels(k, Current.colour)
  PROVE  /\ \A q \in Px : \/ pix'[q] = pix[q]
                          \/ /\ q \in InWindow(Current.window)
                             /\ pix'[q] = Current.colour
         /\ \A j \in 0..(written + k - 1) : pix'[Spot(j)] = Current.colour
         /\ written' = written + k /\ UNCHANGED <<colWindow, rowWindow>>
<1>1. /\ command = "RAMWR" /\ Good(Current) /\ written \in Nat /\ k \in Nat
      /\ colWindow = <<Current.window.x0, Current.window.x1>>
      /\ rowWindow = <<Current.window.y0, Current.window.y1>>
  <2>1. Good(Current) /\ remaining \in Nat
    BY CurrentGood DEF LcdInv, LcdTypeOK
  <2> QED  BY <2>1 DEF LcdInv, LcdTypeOK, Aligned, Pixels, Good
<1> DEFINE spots == { Spot(j) : j \in written..(written + k - 1) }
<1>2. /\ pix' = [q \in Px |-> IF q \in spots THEN Current.colour ELSE pix[q]]
      /\ written' = written + k /\ UNCHANGED <<colWindow, rowWindow>>
  BY <1>1 DEF TakePixels
<1>3. \A j \in Nat : Spot(j) \in InWindow(Current.window) /\ Spot(j) \in Px
  BY <1>1, WindowSpots DEF InWindow
<1>4. \A q \in spots : q \in InWindow(Current.window)
  <2>1. \A j \in written..(written + k - 1) : j \in Nat
    BY <1>1
  <2> QED  BY <1>3, <2>1
<1>5. ASSUME NEW j \in 0..(written + k - 1)
      PROVE  pix'[Spot(j)] = Current.colour
  <2>1. j \in Nat /\ Spot(j) \in Px
    BY <1>1, <1>3
  <2>2. CASE j \in 0..(written - 1)
    <3>1. pix[Spot(j)] = Current.colour
      BY <2>2 DEF Painted
    <3> QED  BY <1>2, <2>1, <3>1
  <2>3. CASE j \in written..(written + k - 1)
    <3>1. Spot(j) \in spots
      BY <2>3
    <3> QED  BY <1>2, <2>1, <3>1
  <2> QED  BY <1>1, <2>2, <2>3
<1>6. \A q \in Px : pix'[q] = IF q \in spots THEN Current.colour ELSE pix[q]
  BY <1>2
<1> HIDE DEF spots
<1> QED  BY <1>2, <1>4, <1>5, <1>6

\* The last of them complete it.
LEMMA PixelsComplete ==
  ASSUME LcdInv, Painted, pc = "pixels", ~MorePixels,
         TakePixels(Pixels, Current.colour)
  PROVE  \A q \in InWindow(Current.window) : pix'[q] = Current.colour
<1>1. /\ Good(Current) /\ written \in Nat /\ remaining \in Nat
      /\ colWindow = <<Current.window.x0, Current.window.x1>>
      /\ rowWindow = <<Current.window.y0, Current.window.y1>>
      /\ written + remaining = Current.window.count
  BY CurrentGood DEF LcdInv, LcdTypeOK, Aligned
<1>2. Pixels = remaining /\ Pixels \in 0..Pixels
  BY <1>1 DEF Pixels, MorePixels, Good
<1>3. \A j \in 0..(Current.window.count - 1) : pix'[Spot(j)] = Current.colour
  <2>1. \A j \in 0..(written + Pixels - 1) : pix'[Spot(j)] = Current.colour
    BY <1>2, PixelsArrive, Zenon
  <2>2. written + Pixels = Current.window.count
    BY <1>1, <1>2
  <2> QED  BY <1>1, <1>2, <2>1, <2>2
<1>4. \A q \in InWindow(Current.window) :
        \E j \in 0..(Current.window.count - 1) : q = Spot(j)
  BY <1>1, WindowSpots, Zenon
<1> QED  BY <1>3, <1>4

\* Leaving a rectangle, the task goes on to the next one or is done.
LEMMA LeaveOrder ==
  ASSUME LcdTypeOK, Leave
  PROVE  \/ /\ pc' = "caset" /\ job' \in Jobs[state] /\ job' # fill
            /\ \A p \in Jobs[state] :
                 Before(p, job') => p = job \/ Before(p, job)
         \/ /\ pc' = "receive"
            /\ \A p \in Jobs[state] : p = job \/ Before(p, job)
<1>0. state \in States /\ job \in Jobs[state]
  BY DEF LcdTypeOK
<1>1. CASE \E p \in Jobs[state] :
             /\ Before(job, p)
             /\ \A q \in Jobs[state] : ~(Before(job, q) /\ Before(q, p))
             /\ job' = p /\ pc' = "caset"
  BY <1>0, <1>1, JobOrder
<1>2. CASE /\ \A p \in Jobs[state] : ~Before(job, p)
           /\ pc' = "receive" /\ UNCHANGED job
  BY <1>0, <1>2, JobOrder
<1> QED  BY <1>1, <1>2 DEF Leave

\* A transaction of lcd_set_window paints nothing.
LEMMA SendKeepsPicture ==
  ASSUME PictureInv, SendCaset \/ SendColumns \/ SendRaset \/ SendRows \/ SendRamwr
  PROVE  PictureInv'
<1>0. LcdInv /\ LcdTypeOK /\ Painted /\ Progress /\ OnlyOwnInk
  BY DEF PictureInv, LcdInv
<1>1. LcdInv'
  BY <1>0, CasetKeeps, ColumnsKeeps, RasetKeeps, RowsKeeps, RamwrKeeps
<1>2. /\ UNCHANGED <<pix, state, filled>> /\ pc # "receive"
      /\ \/ UNCHANGED <<job, clean>> /\ pc' # "receive"
         \/ Leave /\ clean' = FALSE
      /\ pc' = "pixels" => written' = 0
  <2>1. pix' = pix
    BY Effects DEF TakeCommand, TakeWindow, controller
  <2>2. pc' = "pixels" => written' = 0
    BY Effects, SendTask DEF TakeCommand, SendCaset, SendColumns, SendRaset,
       SendRows, SendRamwr, Send, Go, Leave
  <2>3. ASSUME NEW at \in Places \ {"receive"}, NEW next \in Places \ {"receive"},
               NEW ok \in BOOLEAN,
               pc = at, IF ok THEN Go(next) ELSE Leave, clean' = (clean /\ ok)
        PROVE  /\ pc # "receive"
               /\ \/ UNCHANGED <<job, clean>> /\ pc' # "receive"
                  \/ Leave /\ clean' = FALSE
    <3>1. CASE ok
      BY <2>3, <3>1, <1>0 DEF Go, LcdTypeOK
    <3>2. CASE ~ok
      BY <2>3, <3>2
    <3> QED  BY <3>1, <3>2
  <2>4. /\ UNCHANGED <<state, filled>>
        /\ \E at, next \in Places \ {"receive"}, ok \in BOOLEAN :
             pc = at /\ (IF ok THEN Go(next) ELSE Leave) /\ clean' = (clean /\ ok)
    BY DEF SendCaset, SendColumns, SendRaset, SendRows, SendRamwr, Send, Places
  <2> QED  BY <2>1, <2>2, <2>3, <2>4
<1>3. Painted'
  BY <1>2 DEF Painted
<1>4. OnlyOwnInk'
  BY <1>0, <1>2 DEF OnlyOwnInk
<1>5. Progress'
  <2>1. CASE UNCHANGED <<job, clean>> /\ pc' # "receive"
    <3>1. \A p : Drawn(p)' <=> Drawn(p)
      BY <1>2 DEF Drawn
    <3> QED  BY <1>0, <1>2, <2>1, <3>1 DEF Progress
  <2>2. CASE Leave /\ clean' = FALSE
    BY <1>0, <1>2, <2>2, LeaveOrder DEF Progress
  <2> QED  BY <1>2, <2>1, <2>2
<1> QED  BY <1>1, <1>3, <1>4, <1>5 DEF PictureInv

\* Pixels that arrive for a square add only ink of the state, and take none
\* away.
LEMMA SquareAddsInk ==
  ASSUME LcdInv, Painted, Progress, pc = "pixels", UNCHANGED state,
         NEW k \in 0..Pixels, TakePixels(k, Current.colour)
  PROVE  /\ filled /\ OnlyOwnInk =>
              \A q \in Px : \/ pix'[q] = status_color(state.status)
                            \/ pix'[q] = "white" /\ q \in Ink[state]
         /\ job # fill => \A p : Drawn(p) => Drawn(p)'
<1>1. \A q \in Px : \/ pix'[q] = pix[q]
                    \/ /\ q \in InWindow(Current.window)
                       /\ pix'[q] = Current.colour
  BY PixelsArrive
<1>2. job # fill => /\ Current.colour = "white"
                    /\ InWindow(Current.window) \subseteq Ink[state]
  BY CurrentIs DEF LcdInv
<1>3. filled => job # fill
  BY DEF Progress
<1>4. \A w : \A q \in InWindow(w) : q \in Px
  BY DEF InWindow
<1>5. job # fill => \A p : Drawn(p) => Drawn(p)'
  BY <1>1, <1>2, <1>4 DEF Drawn
<1>6. ASSUME filled, OnlyOwnInk, NEW q \in Px
      PROVE  \/ pix'[q] = status_color(state.status)
             \/ pix'[q] = "white" /\ q \in Ink[state]
  <2>1. \/ pix[q] = status_color(state.status)
        \/ pix[q] = "white" /\ q \in Ink[state]
    BY <1>6 DEF OnlyOwnInk
  <2>2. CASE pix'[q] = pix[q]
    BY <2>1, <2>2
  <2>3. CASE /\ q \in InWindow(Current.window)
             /\ pix'[q] = Current.colour
    BY <1>2, <1>3, <1>6, <2>3
  <2> QED  BY <1>1, <2>2, <2>3
<1> QED  BY <1>5, <1>6

LEMMA PixelsKeepPicture ==
  ASSUME PictureInv, SendPixels
  PROVE  PictureInv'
<1>0. LcdInv /\ LcdTypeOK /\ Painted /\ Progress /\ OnlyOwnInk
      /\ state \in States /\ job \in Jobs[state] /\ pc = "pixels" /\ state' = state
      /\ written \in Nat
  BY DEF PictureInv, LcdInv, LcdTypeOK, SendPixels
<1>1. LcdInv'
  BY <1>0, PixelsKeeps
<1>2. Pixels \in 0..Pixels
  BY <1>0, CurrentGood DEF Pixels, LcdTypeOK, Good
<1>3. ~Before(job, fill) /\ \A p \in Jobs[state] : ~Before(p, fill)
  BY <1>0, JobOrder
<1>4. CASE /\ TakePixels(Pixels, Current.colour) /\ MorePixels
           /\ UNCHANGED <<pc, job, filled, clean>>
  <2>1. \A j \in 0..(written + Pixels - 1) : pix'[Spot(j)] = Current.colour
    BY <1>0, <1>2, <1>4, PixelsArrive
  <2>2. written' = written + Pixels /\ UNCHANGED <<colWindow, rowWindow>>
    BY <1>0, <1>2, <1>4, PixelsArrive
  <2>3. Current' = Current /\ \A j : Spot(j)' = Spot(j)
    BY <1>0, <1>4, <2>2 DEF Current, Spot, Columns, Rows
  <2>4. Painted'
    <3>1. \A j \in 0..(written' - 1) : pix'[Spot(j)'] = Current.colour
      <4>1. written \in Nat /\ Pixels \in Nat
        BY <1>0, <1>2
      <4>2. \A a, b, c \in Nat : c = a + b => 0..(c - 1) = 0..(a + b - 1)
        OBVIOUS
      <4>3. 0..(written' - 1) = 0..(written + Pixels - 1)
        BY <2>2, <4>1, <4>2
      <4> QED  BY <2>1, <2>3, <4>3, Zenon
    <3>2. Current.colour' = Current.colour
      BY <2>3
    <3> QED  BY <3>1, <3>2 DEF Painted
  <2>5. OnlyOwnInk'
    <3>1. filled => \A q \in Px :
                       \/ pix'[q] = status_color(state.status)
                       \/ pix'[q] = "white" /\ q \in Ink[state]
      BY <1>0, <1>2, <1>4, SquareAddsInk
    <3> QED  BY <1>0, <1>4, <3>1 DEF OnlyOwnInk
  <2>6. Progress'
    <3>1. job # fill => \A p : Drawn(p) => Drawn(p)'
      BY <1>0, <1>2, <1>4, SquareAddsInk
    <3> QED  BY <1>0, <1>3, <1>4, <3>1 DEF Progress
  <2> QED  BY <1>1, <2>4, <2>5, <2>6 DEF PictureInv
<1>5. CASE /\ TakePixels(Pixels, Current.colour) /\ ~MorePixels
           /\ Leave /\ filled' = (filled \/ job = fill) /\ UNCHANGED clean
  <2>1. \A q \in InWindow(Current.window) : pix'[q] = Current.colour
    BY <1>0, <1>5, PixelsComplete
  <2>2. Painted'
    BY <1>5 DEF Painted, Leave
  <2>3. OnlyOwnInk'
    <3>1. CASE job = fill
      <4>1. \A q \in Px : pix'[q] = status_color(state.status)
        BY <1>0, <2>1, <3>1, CurrentIs
      <4> QED  BY <1>0, <4>1 DEF OnlyOwnInk
    <3>2. CASE job # fill
      <4>1. filled' = filled
        BY <1>0, <1>5, <3>2 DEF LcdTypeOK
      <4> QED  BY <1>0, <1>2, <1>5, <4>1, SquareAddsInk DEF OnlyOwnInk
    <3> QED  BY <3>1, <3>2
  <2>4. \A p : p = job => Drawn(p)'
    <3>1. CASE job # fill
      <4>1. Current.colour = "white" /\ Current = Rectangle(state, job)
        BY <1>0, <3>1, CurrentIs DEF Current
      <4> QED  BY <1>0, <2>1, <4>1 DEF Drawn
    <3>2. CASE job = fill
      BY <3>2 DEF Drawn
    <3> QED  BY <3>1, <3>2
  <2>5. clean' => filled' /\ \A p \in Jobs[state] :
                                p = job \/ Before(p, job) => Drawn(p)'
    <3>1. job # fill => \A p : Drawn(p) => Drawn(p)'
      BY <1>0, <1>2, <1>5, SquareAddsInk
    <3>2. clean => /\ job = fill \/ filled
                   /\ \A p \in Jobs[state] : Before(p, job) => Drawn(p)
      BY <1>0 DEF Progress
    <3>3. clean' = clean /\ filled' = (filled \/ job = fill)
      BY <1>5
    <3> QED  BY <1>3, <2>4, <3>1, <3>2, <3>3
  <2>6. Progress'
    BY <1>0, <1>5, <2>5, LeaveOrder DEF Progress
  <2> QED  BY <1>1, <2>2, <2>3, <2>6 DEF PictureInv
<1>6. CASE /\ \E k \in 0..Pixels : TakePixels(k, Current.colour)
           /\ Leave /\ clean' = FALSE /\ UNCHANGED filled
  <2>1. Painted'
    BY <1>6 DEF Painted, Leave
  <2>2. OnlyOwnInk'
    BY <1>0, <1>6, SquareAddsInk DEF OnlyOwnInk
  <2>3. Progress'
    BY <1>0, <1>6, LeaveOrder DEF Progress
  <2> QED  BY <1>1, <2>1, <2>2, <2>3 DEF PictureInv
<1> QED  BY <1>4, <1>5, <1>6 DEF SendPixels

LEMMA ReceiveKeepsPicture ==
  ASSUME PictureInv, NEW s \in States, Receive(s)
  PROVE  PictureInv'
<1>1. LcdInv'
  BY ReceiveKeeps DEF PictureInv
<1>2. /\ state' = s /\ job' = fill /\ pc' = "caset" /\ filled' = FALSE
  BY DEF Receive
<1>3. \A p \in Jobs[s] : ~Before(p, fill)
  BY JobOrder
<1> QED
  BY <1>1, <1>2, <1>3 DEF PictureInv, Painted, Progress, OnlyOwnInk

LEMMA PictureInvInit == Init => PictureInv
BY LcdInvInit DEF Init, PictureInv, Painted, Progress, OnlyOwnInk

LEMMA PictureInvNext == PictureInv /\ [Next]_vars => PictureInv'
<1> SUFFICES ASSUME PictureInv, [Next]_vars PROVE PictureInv'
  OBVIOUS
<1>1. CASE Draw
  BY <1>1, SendKeepsPicture, PixelsKeepPicture DEF Draw
<1>2. CASE \E s \in States : Receive(s)
  BY <1>2, ReceiveKeepsPicture
<1>3. CASE UNCHANGED vars
  <2>1. LcdInv'
    BY <1>3, LcdInvNext DEF PictureInv
  <2>2. UNCHANGED <<colWindow, rowWindow, written, pix, pc, state, job, filled, clean>>
    BY <1>3 DEF vars, controller
  <2>3. Painted' /\ OnlyOwnInk'
    BY <2>2 DEF PictureInv, Painted, OnlyOwnInk, Spot, Columns, Rows, Current
  <2>4. Progress'
    BY <2>2 DEF PictureInv, Progress, Drawn
  <2> QED  BY <2>1, <2>3, <2>4 DEF PictureInv
<1> QED  BY <1>1, <1>2, <1>3 DEF Next

\* Once the fill got through, failing transactions may cost ink but add none,
\* whatever the font, the texts and the panel (OnlyOwnInk).
THEOREM LcdOnlyOwnInk == Spec => []OnlyOwnInk
<1>1. PictureInv => OnlyOwnInk
  BY DEF PictureInv
<1> QED  BY <1>1, PictureInvInit, PictureInvNext, PTL DEF Spec

\* A state drawn without a failure is exactly its picture, whatever was on
\* the panel before (PictureComplete): every bit of every character that fits
\* is on it, and nothing else.
THEOREM LcdPictureComplete == Spec => []PictureComplete
<1>1. PictureInv => PictureComplete
  <2> SUFFICES ASSUME PictureInv, pc = "receive", clean, NEW q \in Px
               PROVE  pix[q] = IF q \in Ink[state] THEN "white"
                               ELSE status_color(state.status)
    BY DEF PictureComplete
  <2>1. /\ filled /\ \A p \in Jobs[state] : Drawn(p)
        /\ OnlyOwnInk /\ state \in States
    BY DEF PictureInv, Progress, LcdInv, LcdTypeOK
  <2>2. CASE q \in Ink[state]
    <3>1. PICK p \in Jobs[state] \ {fill} :
                 q \in InWindow(Rectangle(state, p).window)
      BY <2>1, <2>2, InkIsSquares
    <3> QED  BY <2>1, <2>2, <3>1 DEF Drawn
  <2>3. CASE q \notin Ink[state]
    BY <2>1, <2>3 DEF OnlyOwnInk
  <2> QED  BY <2>2, <2>3
<1> QED  BY <1>1, PictureInvInit, PictureInvNext, PTL DEF Spec

-----------------------------------------------------------------------------
(***************************************************************************)
(* Drawing comes nearer to its end with every transaction, whatever fails. *)
(***************************************************************************)
\* Transactions and pixels that a rectangle takes at most from here on.
DrawPhase ==
  CASE pc = "caset"   -> Current.window.count + 5
    [] pc = "columns" -> Current.window.count + 4
    [] pc = "raset"   -> Current.window.count + 3
    [] pc = "rows"    -> Current.window.count + 2
    [] pc = "ramwr"   -> Current.window.count + 1
    [] pc = "pixels"  -> remaining
    [] pc = "receive" -> 0

\* A transaction takes the task to a later rectangle of the same state, or
\* further into the same one.
Nearer ==
  pc # "receive" =>
    /\ state' = state
    /\ \/ job' \in Jobs[state] /\ Before(job, job')
       \/ job' = job /\ DrawPhase' \in 0..(DrawPhase - 1)

\* There is something left to do while it draws.
LEMMA DrawPhasePositive ==
  ASSUME LcdTypeOK, pc # "receive"
  PROVE  DrawPhase \in Nat \ {0}
<1>1. Current.window.count \in Nat /\ remaining \in Nat
  BY CurrentGood DEF LcdTypeOK, Good
<1>2. pc = "pixels" => remaining > 0
  BY DEF LcdTypeOK
<1> QED  BY <1>1, <1>2 DEF DrawPhase, LcdTypeOK

LEMMA LeaveNearer ==
  ASSUME LcdTypeOK, pc # "receive", Leave, UNCHANGED state
  PROVE  Nearer
<1>1. CASE \E p \in Jobs[state] : Before(job, p) /\ job' = p
  BY <1>1 DEF Nearer
<1>2. CASE pc' = "receive" /\ UNCHANGED job
  <2>1. DrawPhase' = 0
    BY <1>2 DEF DrawPhase
  <2> QED  BY <1>2, <2>1, DrawPhasePositive DEF Nearer
<1> QED  BY <1>1, <1>2 DEF Leave

\* A transaction of lcd_set_window: the next place is one nearer.
LEMMA SendNearer ==
  ASSUME LcdTypeOK, SendCaset \/ SendColumns \/ SendRaset \/ SendRows \/ SendRamwr
  PROVE  Nearer
<1>1. /\ UNCHANGED state /\ pc # "receive"
      /\ Leave \/ \E next \in Places :
                     /\ Go(next)
                     /\ <<pc, next>> \in { <<"caset", "columns">>, <<"columns", "raset">>,
                                           <<"raset", "rows">>, <<"rows", "ramwr">>,
                                           <<"ramwr", "pixels">> }
  BY DEF SendCaset, SendColumns, SendRaset, SendRows, SendRamwr, Send, Places
<1>2. CASE ~Leave
  <2>1. PICK next \in Places :
          /\ Go(next)
          /\ <<pc, next>> \in { <<"caset", "columns">>, <<"columns", "raset">>,
                                <<"raset", "rows">>, <<"rows", "ramwr">>,
                                <<"ramwr", "pixels">> }
    BY <1>1, <1>2
  <2> DEFINE c == Current.window.count
  <2>2. Current' = Current /\ c' = c /\ c \in Nat
    BY <1>1, <2>1, CurrentGood DEF Go, Current, Good
  <2>3. remaining' = IF next = "pixels" THEN c ELSE 0
    BY <2>1 DEF Go
  <2> HIDE DEF c
  <2>4. \/ DrawPhase = c + 5 /\ DrawPhase' = c + 4
        \/ DrawPhase = c + 4 /\ DrawPhase' = c + 3
        \/ DrawPhase = c + 3 /\ DrawPhase' = c + 2
        \/ DrawPhase = c + 2 /\ DrawPhase' = c + 1
        \/ DrawPhase = c + 1 /\ DrawPhase' = c
    BY <2>1, <2>2, <2>3 DEF DrawPhase, Go, c
  <2>5. DrawPhase' \in 0..(DrawPhase - 1)
    BY <2>2, <2>4
  <2> QED  BY <1>1, <2>1, <2>5 DEF Nearer, Go
<1> QED  BY <1>1, <1>2, LeaveNearer

LEMMA PixelsNearer == ASSUME LcdTypeOK, SendPixels PROVE Nearer
<1>1. pc = "pixels" /\ UNCHANGED state
  BY DEF SendPixels
<1>2. CASE Leave
  BY <1>1, <1>2, LeaveNearer
<1>3. CASE ~Leave
  <2>1. MorePixels /\ remaining' = remaining - Pixels /\ UNCHANGED <<pc, job>>
    BY <1>3 DEF SendPixels
  <2>2. remaining \in Nat \ {0} /\ Pixels \in 1..remaining
    BY <1>1, CurrentGood DEF LcdTypeOK, Pixels, Good
  <2>3. DrawPhase = remaining /\ DrawPhase' = remaining'
    BY <1>1, <2>1 DEF DrawPhase
  <2>4. DrawPhase' \in 0..(DrawPhase - 1)
    BY <2>1, <2>2, <2>3
  <2> QED  BY <1>1, <2>1, <2>4 DEF Nearer
<1> QED  BY <1>2, <1>3

\* Every transaction of the display task brings the drawing of a state nearer
\* to its end, whatever fails, and only the queue gives it a new one: what
\* DrawingEnds needs besides the task being scheduled.
THEOREM LcdDrawingShortens == Spec => [][Nearer]_vars
<1>1. LcdInv /\ [Next]_vars => [Nearer]_vars
  <2> SUFFICES ASSUME LcdInv, Next PROVE Nearer
    OBVIOUS
  <2>1. LcdTypeOK
    BY DEF LcdInv
  <2>2. CASE Draw
    BY <2>1, <2>2, SendNearer, PixelsNearer DEF Draw
  <2>3. CASE \E s \in States : Receive(s)
    BY <2>3 DEF Receive, Nearer
  <2> QED  BY <2>2, <2>3 DEF Next
<1> QED  BY <1>1, LcdInvInit, LcdInvNext, PTL DEF Spec
=============================================================================
