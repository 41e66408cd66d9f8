------------------------------- MODULE Mouse --------------------------------
(***************************************************************************)
(* The PS/2 mouse, drivers/devices/mouse.cpp, and its cursor on the        *)
(* screen, framebuffer.cpp lines 216-275.  The interrupt hands one byte at *)
(* a time to Mouse_Handler, which first processes the packet the bytes     *)
(* before made complete.  Packets assemble from whatever arrives: bytes    *)
(* the controller drops shift the rest.  Between the interrupts the        *)
(* terminal and ssfn write text to the same frame buffer.                  *)
(*                                                                         *)
(* A byte is [sync, xs, ys, xo, yo, button] (how packet[0] reads it) with  *)
(* num (how packet[1] and packet[2] read it).  Byte is 2^8 in the source.  *)
(***************************************************************************)
EXTENDS Drawing

CONSTANTS
  Bytes,        \* the bytes the mouse may send
  Byte,         \* 256: what a byte counts modulo
  Written,      \* the pixels that text is written to
  StampSide, StampRadius   \* 10 and 5: what a click draws

\* Text is cut off at the edges of the screen.
ASSUME WrittenAssumption == Written \in SUBSET OnScreen

VARIABLES
  screen,       \* pixel -> what is there
  canvas,       \* ghost: pixel -> what a click or text last drew there
  touched,      \* ghost: pixels of which text was written under the cursor, until they are drawn again
  saved,        \* cursorbuffer, and mousedrawn: << >> before
  cycle, packet, packetReady,
  position, oldPosition,
  circle, skip  \* the static variables

mouseVars == <<screen, canvas, touched, saved, cycle, packet, packetReady, position, oldPosition,
               circle, skip>>

Blank == [p \in OnScreen |-> 0]
NoByte == [sync |-> FALSE, xs |-> FALSE, ys |-> FALSE, xo |-> FALSE, yo |-> FALSE,
           button |-> 0, num |-> 0]

MouseInit ==
  /\ screen = Blank /\ canvas = Blank /\ touched = {} /\ saved = << >>
  /\ cycle = 0 /\ packet = <<NoByte, NoByte, NoByte>> /\ packetReady = FALSE
  /\ position = <<0, 0>> /\ oldPosition = <<0, 0>>
  /\ circle = FALSE /\ skip = TRUE

\* The columns that are set in each row of the two bitmaps.
cursorborder ==
  <<{0}, {0, 1}, {0, 2}, {0, 3}, {0, 4}, {0, 5}, {0, 6}, {0, 7}, {0, 8}, {0, 9}, {0, 10},
    {0, 11}, {0} \cup 7 .. 11, {0, 4, 7}, {0, 3, 5, 8}, {0, 2, 5, 8}, {0, 1, 6, 9}, {6, 9},
    {7, 8}>>

cursorinside ==
  <<{0}, 0 .. 1, 0 .. 2, 0 .. 3, 0 .. 4, 0 .. 5, 0 .. 6, 0 .. 7, 0 .. 8, 0 .. 9, 0 .. 10,
    0 .. 11, 0 .. 11, 0 .. 7, 0 .. 3 \cup 5 .. 8, 0 .. 2 \cup 5 .. 8, 0 .. 1 \cup 6 .. 9,
    6 .. 9, 7 .. 8>>

\* The pixels of a cursor bitmap at pos, cut off at the right and lower edge.
Shape(bitmap, pos) ==
  { p \in OnScreen : /\ p[2] - pos[2] \in 0 .. 18
                     /\ p[1] - pos[1] \in bitmap[p[2] - pos[2] + 1] }

\* putPixel beyond the right edge hits the next row.
Hit(pixels) == LET places == { Offset(q) : q \in pixels } IN { p \in OnScreen : Offset(p) \in places }

Paint(scr, pixels, colour) == LET hit == Hit(pixels) IN [p \in OnScreen |-> IF p \in hit THEN colour ELSE scr[p]]

\* clearCursor puts back, at oldPosition, what cursorbuffer holds.
clear(scr) ==
  IF saved = << >> THEN scr
  ELSE [p \in OnScreen |-> IF p \in Shape(cursorinside, oldPosition) THEN saved[p] ELSE scr[p]]

\* Mutant: the border is drawn first, so the inside saves parts of it.
drawBorderFirst(scr, pos) ==
  LET border == Paint(scr, Shape(cursorborder, pos), 9)
  IN  [screen |-> Paint(border, Shape(cursorinside, pos), 8), saved |-> border]

\* draw: the inside with saving, the border without.
draw(scr, pos) ==
  [screen |-> Paint(Paint(scr, Shape(cursorinside, pos), 8), Shape(cursorborder, pos), 9), saved |-> scr]

Low(v, size) == IF v < 0 THEN 0 ELSE IF v > size - 1 THEN size - 1 ELSE v

\* Lines 160-189: a negative movement is 256 - packet[i], kept in a uint8_t.
Delta(num, negative, over) ==
  IF negative THEN -((Byte - num) % Byte) - (IF over THEN Byte - 1 ELSE 0)
  ELSE num + (IF over THEN Byte - 1 ELSE 0)

Moved ==
  LET x == position[1] + Delta(packet[2].num, packet[1].xs, packet[1].xo)
      y == position[2] - Delta(packet[3].num, packet[1].ys, packet[1].yo)
  IN  <<Low(x, frm_width), Low(y, frm_height)>>

\* getMouseState: left before middle before right.
getMouseState(b) == IF b.button % 2 = 1 THEN "left"
                    ELSE IF b.button \in {4, 6} THEN "middle"
                    ELSE IF b.button = 2 THEN "right" ELSE "none"

\* What a click draws at pos.
Stamp(pos) == IF circle THEN drawFilledCircle(pos[1], pos[2], StampRadius)
              ELSE drawFilledRectangle(pos[1], pos[2], StampSide, StampSide)

Colour(button) == IF button = "left" THEN 1 ELSE 2

\* proccessPacket, when packetReady.
ProcessPacket ==
  LET pos == Moved
      button == getMouseState(packet[1])
      stamp == IF button \in {"left", "right"} THEN Stamp(pos) ELSE {}
      under == Paint(clear(screen), stamp, Colour(button))
      drawn == draw(under, pos)
  IN  /\ position' = pos /\ oldPosition' = pos
      /\ screen' = drawn.screen /\ saved' = drawn.saved
      /\ canvas' = Paint(canvas, stamp, Colour(button)) /\ touched' = touched \ Hit(stamp)
      /\ circle' = IF button = "middle" THEN ~circle ELSE circle

\* The switch of lines 262-281: out of step, a byte without the sync bit is dropped.
Collect(b) ==
  IF cycle = 0 /\ ~b.sync THEN UNCHANGED <<cycle, packet>>
  ELSE /\ packet' = [packet EXCEPT ![cycle + 1] = b]
       /\ cycle' = (cycle + 1) % 3

(***************************************************************************)
(* Mouse_Handler.  The packet's negated bytes are not modelled as changed: *)
(* they are overwritten before they are read again.                        *)
(***************************************************************************)
Mouse_Handler(b) ==
  /\ IF packetReady THEN ProcessPacket
     ELSE UNCHANGED <<screen, canvas, touched, saved, position, oldPosition, circle>>
  /\ skip' = FALSE
  /\ IF skip THEN UNCHANGED <<cycle, packet>> ELSE Collect(b)
  /\ packetReady' = (~skip /\ cycle = 2)

\* One pixel of a character, by ssfn_putc or the bootloader's terminal: neither asks where the
\* cursor is, so cursorbuffer does not learn of it.
WriteText(p) ==
  /\ screen' = Paint(screen, {p}, 3) /\ canvas' = Paint(canvas, {p}, 3)
  /\ touched' = IF saved # << >> /\ p \in Shape(cursorinside, position) THEN touched \cup {p}
                ELSE touched \ {p}
  /\ UNCHANGED <<saved, cycle, packet, packetReady, position, oldPosition, circle, skip>>

(***************************************************************************)
(* However bytes arrive, whatever is clicked and wherever text is written, *)
(* the cursor leaves no trace behind it, and what it erases is only text   *)
(* written under it: every other pixel shows what was last drawn there,    *)
(* with the cursor on top, and cursorbuffer holds what the cursor covers.  *)
(***************************************************************************)
BackgroundRestored ==
  IF saved = << >> THEN screen = canvas
  ELSE \A p \in OnScreen :
         /\ p \notin touched =>
              /\ screen[p] = IF p \in Shape(cursorborder, position) THEN 9
                             ELSE IF p \in Shape(cursorinside, position) THEN 8 ELSE canvas[p]
              /\ p \in Shape(cursorinside, position) => saved[p] = canvas[p]
         /\ p \notin Shape(cursorinside, position) => screen[p] \notin {8, 9}

MouseNext == (\E b \in Bytes : Mouse_Handler(b)) \/ (\E p \in Written : WriteText(p))
=============================================================================
