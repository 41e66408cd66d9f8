------------------------------ MODULE Drawing -------------------------------
(***************************************************************************)
(* The drawing functions of drivers/display/framebuffer/framebuffer.cpp.   *)
(* A drawing is the set of pixels <<x, y>> putPixel is called with; where  *)
(* in memory a pixel lies is Offset.                                       *)
(***************************************************************************)
EXTENDS Integers, FiniteSets, Sequences, SequencesExt

CONSTANTS frm_width, frm_height   \* frm_pixperscanline is frm_width

ASSUME FrameAssumption ==
  frm_width \in Nat \ {0} /\ frm_height \in Nat \ {0}

Offset(p) == p[1] + p[2] * frm_width
OnScreen == (0 .. frm_width - 1) \X (0 .. frm_height - 1)
InMemory(pixels) == \A p \in pixels : Offset(p) \in 0 .. frm_width * frm_height - 1

abs(n) == IF n < 0 THEN -n ELSE n
sign(n) == IF n > 0 THEN 1 ELSE IF n < 0 THEN -1 ELSE 0
Upto(n) == [i \in 1 .. n |-> i]

drawVertLine(x, y, dy) == { <<x, y + i>> : i \in 0 .. dy - 1 }
drawHorLine(x, y, dx) == { <<x + i, y>> : i \in 0 .. dx - 1 }

\* Mutant: the error may reach the whole length before the line steps aside.
MinorStepLate(err, add, length) ==
  IF err + add > length THEN [err |-> err + add - length, moves |-> 1]
  ELSE [err |-> err + add, moves |-> 0]

\* One turn along the longer direction (lines 75-80 and 88-93).
MinorStep(err, add, length) ==
  IF err + add >= length THEN [err |-> err + add - length, moves |-> 1]
  ELSE [err |-> err + add, moves |-> 0]

Longer(dx, dy) == IF abs(dx) >= abs(dy) THEN abs(dx) ELSE abs(dy)
Shorter(dx, dy) == IF abs(dx) >= abs(dy) THEN abs(dy) ELSE abs(dx)

\* A turn of either loop; s is the error and the pixel before it.
DiagTurn(s, dx, dy) ==
  LET m == MinorStep(s.err, Shorter(dx, dy), Longer(dx, dy))
      wide == abs(dx) >= abs(dy)
  IN  [err |-> m.err,
       px |-> s.px + sign(dx) * (IF wide THEN 1 ELSE m.moves),
       py |-> s.py + sign(dy) * (IF wide THEN m.moves ELSE 1)]

\* The pixels of drawDiagLine, in order; dx and dy are its x1 and y1.
drawDiagLine(x0, y0, dx, dy) ==
  LET long == Longer(dx, dy)
      after[i \in 0 .. long] ==
        IF i = 0 THEN [err |-> long \div 2, px |-> x0, py |-> y0]
        ELSE DiagTurn(after[i - 1], dx, dy)
  IN  [i \in 1 .. long |-> <<after[i].px, after[i].py>>]

\* Lines 102-132: beyond the edge, not at it, the coordinate is moved.
Clamp(v, size) == IF v > size THEN size - 1 ELSE IF v < -1 THEN -1 ELSE v

\* dx = 0 falls through to the diagonal line.
drawLine(x0, y0, x1, y1) ==
  LET a == Clamp(x0, frm_width)  b == Clamp(y0, frm_height)
      dx == Clamp(x1, frm_width) - a  dy == Clamp(y1, frm_height) - b
  IN  IF dy = 0 THEN drawHorLine(a, b, dx)
      ELSE (IF dx = 0 THEN drawVertLine(a, b, dy) ELSE {}) \cup ToSet(drawDiagLine(a, b, dx, dy))

drawRectangle(x, y, w, h) ==
  drawLine(x, y, x + w, y) \cup drawLine(x, y + h - 1, x + w, y + h - 1)
    \cup drawLine(x, y, x, y + h) \cup drawLine(x + w - 1, y, x + w - 1, y + h)

drawFilledRectangle(x, y, w, h) ==
  UNION { drawLine(x, y + i, x + w, y + i) : i \in 0 .. h - 1 }

\* One turn of lines 165-177; s is [x, y, err].
CircleStep(s) ==
  LET x == IF s.err > s.x THEN s.x + 1 ELSE s.x
      e == IF s.err > s.x THEN s.err + 2 * x + 1 ELSE s.err
      y == IF s.err <= s.y THEN s.y + 1 ELSE s.y
  IN  [x |-> x, y |-> y, err |-> IF s.err <= s.y THEN e + 2 * y + 1 ELSE e]

\* do ... while (x < 0), which takes at most 2 * radius turns.
drawCircle(cx, cy, radius) ==
  LET Turn(a, i) ==
        IF i > 1 /\ a.s.x >= 0 THEN a
        ELSE [s |-> CircleStep(a.s),
              pixels |-> a.pixels \cup
                { <<abs(cx - a.s.x), abs(cy + a.s.y)>>, <<abs(cx - a.s.y), abs(cy - a.s.x)>>,
                  <<abs(cx + a.s.x), abs(cy - a.s.y)>>, <<abs(cx + a.s.y), abs(cy + a.s.x)>> }]
  IN  FoldLeft(Turn, [s |-> [x |-> -radius, y |-> 0, err |-> 2 - 2 * radius], pixels |-> {}],
               Upto(2 * radius + 1))

\* One turn of lines 204-212.
FilledStep(s) ==
  LET err == s.err + s.yC
  IN  IF 2 * err + s.xC > 0
        THEN [x |-> s.x - 1, y |-> s.y + 1, xC |-> s.xC + 2, yC |-> s.yC + 2, err |-> err + s.xC]
        ELSE [s EXCEPT !.y = @ + 1, !.yC = @ + 2, !.err = err]

Bars(cx, cy, x, y) ==
  (cx - x .. cx + x) \X {cy + y, cy - y} \cup (cx - y .. cx + y) \X {cy + x, cy - x}

\* Lines 183-185: a circle that would leave on the left or at the top is moved.
drawFilledCircle(cx0, cy0, radius) ==
  LET moved == radius > cx0 \/ radius > cy0
      cx == IF moved THEN radius ELSE cx0
      cy == IF moved THEN radius ELSE cy0
      Turn(a, i) ==
        IF a.s.x < a.s.y THEN a
        ELSE [s |-> FilledStep(a.s), pixels |-> a.pixels \cup Bars(cx, cy, a.s.x, a.s.y)]
  IN  FoldLeft(Turn, [s |-> [x |-> radius, y |-> 0, xC |-> 1 - 2 * radius, yC |-> 0, err |-> 0],
                      pixels |-> {}], Upto(radius + 1)).pixels

-----------------------------------------------------------------------------
(***************************************************************************)
(* A diagonal line is connected and ends where it should, whatever way the *)
(* rounding of its error goes.                                             *)
(***************************************************************************)
LineEnds(x0, y0, dx, dy) ==
  LET line == <<<<x0, y0>>>> \o drawDiagLine(x0, y0, dx, dy)
  IN  /\ Last(line) = <<x0 + dx, y0 + dy>>
      /\ \A i \in 1 .. Len(line) - 1, c \in 1 .. 2 : abs(line[i + 1][c] - line[i][c]) <= 1
      /\ \A i \in 1 .. Len(line) - 1 : line[i + 1] # line[i]

(***************************************************************************)
(* A filled rectangle that fits the screen is exact.  Cut off at the right *)
(* edge it lacks the last column of the screen too, and it writes behind   *)
(* the frame buffer just if it reaches below the screen: a coordinate is   *)
(* clamped beyond the edge, not at it (line 110 compares with >).          *)
(***************************************************************************)
RectangleExact(x, y, w, h) ==
  LET pixels == drawFilledRectangle(x, y, w, h)
      columns == IF x + w > frm_width THEN frm_width - 1 - x ELSE w
  IN  /\ pixels \cap OnScreen = ((x .. x + columns - 1) \X (y .. y + h - 1)) \cap OnScreen
      /\ InMemory(pixels) <=> columns = 0 \/ h = 0 \/ y + h <= frm_height
=============================================================================
