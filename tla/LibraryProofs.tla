---------------------------- MODULE LibraryProofs ---------------------------
(***************************************************************************)
(* Theorems about the sequential parts MCLibrary checks on bounded inputs: *)
(* the mouse cursor on a screen of any size, rtc::sleep, the waits, the    *)
(* filled rectangle, the diagonal line, memmove and memcmp for any         *)
(* arguments, pMemory::init for any memory map, and the shell's file tree  *)
(* for any names, paths and number of nodes.                               *)
(***************************************************************************)
EXTENDS Mouse, Clock, Shell, Strings, PMemoryInit, FiniteSetTheorems,
        SequenceTheorems, WellFoundedInduction, TLAPS

-----------------------------------------------------------------------------
(* The mouse cursor. *)

\* Every pixel of the border is one of the inside, so that clear puts it back.
LEMMA BorderInside ==
  ASSUME NEW r \in 1 .. 19
  PROVE  cursorborder[r] \subseteq cursorinside[r]
<1>1. CASE r \in 1 .. 5
  BY <1>1 DEF cursorborder, cursorinside
<1>2. CASE r \in 6 .. 10
  BY <1>2 DEF cursorborder, cursorinside
<1>3. CASE r \in 11 .. 15
  BY <1>3 DEF cursorborder, cursorinside
<1>4. CASE r \in 16 .. 19
  BY <1>4 DEF cursorborder, cursorinside
<1> QED
  BY <1>1, <1>2, <1>3, <1>4

LEMMA ShapesNest ==
  ASSUME NEW pos
  PROVE  Shape(cursorborder, pos) \subseteq Shape(cursorinside, pos)
<1> SUFFICES ASSUME NEW p \in Shape(cursorborder, pos) PROVE p \in Shape(cursorinside, pos)
  OBVIOUS
<1> DEFINE d == p[2] - pos[2]
<1>1. p \in OnScreen /\ d \in 0 .. 18 /\ p[1] - pos[1] \in cursorborder[d + 1]
  BY DEF Shape
<1> HIDE DEF d
<1>2. d + 1 \in 1 .. 19
  BY <1>1
<1>3. p[1] - pos[1] \in cursorinside[d + 1]
  BY <1>1, <1>2, BorderInside
<1> QED
  BY <1>1, <1>3 DEF Shape, d

\* Two pixels on the screen lie at two places in memory.
LEMMA OffsetInjective ==
  ASSUME NEW p \in OnScreen, NEW q \in OnScreen, Offset(p) = Offset(q)
  PROVE  p = q
<1> DEFINE x == p[1]  y == p[2]  u == q[1]  v == q[2]
<1>1. /\ x \in 0 .. frm_width - 1 /\ y \in 0 .. frm_height - 1 /\ p = <<x, y>>
      /\ u \in 0 .. frm_width - 1 /\ v \in 0 .. frm_height - 1 /\ q = <<u, v>>
  BY DEF OnScreen
<1>2. x + y * frm_width = u + v * frm_width
  BY DEF Offset
<1>3. frm_width \in Nat \ {0} /\ frm_height \in Nat \ {0}
  BY FrameAssumption
<1> HIDE DEF x, y, u, v
<1>4. y = v
  <2>1. ASSUME NEW a \in Nat, NEW b \in Nat, a < b PROVE b * frm_width >= a * frm_width + frm_width
    <3>1. b >= a + 1
      BY <2>1
    <3>2. b * frm_width >= (a + 1) * frm_width
      BY <3>1, <1>3
    <3> QED
      BY <3>2, <1>3
  <2>2. y \in Nat /\ v \in Nat /\ x \in Nat /\ u \in Nat /\ x < frm_width /\ u < frm_width
    BY <1>1, <1>3
  <2>3. ~(y < v)
    <3> SUFFICES ASSUME y < v PROVE FALSE
      OBVIOUS
    <3>1. v * frm_width >= y * frm_width + frm_width
      BY <2>1, <2>2
    <3>2. v * frm_width \in Int /\ y * frm_width \in Int
      BY <1>3, <2>2
    <3> QED
      BY <1>2, <1>3, <2>2, <3>1, <3>2
  <2>4. ~(v < y)
    <3> SUFFICES ASSUME v < y PROVE FALSE
      OBVIOUS
    <3>1. y * frm_width >= v * frm_width + frm_width
      BY <2>1, <2>2
    <3>2. v * frm_width \in Int /\ y * frm_width \in Int
      BY <1>3, <2>2
    <3> QED
      BY <1>2, <1>3, <2>2, <3>1, <3>2
  <2> QED
    BY <2>2, <2>3, <2>4
<1>5. x = u
  <2>1. y * frm_width \in Int
    BY <1>1, <1>3
  <2> QED
    BY <1>1, <1>2, <1>3, <1>4, <2>1
<1> QED
  BY <1>1, <1>4, <1>5

\* So painting pixels of the screen paints them and no others.
LEMMA HitExact ==
  ASSUME NEW pixels \in SUBSET OnScreen
  PROVE  Hit(pixels) = pixels
<1>1. \A p \in OnScreen : Offset(p) \in { Offset(q) : q \in pixels } <=> p \in pixels
  BY OffsetInjective
<1> QED
  BY <1>1 DEF Hit

LEMMA PaintExact ==
  ASSUME NEW scr, NEW pixels, NEW colour, NEW p \in OnScreen
  PROVE  /\ Paint(scr, pixels, colour)[p] = IF p \in Hit(pixels) THEN colour ELSE scr[p]
         /\ pixels \in SUBSET OnScreen =>
              Paint(scr, pixels, colour)[p] = IF p \in pixels THEN colour ELSE scr[p]
<1>1. Paint(scr, pixels, colour)[p] = IF p \in Hit(pixels) THEN colour ELSE scr[p]
  BY DEF Paint
<1> QED
  BY <1>1, HitExact

(***************************************************************************)
(* The inductive invariant: what clear puts back is at the place draw took *)
(* it from, and neither the clicks nor the text draw in the cursor's       *)
(* colours.                                                                *)
(***************************************************************************)
CursorInv ==
  /\ oldPosition = position
  /\ DOMAIN canvas = OnScreen /\ canvas = [p \in OnScreen |-> canvas[p]]
  /\ saved = << >> => touched = {}
  /\ \A p \in OnScreen :
       /\ canvas[p] \notin {8, 9}
       /\ saved # << >> /\ p \in Shape(cursorinside, position) => saved[p] \notin {8, 9}
  /\ BackgroundRestored

\* After clear the cursor is gone, and only text written under it is missing.
LEMMA ClearRestores ==
  ASSUME CursorInv, NEW p \in OnScreen
  PROVE  /\ clear(screen)[p] \notin {8, 9}
         /\ p \notin touched => clear(screen)[p] = canvas[p]
<1>1. CASE saved = << >>
  BY <1>1 DEF CursorInv, BackgroundRestored, clear
<1>2. CASE saved # << >>
  <2>1. clear(screen)[p] = IF p \in Shape(cursorinside, position) THEN saved[p] ELSE screen[p]
    BY <1>2 DEF clear, CursorInv
  <2> QED
    BY <1>2, <2>1, ShapesNest DEF CursorInv, BackgroundRestored
<1> QED
  BY <1>1, <1>2

LEMMA PacketKeeps ==
  ASSUME CursorInv, ProcessPacket
  PROVE  CursorInv'
<1> DEFINE pos == Moved
           button == getMouseState(packet[1])
           colour == Colour(button)
           stamp == IF button \in {"left", "right"} THEN Stamp(pos) ELSE {}
           under == Paint(clear(screen), stamp, colour)
<1>1. /\ position' = pos /\ oldPosition' = pos
      /\ canvas' = Paint(canvas, stamp, colour) /\ touched' = touched \ Hit(stamp)
      /\ screen' = draw(under, pos).screen /\ saved' = draw(under, pos).saved
  BY DEF ProcessPacket
<1>a. colour \notin {8, 9}
  BY DEF Colour
<1> HIDE DEF pos, stamp, colour
<1>2. /\ DOMAIN under = OnScreen
      /\ DOMAIN canvas' = OnScreen /\ canvas' = [p \in OnScreen |-> canvas'[p]]
  BY <1>1 DEF Paint
<1>3. ASSUME NEW p \in OnScreen
      PROVE  /\ canvas'[p] \notin {8, 9} /\ under[p] \notin {8, 9}
             /\ p \notin touched' => under[p] = canvas'[p]
  <2>1. canvas'[p] = IF p \in Hit(stamp) THEN colour ELSE canvas[p]
    BY <1>1, <1>3, PaintExact
  <2>2. under[p] = IF p \in Hit(stamp) THEN colour ELSE clear(screen)[p]
    BY <1>3, PaintExact
  <2> QED
    BY <1>1, <1>a, <1>3, <2>1, <2>2, ClearRestores DEF CursorInv
<1> HIDE DEF under
<1> DEFINE inside == Shape(cursorinside, pos)
           border == Shape(cursorborder, pos)
<1>4. screen' = Paint(Paint(under, inside, 8), border, 9) /\ saved' = under
  BY <1>1 DEF draw
<1>5. inside \in SUBSET OnScreen /\ border \in SUBSET inside
  BY ShapesNest DEF Shape
<1> HIDE DEF inside, border
<1>6. \A p \in OnScreen : screen'[p] = IF p \in border THEN 9 ELSE IF p \in inside THEN 8 ELSE under[p]
  <2> SUFFICES ASSUME NEW p \in OnScreen
               PROVE  screen'[p] = IF p \in border THEN 9 ELSE IF p \in inside THEN 8 ELSE under[p]
    OBVIOUS
  <2>1. Paint(under, inside, 8)[p] = IF p \in inside THEN 8 ELSE under[p]
    BY <1>5, PaintExact
  <2>2. screen'[p] = IF p \in border THEN 9 ELSE Paint(under, inside, 8)[p]
    BY <1>4, <1>5, PaintExact
  <2> QED
    BY <2>1, <2>2
<1>7. saved' # << >>
  <2>1. <<0, 0>> \in OnScreen
    BY FrameAssumption DEF OnScreen
  <2>2. DOMAIN saved' = OnScreen
    BY <1>2, <1>4
  <2> QED
    BY <2>1, <2>2
<1>8. BackgroundRestored'
  BY <1>1, <1>3, <1>4, <1>5, <1>6, <1>7 DEF BackgroundRestored, inside, border
<1> QED
  BY <1>1, <1>2, <1>3, <1>4, <1>7, <1>8 DEF CursorInv

LEMMA TextKeeps ==
  ASSUME CursorInv, NEW q \in Written, WriteText(q)
  PROVE  CursorInv'
<1>1. q \in OnScreen /\ {q} \in SUBSET OnScreen
  BY WrittenAssumption
<1>2. \A p \in OnScreen : /\ screen'[p] = IF p = q THEN 3 ELSE screen[p]
                          /\ canvas'[p] = IF p = q THEN 3 ELSE canvas[p]
  BY <1>1, PaintExact DEF WriteText
<1>3. DOMAIN canvas' = OnScreen /\ canvas' = [p \in OnScreen |-> canvas'[p]]
  BY DEF WriteText, Paint
<1>4. UNCHANGED <<saved, position, oldPosition>> /\ Shape(cursorinside, position)' = Shape(cursorinside, position)
      /\ Shape(cursorborder, position)' = Shape(cursorborder, position)
  BY DEF WriteText, Shape
<1>5. CASE saved = << >>
  <2>1. screen' = canvas' /\ touched' = {}
    BY <1>5 DEF WriteText, CursorInv, BackgroundRestored
  <2> QED
    BY <1>2, <1>3, <1>4, <1>5, <2>1 DEF CursorInv, BackgroundRestored
<1>6. CASE saved # << >>
  <2>1. touched' = IF q \in Shape(cursorinside, position) THEN touched \cup {q} ELSE touched \ {q}
    BY <1>6 DEF WriteText
  <2>2. BackgroundRestored'
    BY <1>2, <1>4, <1>6, <2>1, ShapesNest DEF CursorInv, BackgroundRestored
  <2> QED
    BY <1>2, <1>3, <1>4, <1>6, <2>2 DEF CursorInv
<1> QED
  BY <1>5, <1>6

MouseSpec == MouseInit /\ [][MouseNext]_mouseVars

(***************************************************************************)
(* The cursor leaves no trace, and erases only text written under it, on a *)
(* screen of any size, for every sequence of bytes, however the bytes fall *)
(* into packets, whatever the clicks draw and wherever text is written:    *)
(* clicks draw between clear and draw, clear finds under the border what   *)
(* draw saved with the inside, and only text misses what was saved.        *)
(***************************************************************************)
THEOREM CursorLeavesNoTrace == MouseSpec => []BackgroundRestored
<1>1. MouseInit => CursorInv
  BY DEF MouseInit, CursorInv, BackgroundRestored, Blank
<1>2. CursorInv /\ [MouseNext]_mouseVars => CursorInv'
  <2> SUFFICES ASSUME CursorInv, [MouseNext]_mouseVars PROVE CursorInv'
    OBVIOUS
  <2>1. ASSUME UNCHANGED <<screen, canvas, touched, saved, position, oldPosition>> PROVE CursorInv'
    BY <2>1 DEF CursorInv, BackgroundRestored, Shape
  <2>2. CASE UNCHANGED mouseVars
    BY <2>1, <2>2 DEF mouseVars
  <2>3. CASE MouseNext
    BY <2>1, <2>3, PacketKeeps, TextKeeps DEF MouseNext, Mouse_Handler
  <2> QED
    BY <2>2, <2>3
<1>3. CursorInv => BackgroundRestored
  BY DEF CursorInv
<1> QED
  BY <1>1, <1>2, <1>3, PTL DEF MouseSpec

-----------------------------------------------------------------------------
(* Reading the clock. *)

\* A quotient and a remainder are unique.
LEMMA DivisionUnique ==
  ASSUME NEW d \in Nat \ {0}, NEW a \in Int, NEW b \in Int, NEW r \in 0 .. d - 1, NEW s \in 0 .. d - 1,
         a * d + r = b * d + s
  PROVE  a = b /\ r = s
<1>1. ASSUME NEW k \in Int, NEW l \in Int, k < l PROVE l * d >= k * d + d
  <2>1. l >= k + 1
    BY <1>1
  <2>2. l * d >= (k + 1) * d
    BY <2>1
  <2> QED
    BY <2>2
<1>2. a * d \in Int /\ b * d \in Int
  OBVIOUS
<1>3. ~(a < b)
  <2> SUFFICES ASSUME a < b PROVE FALSE
    OBVIOUS
  <2>1. b * d >= a * d + d
    BY <1>1
  <2> QED
    BY <1>2, <2>1
<1>4. ~(b < a)
  <2> SUFFICES ASSUME b < a PROVE FALSE
    OBVIOUS
  <2>1. a * d >= b * d + d
    BY <1>1
  <2> QED
    BY <1>2, <2>1
<1>5. a = b
  BY <1>3, <1>4
<1> QED
  BY <1>2, <1>5

LEMMA Division ==
  ASSUME NEW n \in Int, NEW d \in Nat \ {0}
  PROVE  /\ n \div d \in Int /\ n % d \in 0 .. d - 1
         /\ n = (n \div d) * d + (n % d)
         /\ n >= 0 => n \div d >= 0
  OBVIOUS

\* What a division yields, given its quotient and remainder.
LEMMA Divided ==
  ASSUME NEW d \in Nat \ {0}, NEW a \in Int, NEW r \in 0 .. d - 1
  PROVE  (a * d + r) \div d = a /\ (a * d + r) % d = r
<1> DEFINE n == a * d + r
<1>1. n \in Int
  OBVIOUS
<1>2. n = a * d + r
  OBVIOUS
<1> HIDE DEF n
<1>3. n \div d \in Int /\ n % d \in 0 .. d - 1 /\ n = (n \div d) * d + (n % d)
  BY <1>1, Division
<1>4. (n \div d) * d + (n % d) = a * d + r
  BY <1>2, <1>3
<1>5. n \div d = a /\ n % d = r
  BY <1>3, <1>4, DivisionUnique
<1> QED
  BY <1>5 DEF n

\* bcptobin reads what the chip holds.
LEMMA RegistersRead ==
  ASSUME NEW v \in Nat
  PROVE  bcptobin(BCD(v)) = v
<1>1. v \div 10 \in Int /\ v % 10 \in 0 .. 9 /\ v = (v \div 10) * 10 + (v % 10)
  BY Division
<1> DEFINE a == v \div 10
           r == v % 10
<1> HIDE DEF a, r
<1>2. a \in Int /\ r \in 0 .. 9 /\ v = a * 10 + r
  BY <1>1 DEF a, r
<1>3. BCD(v) = a * 16 + r
  BY DEF BCD, a, r
<1>4. (a * 16 + r) \div 16 = a /\ (a * 16 + r) % 16 = r
  BY <1>2, Divided
<1> QED
  BY <1>2, <1>3, <1>4 DEF bcptobin

HourOf(n) == n \div (Minutes * Seconds)
MinuteOf(n) == (n \div Seconds) % Minutes
SecondOf(n) == n % Seconds

\* The time of day in minutes and seconds.
LEMMA Parts ==
  ASSUME NEW n \in Nat
  PROVE  LET q == n \div Seconds
         IN  /\ q \in Nat /\ SecondOf(n) \in 0 .. Seconds - 1 /\ n = q * Seconds + SecondOf(n)
             /\ HourOf(n) = q \div Minutes /\ HourOf(n) \in Nat
             /\ MinuteOf(n) = q % Minutes /\ MinuteOf(n) \in 0 .. Minutes - 1
             /\ q = HourOf(n) * Minutes + MinuteOf(n)
<1> DEFINE q == n \div Seconds
           s == n % Seconds
           a == q \div Minutes
           m == q % Minutes
<1>1. Minutes \in Nat \ {0} /\ Seconds \in Nat \ {0}
  BY ClockAssumption
<1>2. q \in Nat /\ s \in 0 .. Seconds - 1 /\ n = q * Seconds + s
  <2>1. n \in Int /\ n >= 0
    OBVIOUS
  <2>2. q \in Int /\ q >= 0 /\ s \in 0 .. Seconds - 1 /\ n = q * Seconds + s
    BY <1>1, <2>1, Division, Zenon
  <2> QED
    BY <2>2
<1> HIDE DEF q, s
<1>3. a \in Nat /\ m \in 0 .. Minutes - 1 /\ q = a * Minutes + m
  <2>1. q \in Int /\ q >= 0
    BY <1>2
  <2>2. a \in Int /\ a >= 0 /\ m \in 0 .. Minutes - 1 /\ q = a * Minutes + m
    BY <1>1, <2>1, Division, Zenon
  <2> QED
    BY <2>2
<1> HIDE DEF a, m
<1> DEFINE d == Minutes * Seconds
           r == m * Seconds + s
<1>4. n = a * d + r
  <2>1. (a * Minutes + m) * Seconds = a * (Minutes * Seconds) + m * Seconds
    BY <1>1, <1>3
  <2>2. a * (Minutes * Seconds) \in Int /\ m * Seconds \in Int
    BY <1>1, <1>3
  <2> QED
    BY <1>1, <1>2, <1>3, <2>1, <2>2
<1>5. d \in Nat \ {0} /\ r \in 0 .. d - 1
  <2>1. d \in Nat /\ d # 0
    BY <1>1
  <2>2. m * Seconds \in Nat /\ (m + 1) * Seconds = m * Seconds + Seconds
    BY <1>1, <1>3
  <2>3. (m + 1) * Seconds <= Minutes * Seconds
    BY <1>1, <1>3
  <2> QED
    BY <1>1, <1>2, <2>1, <2>2, <2>3
<1> HIDE DEF d, r
<1>6. n \div d = a
  BY <1>3, <1>4, <1>5, Divided
<1>7. HourOf(n) = a
  BY <1>6 DEF HourOf, d
<1>8. MinuteOf(n) = m /\ SecondOf(n) = s
  BY DEF MinuteOf, SecondOf, q, m, s
<1> QED
  BY <1>2, <1>3, <1>7, <1>8 DEF q, a, m

\* A time() that is read whole is the time.
LEMMA WholeRead ==
  ASSUME NEW n \in Nat
  PROVE  Time(HourOf(n), MinuteOf(n), SecondOf(n)) = n
  BY Parts DEF Time

(***************************************************************************)
(* How the minutes q = h * M + m and the seconds s of n relate to those of *)
(* n - 1: the same minute, or a carry.                                     *)
(***************************************************************************)
LEMMA Carry ==
  ASSUME NEW M \in Nat \ {0}, NEW S \in Nat \ {0}, NEW n \in Nat \ {0},
         NEW q \in Nat, NEW s \in 0 .. S - 1, n = q * S + s,
         NEW h \in Nat, NEW m \in 0 .. M - 1, q = h * M + m,
         NEW p \in Nat, NEW r \in 0 .. S - 1, n - 1 = p * S + r,
         NEW g \in Nat, NEW k \in 0 .. M - 1, p = g * M + k
  PROVE  /\ s # 0 => p = q /\ g = h /\ k = m
         /\ s = 0 => p = q - 1
         /\ s = 0 /\ m # 0 => g = h
         /\ s = 0 /\ m = 0 => g = h - 1
<1>1. ASSUME s # 0 PROVE p = q
  <2>1. s - 1 \in 0 .. S - 1 /\ p \in Int /\ q \in Int
    BY <1>1
  <2>2. p * S + r = q * S + (s - 1)
    BY <1>1
  <2> QED
    BY <2>1, <2>2, DivisionUnique
<1>2. ASSUME p = q PROVE g = h /\ k = m
  <2>1. g * M + k = h * M + m
    BY <1>2
  <2> QED
    BY <2>1, DivisionUnique
<1>3. ASSUME s = 0 PROVE p = q - 1
  <2>1. S - 1 \in 0 .. S - 1 /\ p \in Int /\ q - 1 \in Int
    OBVIOUS
  <2>2. p * S + r = (q - 1) * S + (S - 1)
    BY <1>3
  <2> QED
    BY <2>1, <2>2, DivisionUnique
<1>4. ASSUME p = q - 1, m # 0 PROVE g = h
  <2>1. m - 1 \in 0 .. M - 1
    BY <1>4
  <2>2. g * M + k = h * M + (m - 1)
    BY <1>4
  <2> QED
    BY <2>1, <2>2, DivisionUnique
<1>5. ASSUME p = q - 1, m = 0 PROVE g = h - 1
  <2>1. M - 1 \in 0 .. M - 1 /\ h - 1 \in Int
    OBVIOUS
  <2>2. g * M + k = (h - 1) * M + (M - 1)
    BY <1>5
  <2> QED
    BY <2>1, <2>2, DivisionUnique
<1> QED
  BY <1>1, <1>2, <1>3, <1>4, <1>5

LEMMA CarryValue ==
  ASSUME NEW M \in Nat \ {0}, NEW S \in Nat \ {0}, NEW n \in Nat \ {0},
         NEW q \in Nat, NEW s \in 0 .. S - 1, n = q * S + s,
         NEW h \in Nat, NEW m \in 0 .. M - 1, q = h * M + m,
         NEW p \in Nat, NEW r \in 0 .. S - 1, n - 1 = p * S + r,
         NEW g \in Nat, NEW k \in 0 .. M - 1, p = g * M + k,
         NEW x \in {k, m}
  PROVE  LET v == (g * M + x) * S + s IN v = n \/ (s = 0 /\ v \in {n - S, n - M * S})
<1> DEFINE v == (g * M + x) * S + s
<1>1. /\ s # 0 => p = q /\ g = h /\ k = m
      /\ s = 0 => p = q - 1
      /\ s = 0 /\ m # 0 => g = h
      /\ s = 0 /\ m = 0 => g = h - 1
  BY Carry
<1>2. ASSUME g * M + x = q PROVE v = n
  BY <1>2
<1>3. ASSUME s # 0 PROVE g * M + x = q
  BY <1>1, <1>3
<1>4. ASSUME s = 0, x = k PROVE v = n - S
  <2>1. g * M + x = q - 1
    BY <1>1, <1>4
  <2>2. v = (q - 1) * S
    BY <1>4, <2>1
  <2> QED
    BY <1>4, <2>2
<1>5. ASSUME s = 0, x = m, m # 0 PROVE g * M + x = q
  BY <1>1, <1>5
<1>6. ASSUME s = 0, x = m, m = 0 PROVE v = n - M * S
  <2>1. g * M + x = (h - 1) * M /\ q = h * M
    BY <1>1, <1>6
  <2>2. v = ((h - 1) * M) * S /\ n = (h * M) * S
    BY <1>6, <2>1
  <2>3. ((h - 1) * M) * S = (h * M) * S - M * S
    OBVIOUS
  <2> QED
    BY <2>2, <2>3
<1> HIDE DEF v
<1>7. v = n \/ (s = 0 /\ v \in {n - S, n - M * S})
  BY <1>2, <1>3, <1>4, <1>5, <1>6
<1> QED
  BY <1>7 DEF v

(***************************************************************************)
(* A time() across one tick, from n - 1 to n, is n, or it is a minute or   *)
(* an hour too early and there was a carry.                                *)
(***************************************************************************)
LEMMA TornRead ==
  ASSUME NEW n \in Nat \ {0}, NEW m \in {MinuteOf(n - 1), MinuteOf(n)}
  PROVE  LET v == Time(HourOf(n - 1), m, SecondOf(n))
         IN  v = n \/ (SecondOf(n) = 0 /\ v \in {n - Seconds, n - Minutes * Seconds})
<1> DEFINE b == n - 1
           q == n \div Seconds
           p == b \div Seconds
<1>0. Minutes \in Nat \ {0} /\ Seconds \in Nat \ {0}
  BY ClockAssumption
<1>1. /\ q \in Nat /\ SecondOf(n) \in 0 .. Seconds - 1 /\ n = q * Seconds + SecondOf(n)
      /\ MinuteOf(n) \in 0 .. Minutes - 1 /\ HourOf(n) \in Nat
      /\ q = HourOf(n) * Minutes + MinuteOf(n)
  BY Parts
<1>2. b \in Nat
  OBVIOUS
<1>3. /\ p \in Nat /\ SecondOf(b) \in 0 .. Seconds - 1 /\ b = p * Seconds + SecondOf(b)
      /\ HourOf(b) \in Nat /\ MinuteOf(b) \in 0 .. Minutes - 1
      /\ p = HourOf(b) * Minutes + MinuteOf(b)
  <2> HIDE DEF b
  <2> QED
    BY <1>2, Parts
<1>4. m \in {MinuteOf(b), MinuteOf(n)} /\ n - 1 = p * Seconds + SecondOf(b)
  BY <1>3
<1> HIDE DEF p, q
<1>5. LET v == (HourOf(b) * Minutes + m) * Seconds + SecondOf(n)
      IN  v = n \/ (SecondOf(n) = 0 /\ v \in {n - Seconds, n - Minutes * Seconds})
  <2> HIDE DEF b
  <2> QED
    BY <1>0, <1>1, <1>3, <1>4, CarryValue
<1> QED
  BY <1>5 DEF Time

\* A day, in the hours, minutes and seconds of its clock.
LEMMA DayFacts ==
  /\ Day \in Nat \ {0} /\ Seconds \in Nat \ {0, 1} /\ Minutes * Seconds \in Nat
  /\ Seconds <= Minutes * Seconds /\ Minutes * Seconds <= Day
  /\ MinuteOf(Day) = MinuteOf(0) /\ SecondOf(Day) = SecondOf(0) /\ SecondOf(0) = 0
<1>1. Hours \in Nat \ {0} /\ Minutes \in Nat \ {0} /\ Seconds \in Nat \ {0, 1} /\ Seconds \in Nat \ {0}
  BY ClockAssumption
<1> DEFINE ms == Minutes * Seconds
           hm == Hours * Minutes
<1>2. ms \in Nat \ {0} /\ Seconds <= ms /\ hm \in Nat \ {0}
  BY <1>1
<1>3. Day = Hours * ms /\ Day = hm * Seconds + 0
  BY <1>1 DEF Day
<1>4. Day \in Nat \ {0} /\ ms <= Day
  <2> HIDE DEF ms, hm
  <2> QED
    BY <1>1, <1>2, <1>3
<1>5. Day \div Seconds = hm /\ Day % Seconds = 0
  <2> HIDE DEF hm
  <2>1. 0 \in 0 .. Seconds - 1 /\ hm \in Int
    BY <1>1, <1>2
  <2> QED
    BY <1>1, <1>3, <2>1, Divided
<1>6. hm % Minutes = 0
  <2>1. 0 \in 0 .. Minutes - 1 /\ hm = Hours * Minutes + 0 /\ Hours \in Int
    BY <1>1
  <2> QED
    BY <1>1, <2>1, Divided
<1>7. 0 \div Seconds = 0 /\ 0 % Seconds = 0 /\ 0 % Minutes = 0
  <2>1. 0 = 0 * Seconds + 0 /\ 0 \in 0 .. Seconds - 1 /\ 0 = 0 * Minutes + 0 /\ 0 \in 0 .. Minutes - 1
    BY <1>1
  <2> QED
    BY <1>1, <2>1, Divided
<1> QED
  BY <1>1, <1>2, <1>4, <1>5, <1>6, <1>7 DEF MinuteOf, SecondOf

\* Every read of the three registers is a time of day.
LEMMA HourInDay ==
  ASSUME NEW n \in 0 .. Day - 1
  PROVE  HourOf(n) \in 0 .. Hours - 1
<1> DEFINE ms == Minutes * Seconds
           h == HourOf(n)
<1>1. Hours \in Nat \ {0} /\ ms \in Nat \ {0} /\ Day = Hours * ms
  BY ClockAssumption DEF Day
<1>2. n \in Nat /\ n < Hours * ms
  BY <1>1, DayFacts
<1>3. h = n \div ms
  BY DEF HourOf
<1> HIDE DEF ms, h
<1>4. h \in Int /\ n % ms \in 0 .. ms - 1 /\ n = h * ms + (n % ms) /\ h >= 0
  <2>1. n \in Int /\ n >= 0
    BY <1>2
  <2>2. /\ n \div ms \in Int /\ n % ms \in 0 .. ms - 1
        /\ n = (n \div ms) * ms + (n % ms) /\ n \div ms >= 0
    BY <1>1, <2>1, Division, Zenon
  <2> QED
    BY <1>3, <2>2, Zenon
<1>5. h < Hours
  <2> SUFFICES ASSUME h >= Hours PROVE FALSE
    BY <1>1, <1>4
  <2>1. h * ms >= Hours * ms
    BY <1>1, <1>4
  <2>2. h * ms \in Int /\ Hours * ms \in Int
    BY <1>1, <1>4
  <2> QED
    BY <1>1, <1>2, <1>4, <2>1, <2>2
<1> QED
  BY <1>1, <1>4, <1>5 DEF h

LEMMA ValueInDay ==
  ASSUME NEW h \in 0 .. Hours - 1, NEW m \in 0 .. Minutes - 1, NEW s \in 0 .. Seconds - 1
  PROVE  Time(h, m, s) < Day
<1>1. Hours \in Nat \ {0} /\ Minutes \in Nat \ {0} /\ Seconds \in Nat \ {0}
  BY ClockAssumption
<1>2. h * Minutes + m <= Hours * Minutes - 1
  <2>1. (h + 1) * Minutes <= Hours * Minutes
    BY <1>1
  <2>2. (h + 1) * Minutes = h * Minutes + Minutes /\ h * Minutes \in Int /\ Hours * Minutes \in Int
    BY <1>1
  <2> QED
    BY <1>1, <2>1, <2>2
<1> DEFINE a == h * Minutes + m
           b == Hours * Minutes
<1>3. a \in Nat /\ b \in Nat /\ a + 1 <= b
  BY <1>1, <1>2
<1>4. Time(h, m, s) = a * Seconds + s /\ Day = b * Seconds
  BY DEF Time, Day
<1> HIDE DEF a, b
<1>5. (a + 1) * Seconds <= b * Seconds
  BY <1>1, <1>3
<1>6. (a + 1) * Seconds = a * Seconds + Seconds /\ a * Seconds \in Int /\ b * Seconds \in Int
  BY <1>1, <1>3
<1> QED
  BY <1>1, <1>4, <1>5, <1>6

\* A minute that begins before midnight ends by then.
LEMMA MinuteInDay ==
  ASSUME NEW n \in 0 .. Day - 1, n # Day - 1, SecondOf(n + 1) = 0
  PROVE  \E c \in Int : n + 1 = c * Seconds /\ c * Seconds + Seconds <= Day
<1> DEFINE c == (n + 1) \div Seconds
           b == Hours * Minutes
<1>1. Day \in Nat \ {0} /\ Seconds \in Nat \ {0} /\ b \in Nat /\ Day = b * Seconds
  BY DayFacts, ClockAssumption DEF Day
<1>2. n + 1 \in Int /\ n + 1 < Day
  BY <1>1
<1>3. c \in Int /\ n + 1 = c * Seconds + ((n + 1) % Seconds)
  BY <1>1, <1>2, Division
<1>4. (n + 1) % Seconds = 0
  BY DEF SecondOf
<1> HIDE DEF c, b
<1>5. n + 1 = c * Seconds
  <2>1. c * Seconds \in Int
    BY <1>1, <1>3
  <2> QED
    BY <1>3, <1>4, <2>1
<1>6. c < b
  <2> SUFFICES ASSUME c >= b PROVE FALSE
    BY <1>1, <1>3
  <2>1. c * Seconds >= b * Seconds
    BY <1>1, <1>3
  <2> QED
    BY <1>1, <1>2, <1>5, <2>1
<1>7. (c + 1) * Seconds <= b * Seconds
  BY <1>1, <1>3, <1>6
<1>8. (c + 1) * Seconds = c * Seconds + Seconds
  BY <1>1, <1>3
<1>9. c * Seconds + Seconds <= Day
  BY <1>1, <1>7, <1>8
<1> QED
  BY <1>3, <1>5, <1>9

\* The second before n.
Before(n) == IF n = 0 THEN Day - 1 ELSE n - 1

\* What reading the registers of the chip yields.
LEMMA ChipRead ==
  ASSUME now \in Nat
  PROVE  /\ bcptobin(CMOS[1]) = HourOf(now) /\ bcptobin(CMOS[2]) = MinuteOf(now)
         /\ bcptobin(CMOS[3]) = SecondOf(now)
<1>1. HourOf(now) \in Nat /\ MinuteOf(now) \in Nat /\ SecondOf(now) \in Nat
  BY Parts, ClockAssumption
<1>2. CMOS[1] = BCD(HourOf(now)) /\ CMOS[2] = BCD(MinuteOf(now)) /\ CMOS[3] = BCD(SecondOf(now))
  BY DEF CMOS, HourOf, MinuteOf, SecondOf
<1> QED
  BY <1>1, <1>2, RegistersRead

\* Two times of one day that are a whole number of days apart are the same.
LEMMA SameDay ==
  ASSUME NEW x \in 0 .. Day - 1, NEW n \in 0 .. Day - 1, NEW k \in Int, x = n + k * Day
  PROVE  x = n
<1>1. Day \in Nat \ {0} /\ 0 \in Int
  BY DayFacts
<1>2. 0 * Day + x = k * Day + n
  BY <1>1
<1> QED
  BY <1>1, <1>2, DivisionUnique

\* Counted without reduction, a time is at least the clock's.
LEMMA CountAhead ==
  ASSUME NEW x \in Nat, NEW n \in 0 .. Day - 1, NEW k \in Int, x = n + k * Day
  PROVE  n <= x /\ (x >= 1 => Before(n) + 1 <= x)
<1>1. Day \in Nat \ {0}
  BY DayFacts
<1>2. k >= 0
  <2> SUFFICES ASSUME k <= -1 PROVE FALSE
    OBVIOUS
  <2>1. k * Day <= -Day
    BY <1>1
  <2>2. k * Day \in Int
    BY <1>1
  <2> QED
    BY <1>1, <2>1, <2>2
<1>3. k * Day >= 0 /\ (k >= 1 => k * Day >= Day) /\ k * Day \in Int
  BY <1>1, <1>2
<1>4. n <= x
  BY <1>1, <1>3
<1>5. ASSUME x >= 1, n = 0 PROVE Day <= x
  <2>1. k # 0
    BY <1>1, <1>5
  <2> QED
    BY <1>1, <1>2, <1>3, <1>5, <2>1
<1> QED
  BY <1>1, <1>4, <1>5 DEF Before

-----------------------------------------------------------------------------
(* The inductive invariant of rtc::sleep. *)

ClockTypes ==
  /\ now \in 0 .. Day - 1 /\ start \in 0 .. Day - 1 /\ elapsed \in 0 .. ElapsedCap /\ arg \in Nat
  /\ torn \in BOOLEAN /\ settled \in BOOLEAN /\ timeWanted \in Int
  /\ pc \in {"first", "poll", "done"}

\* What time() has read is the time, or one tick old.
RegsInv ==
  /\ regs \in Seq(Nat) /\ Len(regs) <= 2
  /\ ~torn => /\ Len(regs) >= 1 => regs[1] = HourOf(now)
              /\ Len(regs) = 2 => regs[2] = MinuteOf(now)
  /\ torn => /\ ~settled /\ Len(regs) >= 1 /\ regs[1] = HourOf(Before(now))
             /\ Len(regs) = 2 => regs[2] \in {MinuteOf(Before(now)), MinuteOf(now)}

\* elapsed counts what the clock counts, until it reaches its cap.
Counting == elapsed # ElapsedCap
CountInv ==
  Counting => (torn => elapsed >= 1) /\ \E k \in Int : start + elapsed = now + k * Day

\* At most one tick passes before sleep has read its start.
FirstInv == pc = "first" /\ Counting => elapsed = IF settled THEN 0 ELSE 1

\* A tick has passed, and none since time() was called but the one after it.
Ticked == elapsed >= 1 /\ (torn => elapsed >= 2)

\* The end of the wait: right or late; counted from midnight, because the
\* clock got there while the start was read; or too early, because it was read
\* across a carry.
EndRight == timeWanted >= start + arg
EndMidnight == Ticked /\ start = Day - 1 /\ timeWanted = arg
EndEarly ==
  /\ Ticked /\ SecondOf(start + 1) = 0
  /\ \E k \in {Seconds, Minutes * Seconds} : timeWanted = start + 1 - k + arg

PollInv == pc = "poll" /\ Counting => EndRight \/ EndMidnight \/ EndEarly

ClockInv == ClockTypes /\ RegsInv /\ CountInv /\ FirstInv /\ PollInv /\ SleepNotEarly

\* What time() returns.
LEMMA TimeValue ==
  ASSUME ClockTypes, RegsInv, Len(regs) = 2
  PROVE  LET v == Time(regs[1], regs[2], bcptobin(CMOS[3]))
         IN  /\ v \in Int
             /\ \/ v = now
                \/ /\ torn /\ SecondOf(now) = 0
                   /\ \E k \in {Seconds, Minutes * Seconds} : v = Before(now) + 1 - k
<1> DEFINE v == Time(regs[1], regs[2], bcptobin(CMOS[3]))
<1>1. now \in Nat /\ now \in 0 .. Day - 1 /\ Day \in Nat \ {0}
  BY DayFacts DEF ClockTypes
<1>2. v = Time(regs[1], regs[2], SecondOf(now))
  BY <1>1, ChipRead
<1>3. v \in Int
  <2>1. regs[1] \in Nat /\ regs[2] \in Nat
    BY DEF RegsInv
  <2>2. SecondOf(now) \in Nat /\ Minutes \in Nat /\ Seconds \in Nat
    BY <1>1, Parts, ClockAssumption
  <2> QED
    BY <1>2, <2>1, <2>2 DEF Time
<1>4. ASSUME ~torn PROVE v = now
  <2>1. regs[1] = HourOf(now) /\ regs[2] = MinuteOf(now)
    BY <1>4 DEF RegsInv
  <2> QED
    BY <1>1, <1>2, <2>1, WholeRead
<1>5. ASSUME torn
      PROVE  v = now \/ (SecondOf(now) = 0 /\ \E k \in {Seconds, Minutes * Seconds} : v = Before(now) + 1 - k)
  <2> DEFINE n == Before(now) + 1
  <2>1. regs[1] = HourOf(Before(now)) /\ regs[2] \in {MinuteOf(Before(now)), MinuteOf(now)}
    BY <1>5 DEF RegsInv
  <2>2. n \in Nat \ {0} /\ n - 1 = Before(now) /\ (now # 0 => n = now) /\ (now = 0 => n = Day)
    BY <1>1 DEF Before
  <2>3. MinuteOf(n) = MinuteOf(now) /\ SecondOf(n) = SecondOf(now)
    <3>1. CASE now = 0
      BY <2>2, <3>1, DayFacts
    <3>2. CASE now # 0
      BY <2>2, <3>2
    <3> QED
      BY <3>1, <3>2
  <2> HIDE DEF n
  <2>4. v = n \/ (SecondOf(now) = 0 /\ v \in {n - Seconds, n - Minutes * Seconds})
    <3>1. regs[2] \in {MinuteOf(n - 1), MinuteOf(n)} /\ regs[1] = HourOf(n - 1)
      BY <2>1, <2>2, <2>3
    <3>2. v = Time(HourOf(n - 1), regs[2], SecondOf(n))
      BY <1>2, <2>3, <3>1
    <3> HIDE DEF v
    <3> QED
      BY <2>2, <2>3, <3>1, <3>2, TornRead
  <2>5. v < Day
    <3>1. Before(now) \in 0 .. Day - 1
      BY <1>1 DEF Before
    <3>2. regs[1] \in 0 .. Hours - 1
      BY <2>1, <3>1, HourInDay
    <3>3. regs[2] \in 0 .. Minutes - 1 /\ SecondOf(now) \in 0 .. Seconds - 1
      BY <1>1, <2>1, <3>1, Parts
    <3> QED
      BY <1>2, <3>2, <3>3, ValueInDay
  <2> HIDE DEF v
  <2>6. v = n => now # 0
    BY <1>1, <1>3, <2>2, <2>5
  <2>7. v \in {n - Seconds, n - Minutes * Seconds} => \E k \in {Seconds, Minutes * Seconds} : v = n - k
    BY Zenon
  <2>8. v = n => v = now
    BY <2>2, <2>6
  <2>9. v = now \/ (SecondOf(now) = 0 /\ \E k \in {Seconds, Minutes * Seconds} : v = n - k)
    BY <2>4, <2>7, <2>8, Zenon
  <2>10. \A k \in {Seconds, Minutes * Seconds} : n - k = Before(now) + 1 - k
    BY <1>1, DayFacts DEF n, Before
  <2> QED
    BY <2>9, <2>10
<1> HIDE DEF v
<1>6. v = now \/ (torn /\ SecondOf(now) = 0 /\ \E k \in {Seconds, Minutes * Seconds} : v = Before(now) + 1 - k)
  BY <1>4, <1>5 DEF ClockTypes
<1> QED
  BY <1>3, <1>6 DEF v

\* What time() may return, relative to the seconds x counted without
\* reduction and the clock at n: not ahead of x.
ReadAt(v, x, n) ==
  v = n \/ (x >= 1 /\ \E k \in {Seconds, Minutes * Seconds} : v = Before(n) + 1 - k)

LEMMA ReadBehind ==
  ASSUME NEW v \in Int, NEW x \in Nat, NEW n \in 0 .. Day - 1, NEW k \in Int, x = n + k * Day, ReadAt(v, x, n)
  PROVE  v <= x
<1>1. n <= x /\ (x >= 1 => Before(n) + 1 <= x)
  BY CountAhead
<1>2. Before(n) \in Int /\ n \in Int
  BY DayFacts DEF Before
<1>3. \A d \in {Seconds, Minutes * Seconds} : d \in Nat
  BY DayFacts
<1>4. CASE v = n
  BY <1>1, <1>4
<1>5. CASE x >= 1 /\ \E d \in {Seconds, Minutes * Seconds} : v = Before(n) + 1 - d
  <2>1. PICK d \in {Seconds, Minutes * Seconds} : v = Before(n) + 1 - d
    BY <1>5
  <2>2. d \in Nat /\ Before(n) + 1 <= x
    BY <1>1, <1>3, <1>5
  <2> QED
    BY <1>2, <2>1, <2>2
<1> QED
  BY <1>4, <1>5 DEF ReadAt

(***************************************************************************)
(* A poll that sees the end of the wait sees it too early only if the      *)
(* start was read across a carry and at least a minute was asked for.      *)
(***************************************************************************)
LEMMA PollNotEarly ==
  ASSUME ClockInv, pc = "poll", Counting, elapsed < arg,
         NEW v, v \in Int, v = timeWanted,
         \/ v = now
         \/ /\ torn /\ SecondOf(now) = 0
            /\ \E k \in {Seconds, Minutes * Seconds} : v = Before(now) + 1 - k
  PROVE  timeWanted < start + arg /\ arg >= Seconds
<1>1. /\ now \in 0 .. Day - 1 /\ start \in 0 .. Day - 1 /\ elapsed \in Nat /\ arg \in Nat
      /\ start \in Nat /\ now \in Nat
  BY DayFacts, ClockAssumption DEF ClockInv, ClockTypes
<1>2. PICK k \in Int : start + elapsed = now + k * Day
  BY DEF ClockInv, CountInv
<1>3. /\ Day \in Nat \ {0} /\ Seconds \in Nat \ {0, 1} /\ Minutes * Seconds \in Nat
      /\ Seconds <= Minutes * Seconds /\ Minutes * Seconds <= Day
  BY DayFacts
<1>4. ASSUME torn => elapsed >= 1 PROVE v <= start + elapsed
  <2>1. start + elapsed \in Nat /\ (torn => start + elapsed >= 1)
    BY <1>1, <1>4
  <2>2. ReadAt(v, start + elapsed, now)
    BY <2>1 DEF ReadAt
  <2> QED
    BY <1>1, <1>2, <2>1, <2>2, ReadBehind
\* Counted from the midnight at which the start was read.
<1>5. ASSUME Ticked, start = Day - 1 PROVE v <= elapsed - 1
  <2>1. elapsed - 1 \in Nat /\ (torn => elapsed - 1 >= 1)
    BY <1>1, <1>5 DEF Ticked
  <2>2. ReadAt(v, elapsed - 1, now)
    BY <2>1 DEF ReadAt
  <2>3. elapsed - 1 = now + (k - 1) * Day
    <3>1. (k - 1) * Day = k * Day - Day /\ k * Day \in Int
      BY <1>3
    <3> QED
      BY <1>1, <1>2, <1>3, <1>5, <3>1
  <2>4. k - 1 \in Int
    OBVIOUS
  <2> QED
    BY <1>1, <2>1, <2>2, <2>3, <2>4, ReadBehind
<1>6. EndRight \/ EndMidnight \/ EndEarly
  BY DEF ClockInv, PollInv
<1>7. CASE EndRight
  <2>1. torn => elapsed >= 1
    BY DEF ClockInv, CountInv
  <2>2. v <= start + elapsed
    BY <1>4, <2>1
  <2> QED
    BY <1>1, <1>7, <2>2 DEF EndRight
<1>8. CASE EndMidnight
  BY <1>1, <1>5, <1>8 DEF EndMidnight
<1>9. CASE EndEarly
  <2>1. PICK d \in {Seconds, Minutes * Seconds} : timeWanted = start + 1 - d + arg
    BY <1>9 DEF EndEarly
  <2>2. d \in Nat /\ d >= Seconds /\ d <= Day
    BY <1>3
  <2>3. timeWanted < start + arg
    BY <1>1, <1>3, <2>1, <2>2
  <2>4. ASSUME arg < Seconds PROVE FALSE
    <3>1. CASE start = Day - 1
      <4>1. v <= elapsed - 1
        BY <1>5, <1>9, <3>1 DEF EndEarly
      <4>2. timeWanted >= arg
        BY <1>1, <1>3, <2>1, <2>2, <3>1
      <4> QED
        BY <1>1, <4>1, <4>2
    <3>2. CASE start # Day - 1
      <4>0. PICK c \in Int : start + 1 = c * Seconds /\ c * Seconds + Seconds <= Day
        BY <1>1, <1>9, <3>2, MinuteInDay DEF EndEarly
      <4>1. start + Seconds + 1 <= Day
        BY <1>1, <1>3, <4>0
      <4>2. start + elapsed \in 0 .. Day - 1
        BY <1>1, <1>3, <2>4, <4>1
      <4>3. now = start + elapsed
        BY <1>1, <1>2, <4>2, SameDay
      <4>4. torn => SecondOf(now) # 0
        <5> SUFFICES ASSUME torn PROVE SecondOf(now) # 0
          OBVIOUS
        <5>1. elapsed - 1 \in 1 .. Seconds - 1
          BY <1>1, <1>3, <1>9, <2>4 DEF EndEarly, Ticked
        <5>2. now = c * Seconds + (elapsed - 1)
          <6>1. c * Seconds \in Int
            BY <1>3
          <6> QED
            BY <1>1, <4>0, <4>3, <6>1
        <5>3. Seconds \in Nat \ {0} /\ elapsed - 1 \in 0 .. Seconds - 1 /\ elapsed - 1 # 0
          BY <1>1, <1>3, <5>1
        <5>4. now % Seconds = elapsed - 1
          BY <5>2, <5>3, Divided
        <5> QED
          BY <5>3, <5>4 DEF SecondOf
      <4>5. v = now
        BY <4>4
      <4> QED
        BY <1>1, <1>3, <1>9, <2>1, <2>2, <2>4, <4>3, <4>5 DEF EndEarly, Ticked
    <3> QED
      BY <3>1, <3>2
  <2> QED
    BY <1>1, <1>3, <2>3, <2>4
<1> QED
  BY <1>6, <1>7, <1>8, <1>9

\* A Tick step (the real-time clock counts one second) preserves the invariant.
LEMMA TickKeeps ==
  ASSUME ClockInv, Tick
  PROVE  ClockInv'
<1>1. /\ settled /\ now' = (now + 1) % Day /\ settled' = FALSE /\ torn' = (regs # << >>)
      /\ elapsed' = IF elapsed < ElapsedCap THEN elapsed + 1 ELSE elapsed
      /\ UNCHANGED <<start, arg, regs, timeWanted, pc>>
  BY DEF Tick
<1>2. /\ now \in 0 .. Day - 1 /\ start \in 0 .. Day - 1 /\ elapsed \in 0 .. ElapsedCap /\ arg \in Nat
      /\ Day \in Nat \ {0} /\ ElapsedCap \in Nat /\ now \in Nat
  BY DayFacts, ClockAssumption DEF ClockInv, ClockTypes
<1>3. ~torn
  BY <1>1 DEF ClockInv, RegsInv
<1>4. /\ now' \in 0 .. Day - 1 /\ Before(now') = now
      /\ \E k \in Int : now + 1 = now' + k * Day
  <2>1. CASE now = Day - 1
    <3>1. Day % Day = 0 /\ now + 1 = Day
      <4>1. Day = 1 * Day + 0 /\ 0 \in 0 .. Day - 1 /\ 1 \in Int
        BY <1>2
      <4>2. Day % Day = 0
        BY <1>2, <4>1, Divided
      <4> QED
        BY <1>2, <2>1, <4>2
    <3>2. now' = 0
      BY <1>1, <3>1
    <3>3. now + 1 = now' + 1 * Day
      BY <1>2, <3>1, <3>2
    <3> QED
      BY <1>2, <2>1, <3>2, <3>3 DEF Before
  <2>2. CASE now # Day - 1
    <3>1. (now + 1) % Day = now + 1
      <4>1. now + 1 = 0 * Day + (now + 1) /\ now + 1 \in 0 .. Day - 1
        BY <1>2, <2>2
      <4>2. (0 * Day + (now + 1)) % Day = now + 1
        BY <1>2, <4>1, Divided
      <4> QED
        BY <4>1, <4>2
    <3>2. now' = now + 1
      BY <1>1, <3>1
    <3>3. now + 1 = now' + 0 * Day
      BY <1>2, <3>2
    <3> QED
      BY <1>2, <2>2, <3>2, <3>3 DEF Before
  <2> QED
    BY <2>1, <2>2
<1>5. /\ elapsed' \in 0 .. ElapsedCap
      /\ Counting' => Counting /\ elapsed' = elapsed + 1
  BY <1>1, <1>2 DEF Counting
<1>6. ClockTypes'
  BY <1>1, <1>4, <1>5 DEF ClockInv, ClockTypes
<1>7. RegsInv'
  <2>1. /\ regs \in Seq(Nat) /\ Len(regs) <= 2
        /\ Len(regs) >= 1 => regs[1] = HourOf(now)
        /\ Len(regs) = 2 => regs[2] = MinuteOf(now)
    BY <1>3 DEF ClockInv, RegsInv
  <2>2. CASE regs = << >>
    <3>1. Len(regs) = 0
      BY <2>2
    <3>2. regs' = regs
      BY <1>1
    <3>3. ~torn'
      BY <1>1, <2>2, Zenon
    <3>4. Len(regs') = 0 /\ regs' \in Seq(Nat)
      BY <2>1, <3>1, <3>2
    <3> QED
      BY <3>3, <3>4 DEF RegsInv
  <2>3. CASE regs # << >>
    <3>1. Len(regs) >= 1
      BY <2>1, <2>3
    <3>2. torn' = TRUE /\ settled' = FALSE /\ regs' = regs
      BY <1>1, <2>3
    <3>3. regs[1] = HourOf(Before(now')) /\ (Len(regs) = 2 => regs[2] = MinuteOf(Before(now')))
      BY <1>4, <2>1, <3>1
    <3> QED
      BY <2>1, <3>1, <3>2, <3>3 DEF RegsInv
  <2> QED
    BY <2>2, <2>3
<1>8. CountInv'
  <2> SUFFICES ASSUME Counting' PROVE elapsed' >= 1 /\ \E k \in Int : start' + elapsed' = now' + k * Day
    BY DEF CountInv
  <2>1. PICK k \in Int : start + elapsed = now + k * Day
    BY <1>5 DEF ClockInv, CountInv
  <2>2. PICK l \in Int : now + 1 = now' + l * Day
    BY <1>4
  <2>3. k * Day \in Int /\ l * Day \in Int /\ (k + l) * Day = k * Day + l * Day /\ k + l \in Int
    BY <1>2
  <2>4. now' \in Int /\ elapsed' = elapsed + 1
    BY <1>2, <1>4, <1>5
  <2>5. start + elapsed' = now' + (k + l) * Day
    <3>1. PICK a \in Int : a = k * Day
      BY <2>3
    <3>2. PICK b \in Int : b = l * Day
      BY <2>3
    <3>3. PICK n1 \in Int : n1 = now'
      BY <2>4
    <3>4. PICK s \in Int : s = start
      BY <1>2
    <3>5. PICK e \in Int : e = elapsed
      BY <1>2
    <3>6. PICK n \in Int : n = now
      BY <1>2
    <3>7. s + e = n + a
      BY <2>1, <3>1, <3>4, <3>5, <3>6
    <3>8. n + 1 = n1 + b
      BY <2>2, <3>2, <3>3, <3>6
    <3>9. s + (e + 1) = n1 + (a + b)
      BY <3>7, <3>8
    <3>10. start + elapsed' = now' + (a + b)
      BY <2>4, <3>3, <3>4, <3>5, <3>9
    <3> QED
      BY <2>3, <3>1, <3>2, <3>10
  <2>6. elapsed' >= 1
    BY <1>2, <2>4
  <2>7. \E j \in Int : start + elapsed' = now' + j * Day
    BY <2>3, <2>5
  <2> QED
    BY <1>1, <2>6, <2>7
<1>9. FirstInv'
  BY <1>1, <1>5 DEF ClockInv, FirstInv
<1>10. PollInv'
  <2> SUFFICES ASSUME pc' = "poll", Counting' PROVE EndRight' \/ EndMidnight' \/ EndEarly'
    BY DEF PollInv
  <2>1. elapsed' = elapsed + 1 /\ (EndRight \/ EndMidnight \/ EndEarly)
    BY <1>1, <1>5 DEF ClockInv, PollInv
  <2>2. Ticked => Ticked'
    BY <1>2, <2>1 DEF Ticked
  <2> QED
    BY <1>1, <2>1, <2>2 DEF EndRight, EndMidnight, EndEarly, SecondOf
<1>11. SleepNotEarly'
  BY <1>1, <1>2, <1>5 DEF ClockInv, SleepNotEarly, Counting
<1> QED
  BY <1>6, <1>7, <1>8, <1>9, <1>10, <1>11 DEF ClockInv

\* Append leaves what the sequence held.
LEMMA Appended ==
  ASSUME NEW r \in Seq(Nat), NEW m \in Nat, NEW i \in 1 .. Len(r)
  PROVE  Append(r, m)[i] = r[i]
OBVIOUS

\* What Append makes of a sequence of one number, and the numbers below two.
LEMMA SecondAppended ==
  ASSUME NEW r \in Seq(Nat), Len(r) = 1, NEW m \in Nat
  PROVE  /\ Len(Append(r, m)) = 2 /\ Append(r, m)[1] = r[1] /\ Append(r, m)[2] = m
         /\ Append(r, m) \in Seq(Nat)
<1>1. /\ Append(r, m) \in Seq(Nat) /\ Len(Append(r, m)) = Len(r) + 1
      /\ Append(r, m)[Len(r) + 1] = m
  OBVIOUS
<1>2. \A i \in 1 .. Len(r) : Append(r, m)[i] = r[i]
  BY Appended
<1>3. 1 \in 1 .. Len(r) /\ Len(r) + 1 = 2
  OBVIOUS
<1> QED
  BY <1>1, <1>2, <1>3

LEMMA BelowTwo ==
  ASSUME NEW n \in Nat, n < 2
  PROVE  n = 0 \/ n = 1
OBVIOUS

\* A ReadRegister step (a CMOS read of the hour or the minute) preserves the invariant.
LEMMA ReadRegisterKeeps ==
  ASSUME ClockInv, ReadRegister
  PROVE  ClockInv'
<1>1. /\ Len(regs) < 2 /\ regs' = Append(regs, bcptobin(CMOS[Len(regs) + 1]))
      /\ UNCHANGED <<now, start, elapsed, arg, torn, settled, timeWanted, pc>>
  BY DEF ReadRegister
<1>2. now \in Nat /\ regs \in Seq(Nat) /\ Len(regs) \in Nat
  BY DayFacts DEF ClockInv, ClockTypes, RegsInv
<1>3. /\ bcptobin(CMOS[1]) = HourOf(now) /\ bcptobin(CMOS[2]) = MinuteOf(now)
      /\ HourOf(now) \in Nat /\ MinuteOf(now) \in Nat
  BY <1>2, ChipRead, Parts, ClockAssumption
<1>4. RegsInv'
  <2>1. CASE Len(regs) = 0
    <3>1. regs' = Append(regs, HourOf(now))
      BY <1>1, <1>3, <2>1
    <3>2. Len(regs') = 1 /\ regs'[1] = HourOf(now) /\ regs' \in Seq(Nat)
      BY <1>2, <1>3, <2>1, <3>1
    <3>3. ~torn
      BY <2>1 DEF ClockInv, RegsInv
    <3> QED
      BY <1>1, <3>2, <3>3 DEF RegsInv
  <2>2. CASE Len(regs) = 1
    <3>1. regs' = Append(regs, MinuteOf(now))
      BY <1>1, <1>3, <2>2
    <3>2. Len(regs') = 2 /\ regs'[1] = regs[1] /\ regs'[2] = MinuteOf(now) /\ regs' \in Seq(Nat)
      <4> DEFINE m == MinuteOf(now)
      <4>1. m \in Nat /\ regs' = Append(regs, m)
        BY <1>3, <3>1
      <4> HIDE DEF m
      <4>2. Len(regs') = 2 /\ regs'[1] = regs[1] /\ regs'[2] = m /\ regs' \in Seq(Nat)
        BY <1>2, <2>2, <4>1, SecondAppended
      <4> QED
        BY <4>2 DEF m
    <3> QED
      BY <1>1, <2>2, <3>2 DEF ClockInv, RegsInv
  <2>3. Len(regs) = 0 \/ Len(regs) = 1
    <3>1. Len(regs) < 2
      BY DEF ReadRegister
    <3>2. Len(regs) \in Nat
      BY <1>2
    <3> QED
      BY <3>1, <3>2, BelowTwo
  <2> QED
    BY <2>1, <2>2, <2>3
<1> QED
  BY <1>1, <1>4 DEF ClockInv, ClockTypes, CountInv, FirstInv, PollInv, SleepNotEarly, Counting,
                    EndRight, EndMidnight, EndEarly, Ticked, SecondOf

\* A ReadSecond step (time() returns to sleep) preserves the invariant.
LEMMA ReadSecondKeeps ==
  ASSUME ClockInv, ReadSecond
  PROVE  ClockInv'
<1> DEFINE v == Time(regs[1], regs[2], bcptobin(CMOS[3]))
<1>1. /\ Len(regs) = 2 /\ pc # "done" /\ regs' = << >> /\ torn' = FALSE /\ settled' = (settled \/ ~torn)
      /\ UNCHANGED <<now, start, elapsed, arg>>
  BY DEF ReadSecond
<1>2. /\ pc = "first" => timeWanted' = v + arg /\ pc' = "poll"
      /\ pc # "first" => pc' = (IF v # timeWanted THEN "poll" ELSE "done") /\ timeWanted' = timeWanted
  BY DEF ReadSecond, Wanted
<1>3. /\ v \in Int
      /\ \/ v = now
         \/ /\ torn /\ SecondOf(now) = 0
            /\ \E k \in {Seconds, Minutes * Seconds} : v = Before(now) + 1 - k
  BY <1>1, TimeValue DEF ClockInv
<1> HIDE DEF v
<1>4. /\ now \in 0 .. Day - 1 /\ start \in 0 .. Day - 1 /\ elapsed \in 0 .. ElapsedCap /\ arg \in Nat
      /\ Day \in Nat \ {0} /\ ElapsedCap \in Nat /\ now \in Nat /\ start \in Nat /\ elapsed \in Nat
      /\ timeWanted \in Int
  BY DayFacts, ClockAssumption DEF ClockInv, ClockTypes
<1>5. timeWanted' \in Int
  BY <1>2, <1>3, <1>4
<1>6. ClockTypes'
  BY <1>1, <1>2, <1>4, <1>5 DEF ClockInv, ClockTypes
<1>7. RegsInv'
  BY <1>1 DEF RegsInv
<1>8. CountInv'
  BY <1>1 DEF ClockInv, CountInv, Counting
<1>9. pc' # "first"
  BY <1>2
<1>10. ASSUME pc = "first", Counting PROVE EndRight' \/ EndMidnight' \/ EndEarly'
  <2>1. PICK k \in Int : start + elapsed = now + k * Day
    BY <1>10 DEF ClockInv, CountInv
  <2>2. elapsed = IF settled THEN 0 ELSE 1
    BY <1>10 DEF ClockInv, FirstInv
  <2>3. CASE settled
    <3>1. ~torn /\ elapsed = 0
      BY <2>2, <2>3 DEF ClockInv, RegsInv
    <3>2. start = now + k * Day
      BY <1>4, <2>1, <3>1
    <3>3. start = now
      BY <1>4, <3>2, SameDay
    <3>4. timeWanted' = start + arg
      BY <1>2, <1>3, <1>10, <3>1, <3>3
    <3> QED
      BY <1>1, <1>4, <3>4 DEF EndRight
  <2>4. CASE ~settled
    <3>1. elapsed = 1 /\ elapsed' = 1 /\ start + 1 = now + k * Day
      BY <1>1, <2>1, <2>2, <2>4
    <3>2. Ticked'
      BY <1>1, <3>1 DEF Ticked
    <3>3. /\ Before(now) = start /\ SecondOf(start + 1) = SecondOf(now)
          /\ now = start + 1 \/ (now = 0 /\ start = Day - 1)
      <4>1. CASE start = Day - 1
        <5>1. 0 = now + (k - 1) * Day /\ k - 1 \in Int /\ 0 \in 0 .. Day - 1
          <6>1. (k - 1) * Day = k * Day - Day /\ k * Day \in Int
            BY <1>4
          <6> QED
            BY <1>4, <3>1, <4>1, <6>1
        <5>2. now = 0
          BY <1>4, <5>1, SameDay
        <5>3. start + 1 = Day
          BY <1>4, <4>1
        <5> QED
          BY <4>1, <5>2, <5>3, DayFacts DEF Before
      <4>2. CASE start # Day - 1
        <5>1. start + 1 \in 0 .. Day - 1
          BY <1>4, <4>2
        <5>2. now = start + 1
          BY <1>4, <3>1, <5>1, SameDay
        <5> QED
          BY <1>4, <5>2 DEF Before
      <4> QED
        BY <4>1, <4>2
    <3>4. timeWanted' = v + arg
      BY <1>2, <1>10
    <3>5. CASE v = now
      <4>1. CASE now = start + 1
        BY <1>1, <1>4, <3>4, <3>5, <4>1 DEF EndRight
      <4>2. CASE now = 0 /\ start = Day - 1
        BY <1>1, <1>4, <3>2, <3>4, <3>5, <4>2 DEF EndMidnight
      <4> QED
        BY <3>3, <4>1, <4>2
    <3>6. CASE torn /\ SecondOf(now) = 0 /\ \E d \in {Seconds, Minutes * Seconds} : v = Before(now) + 1 - d
      <4>1. PICK d \in {Seconds, Minutes * Seconds} : v = start + 1 - d
        BY <3>3, <3>6
      <4>2. d \in Nat
        BY DayFacts
      <4>3. timeWanted' = start + 1 - d + arg
        BY <1>4, <3>4, <4>1, <4>2
      <4>4. SecondOf(start + 1) = 0
        BY <3>3, <3>6
      <4>5. \E e \in {Seconds, Minutes * Seconds} : timeWanted' = start + 1 - e + arg
        BY <4>3
      <4> QED
        BY <1>1, <3>2, <4>4, <4>5 DEF EndEarly, SecondOf
    <3> QED
      BY <1>3, <3>5, <3>6
  <2> QED
    BY <2>3, <2>4
<1>11. PollInv'
  <2> SUFFICES ASSUME pc' = "poll", Counting' PROVE EndRight' \/ EndMidnight' \/ EndEarly'
    BY DEF PollInv
  <2>1. Counting
    BY <1>1 DEF Counting
  <2>2. CASE pc = "first"
    BY <1>10, <2>1, <2>2
  <2>3. CASE pc # "first"
    <3>1. timeWanted' = timeWanted /\ pc = "poll"
      BY <1>1, <1>2, <2>3 DEF ClockInv, ClockTypes
    <3>2. EndRight \/ EndMidnight \/ EndEarly
      BY <2>1, <3>1 DEF ClockInv, PollInv
    <3>3. Ticked => Ticked'
      BY <1>1 DEF Ticked
    <3> QED
      BY <1>1, <3>1, <3>2, <3>3 DEF EndRight, EndMidnight, EndEarly, SecondOf
  <2> QED
    BY <2>2, <2>3
<1>12. SleepNotEarly'
  <2> SUFFICES ASSUME pc' = "done", elapsed < arg, Counting
               PROVE  timeWanted' < start + arg /\ arg >= Seconds
    BY <1>1, <1>4 DEF SleepNotEarly, Counting
  <2>1. pc = "poll" /\ v = timeWanted /\ timeWanted' = timeWanted
    BY <1>1, <1>2 DEF ClockInv, ClockTypes
  <2> QED
    BY <1>3, <2>1, PollNotEarly
<1> QED
  BY <1>6, <1>7, <1>8, <1>9, <1>11, <1>12 DEF ClockInv, FirstInv

SleepSpec == ClockInit /\ [][Tick \/ ReadRegister \/ ReadSecond]_clockVars

(***************************************************************************)
(* rtc::sleep returns before its time only if the start was read across a  *)
(* carry and at least a minute was asked for, whenever the clock ticks     *)
(* between the reads of its registers, at every time of day, for every     *)
(* argument.                                                               *)
(***************************************************************************)
THEOREM SleepNeverEarly == SleepSpec => []SleepNotEarly
<1>1. ClockInit => ClockInv
  <2> SUFFICES ASSUME ClockInit PROVE ClockInv
    OBVIOUS
  <2>1. /\ now \in 0 .. Day - 1 /\ start = now /\ elapsed = 0 /\ arg \in 0 .. Longest /\ regs = << >>
        /\ torn = FALSE /\ settled = TRUE /\ timeWanted = 0 /\ pc = "first"
    BY DEF ClockInit
  <2>2. Day \in Nat \ {0} /\ ElapsedCap \in Nat /\ Longest \in Nat
    BY DayFacts, ClockAssumption
  <2>3. ClockTypes
    <3>1. elapsed \in 0 .. ElapsedCap /\ arg \in Nat /\ timeWanted \in Int
      BY <2>1, <2>2
    <3> QED
      BY <2>1, <3>1 DEF ClockTypes
  <2>4. RegsInv
    BY <2>1 DEF RegsInv
  <2>5. CountInv
    <3>1. start + elapsed = now + 0 * Day
      BY <2>1, <2>2
    <3> QED
      BY <2>1, <3>1 DEF CountInv
  <2> QED
    BY <2>1, <2>3, <2>4, <2>5 DEF ClockInv, FirstInv, PollInv, SleepNotEarly
<1>2. ClockInv /\ [Tick \/ ReadRegister \/ ReadSecond]_clockVars => ClockInv'
  <2> SUFFICES ASSUME ClockInv, [Tick \/ ReadRegister \/ ReadSecond]_clockVars PROVE ClockInv'
    OBVIOUS
  <2>1. CASE UNCHANGED clockVars
    BY <2>1 DEF clockVars, ClockInv, ClockTypes, RegsInv, CountInv, FirstInv, PollInv, SleepNotEarly,
                Counting, EndRight, EndMidnight, EndEarly, Ticked, SecondOf, HourOf, MinuteOf, Before
  <2>2. CASE Tick
    BY <2>2, TickKeeps
  <2>3. CASE ReadRegister
    BY <2>3, ReadRegisterKeeps
  <2>4. CASE ReadSecond
    BY <2>4, ReadSecondKeeps
  <2> QED
    BY <2>1, <2>2, <2>3, <2>4
<1>3. ClockInv => SleepNotEarly
  BY DEF ClockInv
<1> QED
  BY <1>1, <1>2, <1>3, PTL DEF SleepSpec

-----------------------------------------------------------------------------
(* How long the waits are. *)

\* The quotient and what is left of it.
LEMMA Quotient ==
  ASSUME NEW a \in Nat, NEW d \in Nat \ {0}
  PROVE  /\ a \div d \in Nat
         /\ (a \div d) * d \in Nat
         /\ (a \div d) * d <= a /\ a < (a \div d) * d + d
<1>1. a \div d \in Nat /\ a % d \in 0 .. d - 1 /\ a = d * (a \div d) + (a % d)
  OBVIOUS
<1>2. d * (a \div d) = (a \div d) * d /\ (a \div d) * d \in Nat
  BY <1>1
<1> QED
  BY <1>1, <1>2

\* A product divided by one of its factors.
LEMMA WholeQuotient ==
  ASSUME NEW a \in Nat, NEW d \in Nat \ {0}
  PROVE  (a * d) \div d = a
OBVIOUS

\* What InUs rounds up to.
LEMMA RoundedUp ==
  ASSUME NEW n \in Nat
  PROVE  InUs(n) \in Nat /\ n <= InUs(n) * PerUs /\ InUs(n) * PerUs < n + PerUs
<1>1. PerUs \in Nat \ {0} /\ n + PerUs - 1 \in Nat
  BY ClockAssumption
<1> DEFINE a == n + PerUs - 1
           q == a \div PerUs
<1>2. a \in Nat
  BY <1>1
<1> HIDE DEF a
<1>3. q \in Nat /\ q * PerUs \in Nat /\ q * PerUs <= a /\ a < q * PerUs + PerUs
  BY <1>1, <1>2, Quotient
<1>4. InUs(n) = q
  BY DEF InUs, a
<1> HIDE DEF q
<1> QED
  BY <1>1, <1>3, <1>4 DEF a

\* Multiples of PerUs in order.
LEMMA UsOrder ==
  ASSUME NEW a \in Int, NEW b \in Int
  PROVE  a * PerUs \in Int /\ (a * PerUs < b * PerUs => a < b) /\ (a < b => a * PerUs + PerUs <= b * PerUs)
<1>1. PerUs \in Nat \ {0}
  BY ClockAssumption
<1>2. ASSUME NEW x \in Int, NEW y \in Int, x <= y PROVE x * PerUs <= y * PerUs
  BY <1>1, <1>2
<1>3. a * PerUs \in Int /\ b * PerUs \in Int /\ (a + 1) * PerUs = a * PerUs + PerUs
  BY <1>1
<1>4. a < b => a * PerUs + PerUs <= b * PerUs
  <2>1. a < b => a + 1 <= b
    OBVIOUS
  <2> QED
    BY <1>2, <1>3, <2>1
<1>5. b <= a => b * PerUs <= a * PerUs
  BY <1>2
<1> QED
  BY <1>3, <1>4, <1>5

\* A wait on the HPET is short of what was asked by less than a period.
LEMMA HpetShort ==
  ASSUME NEW clock \in Nat \ {0}, NEW us \in Nat, NEW h, h.clock = clock
  PROVE  us - hpet_uSleep(h, us) \in 0 .. InUs(clock) - 1
<1> DEFINE ns == us * PerUs
           waited == (ns \div clock) * clock
           w == InUs(waited)
           g == InUs(clock)
<1>1. PerUs \in Nat \ {0} /\ ns \in Nat
  BY ClockAssumption
<1>2. waited \in Nat /\ waited <= ns /\ ns < waited + clock
  <2> HIDE DEF ns
  <2> QED
    BY <1>1, Quotient
<1> HIDE DEF waited
<1>3. w \in Nat /\ waited <= w * PerUs /\ w * PerUs < waited + PerUs
  BY <1>2, RoundedUp
<1>4. g \in Nat /\ clock <= g * PerUs
  BY RoundedUp
<1>5. hpet_uSleep(h, us) = w
  BY DEF hpet_uSleep, waited
<1> HIDE DEF w, g
<1>6. w <= us
  <2>1. w * PerUs \in Int /\ us * PerUs \in Int /\ (us + 1) * PerUs = us * PerUs + PerUs
    BY <1>1, <1>3
  <2>2. w * PerUs < (us + 1) * PerUs
    BY <1>1, <1>2, <1>3, <2>1
  <2>3. us + 1 \in Int /\ w \in Int
    BY <1>3
  <2>4. w < us + 1
    BY <2>2, <2>3, UsOrder
  <2> QED
    BY <1>3, <2>4
<1>7. us < w + g
  <2>1. (w + g) * PerUs = w * PerUs + g * PerUs /\ w * PerUs \in Int /\ g * PerUs \in Int
    BY <1>1, <1>3, <1>4
  <2>2. us * PerUs < (w + g) * PerUs
    BY <1>1, <1>2, <1>3, <1>4, <2>1
  <2>3. us \in Int /\ w + g \in Int
    BY <1>3, <1>4
  <2> QED
    BY <2>2, <2>3, UsOrder
<1>8. us - w \in 0 .. g - 1
  BY <1>3, <1>4, <1>6, <1>7
<1> QED
  BY <1>5, <1>8 DEF g

\* The PIT at k hundreds of hertz: its ticks make up the whole wait.
LEMMA PitExact ==
  ASSUME NEW k \in Nat \ {0}, NEW ms \in Nat, NEW p, p.frequence = 100 * k
  PROVE  pit_mSleep(p, ms) = 10000 * ms /\ pit_sleep(p, ms) = 1000000 * ms
<1>1. p.frequence \in Nat \ {0} /\ p.frequence \div 100 = k
  OBVIOUS
<1>2. (ms * k) * 1000000 = (10000 * ms) * (100 * k)
  OBVIOUS
<1>3. (ms * (100 * k)) * 1000000 = (1000000 * ms) * (100 * k)
  OBVIOUS
<1>4. 10000 * ms \in Nat /\ 1000000 * ms \in Nat /\ 100 * k \in Nat \ {0}
  OBVIOUS
<1>5. ((10000 * ms) * (100 * k)) \div (100 * k) = 10000 * ms
  BY <1>4, WholeQuotient
<1>6. ((1000000 * ms) * (100 * k)) \div (100 * k) = 1000000 * ms
  BY <1>4, WholeQuotient
<1>7. pit_mSleep(p, ms) = ((ms * k) * 1000000) \div (100 * k)
  BY <1>1 DEF pit_mSleep, Ticks
<1>8. pit_sleep(p, ms) = ((ms * (100 * k)) * 1000000) \div (100 * k)
  BY DEF pit_sleep, Ticks
<1>9. pit_mSleep(p, ms) = 10000 * ms
  BY <1>2, <1>5, <1>7
<1>10. pit_sleep(p, ms) = 1000000 * ms
  BY <1>3, <1>6, <1>8
<1> QED
  BY <1>9, <1>10

\* The sources omtime chooses from.
IsSource(s) ==
  \/ \E clock \in Nat \ {0} : s = [kind |-> "hpet", clock |-> clock]
  \/ \E k \in Nat \ {0} : s = [kind |-> "pit", frequence |-> 100 * k]
  \/ s = [kind |-> "rtc"]

\* A wait x is as long as asked, or short by less than g.
Within(asked, x, g) == x <= asked /\ asked < x + g

\* The grain and the three waits of a source, each wait short by less than the grain.
Waits(source, ms, us, sec, g, m, u, s) ==
  /\ Grain(source) = g /\ omtime_mSleep(source, ms) = m
  /\ omtime_uSleep(source, us) = u /\ omtime_sleep(source, sec) = s
  /\ Within(10000 * ms, m, g) /\ Within(us, u, g) /\ Within(1000000 * sec, s, g)

\* Every wait lies less than the source's grain below one number, the same for all.
LEMMA SourceShort ==
  ASSUME NEW source, IsSource(source), NEW ms \in Nat, NEW us \in Nat, NEW sec \in Nat
  PROVE  \E g \in Nat, m, u, s \in Int : Waits(source, ms, us, sec, g, m, u, s)
<1>1. ASSUME NEW clock \in Nat \ {0}, source = [kind |-> "hpet", clock |-> clock]
      PROVE  /\ Grain(source) = InUs(clock) /\ InUs(clock) \in Nat
             /\ 10000 * ms - omtime_mSleep(source, ms) \in 0 .. InUs(clock) - 1
             /\ us - omtime_uSleep(source, us) \in 0 .. InUs(clock) - 1
             /\ 1000000 * sec - omtime_sleep(source, sec) \in 0 .. InUs(clock) - 1
             /\ omtime_mSleep(source, ms) \in Int /\ omtime_uSleep(source, us) \in Int
             /\ omtime_sleep(source, sec) \in Int
  <2>1. Grain(source) = InUs(clock) /\ InUs(clock) \in Nat
    BY <1>1, RoundedUp DEF Grain
  <2>2. /\ omtime_mSleep(source, ms) = hpet_uSleep(source, 10000 * ms)
        /\ omtime_uSleep(source, us) = hpet_uSleep(source, us)
        /\ omtime_sleep(source, sec) = hpet_uSleep(source, 1000000 * sec)
    <3>1. ms * 10000 = 10000 * ms /\ sec * 1000000 = 1000000 * sec
      OBVIOUS
    <3> QED
      BY <1>1, <3>1 DEF omtime_mSleep, omtime_uSleep, omtime_sleep, MSEC_TO_US
  <2>3. source.clock = clock /\ 10000 * ms \in Nat /\ 1000000 * sec \in Nat
    BY <1>1
  <2>4. ASSUME NEW n \in Nat PROVE hpet_uSleep(source, n) \in Int
    <3> DEFINE x == ((n * PerUs) \div clock) * clock
    <3>1. PerUs \in Nat \ {0} /\ n * PerUs \in Nat
      BY ClockAssumption
    <3>2. x \in Nat
      BY <3>1, Quotient
    <3>3. hpet_uSleep(source, n) = InUs(x)
      BY <2>3 DEF hpet_uSleep
    <3> HIDE DEF x
    <3> QED
      BY <3>2, <3>3, RoundedUp
  <2>5. /\ 10000 * ms - hpet_uSleep(source, 10000 * ms) \in 0 .. InUs(clock) - 1
        /\ us - hpet_uSleep(source, us) \in 0 .. InUs(clock) - 1
        /\ 1000000 * sec - hpet_uSleep(source, 1000000 * sec) \in 0 .. InUs(clock) - 1
    BY <2>3, HpetShort
  <2> QED
    BY <2>1, <2>2, <2>3, <2>4, <2>5
<1>2. ASSUME NEW k \in Nat \ {0}, source = [kind |-> "pit", frequence |-> 100 * k]
      PROVE  /\ Grain(source) = 10000
             /\ omtime_mSleep(source, ms) = 10000 * ms
             /\ omtime_uSleep(source, us) = 10000 * (us \div 10000)
             /\ omtime_sleep(source, sec) = 1000000 * sec
  <2>1. source.frequence = 100 * k /\ us \div 10000 \in Nat
    BY <1>2
  <2>2. /\ pit_mSleep(source, ms) = 10000 * ms /\ pit_sleep(source, sec) = 1000000 * sec
        /\ pit_mSleep(source, us \div 10000) = 10000 * (us \div 10000)
    BY <2>1, PitExact
  <2> QED
    BY <1>2, <2>2 DEF Grain, omtime_mSleep, omtime_uSleep, omtime_sleep, US_TO_MSEC
<1>3. ASSUME source = [kind |-> "rtc"]
      PROVE  /\ Grain(source) = 1000000
             /\ omtime_mSleep(source, ms) = 1000000 * (ms \div 100)
             /\ omtime_uSleep(source, us) = 1000000 * (us \div 1000000)
             /\ omtime_sleep(source, sec) = 1000000 * sec
  <2>1. /\ Grain(source) = 1000000
        /\ omtime_mSleep(source, ms) = (ms \div 100) * 1000000
        /\ omtime_uSleep(source, us) = (us \div 1000000) * 1000000
        /\ omtime_sleep(source, sec) = sec * 1000000
    BY <1>3 DEF Grain, omtime_mSleep, omtime_uSleep, omtime_sleep
  <2>2. ms \div 100 \in Int /\ us \div 1000000 \in Int
    OBVIOUS
  <2> QED
    BY <2>1, <2>2
<1>4. CASE \E clock \in Nat \ {0} : source = [kind |-> "hpet", clock |-> clock]
  <2>1. PICK clock \in Nat \ {0} : source = [kind |-> "hpet", clock |-> clock]
    BY <1>4, SMT
  <2> DEFINE g == InUs(clock)
             m == omtime_mSleep(source, ms)
             u == omtime_uSleep(source, us)
             s == omtime_sleep(source, sec)
  <2>2. /\ Grain(source) = g /\ g \in Nat /\ m \in Int /\ u \in Int /\ s \in Int
        /\ 10000 * ms - m \in 0 .. g - 1 /\ us - u \in 0 .. g - 1 /\ 1000000 * sec - s \in 0 .. g - 1
    BY <1>1, <2>1
  <2> HIDE DEF g, m, u, s
  <2>3. Within(10000 * ms, m, g) /\ Within(us, u, g) /\ Within(1000000 * sec, s, g)
    BY <2>2 DEF Within
  <2>4. omtime_mSleep(source, ms) = m /\ omtime_uSleep(source, us) = u /\ omtime_sleep(source, sec) = s
    BY DEF m, u, s
  <2>5. Waits(source, ms, us, sec, g, m, u, s)
    BY <2>2, <2>3, <2>4, SMT DEF Waits
  <2>6. g \in Nat /\ m \in Int /\ u \in Int /\ s \in Int
    BY <2>2, SMT
  <2> QED
    BY <2>5, <2>6, Zenon
<1>5. CASE \E k \in Nat \ {0} : source = [kind |-> "pit", frequence |-> 100 * k]
  <2> DEFINE c == us \div 10000
  <2>1. c \in Nat /\ 10000 * c <= us /\ us < 10000 * c + 10000
    OBVIOUS
  <2>2. /\ Grain(source) = 10000 /\ omtime_mSleep(source, ms) = 10000 * ms
        /\ omtime_uSleep(source, us) = 10000 * c /\ omtime_sleep(source, sec) = 1000000 * sec
    BY <1>2, <1>5
  <2> HIDE DEF c
  <2>3. /\ 10000 * ms \in Int /\ 10000 * c \in Int /\ 1000000 * sec \in Int /\ 10000 \in Nat
        /\ Within(10000 * ms, 10000 * ms, 10000) /\ Within(us, 10000 * c, 10000)
        /\ Within(1000000 * sec, 1000000 * sec, 10000)
    BY <2>1 DEF Within
  <2>4. Waits(source, ms, us, sec, 10000, 10000 * ms, 10000 * c, 1000000 * sec)
    BY <2>2, <2>3, SMT DEF Waits
  <2> DEFINE g == 10000
             m == 10000 * ms
             u == 10000 * c
             s == 1000000 * sec
  <2>5. Waits(source, ms, us, sec, g, m, u, s) /\ g \in Nat /\ m \in Int /\ u \in Int /\ s \in Int
    BY <2>3, <2>4, SMT
  <2> HIDE DEF g, m, u, s
  <2> QED
    BY <2>5, Zenon
<1>6. CASE source = [kind |-> "rtc"]
  <2> DEFINE c == ms \div 100
             d == us \div 1000000
  <2>1. /\ c \in Nat /\ 100 * c <= ms /\ ms < 100 * c + 100
        /\ d \in Nat /\ 1000000 * d <= us /\ us < 1000000 * d + 1000000
    OBVIOUS
  <2>2. /\ Grain(source) = 1000000 /\ omtime_mSleep(source, ms) = 1000000 * c
        /\ omtime_uSleep(source, us) = 1000000 * d /\ omtime_sleep(source, sec) = 1000000 * sec
    BY <1>3, <1>6
  <2> HIDE DEF c, d
  <2>3. /\ 1000000 * c \in Int /\ 1000000 * d \in Int /\ 1000000 * sec \in Int /\ 1000000 \in Nat
        /\ Within(10000 * ms, 1000000 * c, 1000000) /\ Within(us, 1000000 * d, 1000000)
        /\ Within(1000000 * sec, 1000000 * sec, 1000000)
    BY <2>1 DEF Within
  <2>4. Waits(source, ms, us, sec, 1000000, 1000000 * c, 1000000 * d, 1000000 * sec)
    BY <2>2, <2>3, SMT DEF Waits
  <2> DEFINE g == 1000000
             m == 1000000 * c
             u == 1000000 * d
             s == 1000000 * sec
  <2>5. Waits(source, ms, us, sec, g, m, u, s) /\ g \in Nat /\ m \in Int /\ u \in Int /\ s \in Int
    BY <2>3, <2>4, SMT
  <2> HIDE DEF g, m, u, s
  <2> QED
    BY <2>5, Zenon
<1> QED
  BY <1>4, <1>5, <1>6 DEF IsSource

(***************************************************************************)
(* Whichever of HPET, PIT and RTC serves omtime's functions, they wait the *)
(* same time to within the coarser grain, sleep and uSleep as long as they *)
(* are asked to: for every HPET period, every PIT frequency that is a      *)
(* multiple of 100 Hz and every argument (WaitsAgree, which the library    *)
(* run checks for some of each).                                           *)
(***************************************************************************)
THEOREM WaitsAgreeAlways ==
  ASSUME NEW a, IsSource(a), NEW b, IsSource(b), NEW ms \in Nat, NEW us \in Nat, NEW sec \in Nat
  PROVE  WaitsAgree(a, b, ms, us, sec)
<1>1. PICK g \in Nat, m, u, s \in Int : Waits(a, ms, us, sec, g, m, u, s)
  BY SourceShort, Zenon
<1>2. PICK h \in Nat, n, v, t \in Int : Waits(b, ms, us, sec, h, n, v, t)
  BY SourceShort, Zenon
<1>3. m < n + h /\ n < m + g
  BY <1>1, <1>2 DEF Waits, Within
<1>4. us - u \in 0 .. g - 1 /\ 1000000 * sec - s \in 0 .. g - 1
  BY <1>1 DEF Waits, Within
<1> QED
  BY <1>1, <1>2, <1>3, <1>4 DEF Waits, WaitsAgree

-----------------------------------------------------------------------------
(* The filled rectangle. *)

\* The columns a rectangle of width w paints from x on.
Columns(x, w) == IF x + w > frm_width THEN frm_width - 1 - x ELSE w

\* Row i of a rectangle whose corner is on the screen.
LEMMA RectangleRow ==
  ASSUME NEW x \in 0 .. frm_width - 1, NEW y \in 0 .. frm_height - 1,
         NEW w \in Nat, NEW i \in Nat
  PROVE  drawLine(x, y + i, x + w, y + i) =
           drawHorLine(x, Clamp(y + i, frm_height), Columns(x, w))
<1> DEFINE b == Clamp(y + i, frm_height)
<1>1. Clamp(x, frm_width) = x /\ b \in Int
  BY FrameAssumption DEF Clamp
<1>2. Clamp(x + w, frm_width) - x = Columns(x, w)
  BY FrameAssumption DEF Clamp, Columns
<1>3. b - b = 0
  BY <1>1
<1> HIDE DEF b
<1> QED
  BY <1>1, <1>2, <1>3 DEF drawLine, b

\* The pixels of a filled rectangle, one by one.
LEMMA RectanglePixels ==
  ASSUME NEW x \in 0 .. frm_width - 1, NEW y \in 0 .. frm_height - 1,
         NEW w \in Nat, NEW h \in Nat
  PROVE  /\ \A j \in 0 .. Columns(x, w) - 1, i \in 0 .. h - 1 :
              <<x + j, Clamp(y + i, frm_height)>> \in drawFilledRectangle(x, y, w, h)
         /\ \A e \in drawFilledRectangle(x, y, w, h) :
              \E j \in 0 .. Columns(x, w) - 1, i \in 0 .. h - 1 :
                e = <<x + j, Clamp(y + i, frm_height)>>
<1> DEFINE line(i) == drawLine(x, y + i, x + w, y + i)
           row(i) == Clamp(y + i, frm_height)
<1>1. \A i \in 0 .. h - 1 : line(i) = { <<x + j, row(i)>> : j \in 0 .. Columns(x, w) - 1 }
  <2> SUFFICES ASSUME NEW i \in 0 .. h - 1
               PROVE  line(i) = { <<x + j, row(i)>> : j \in 0 .. Columns(x, w) - 1 }
    OBVIOUS
  <2>1. i \in Nat
    OBVIOUS
  <2>2. line(i) = drawHorLine(x, row(i), Columns(x, w))
    BY <2>1, RectangleRow, Zenon
  <2> QED
    BY <2>2, Zenon DEF drawHorLine
<1>2. drawFilledRectangle(x, y, w, h) = UNION { line(i) : i \in 0 .. h - 1 }
  BY Zenon DEF drawFilledRectangle
<1> HIDE DEF line, row
<1>3. /\ \A j \in 0 .. Columns(x, w) - 1, i \in 0 .. h - 1 :
           <<x + j, row(i)>> \in drawFilledRectangle(x, y, w, h)
      /\ \A e \in drawFilledRectangle(x, y, w, h) :
           \E j \in 0 .. Columns(x, w) - 1, i \in 0 .. h - 1 : e = <<x + j, row(i)>>
  BY <1>1, <1>2
<1> QED
  BY <1>3, Zenon DEF row

\* A pixel in a column of the screen is in the frame buffer just if its row is.
LEMMA RowInMemory ==
  ASSUME NEW px \in 0 .. frm_width - 1, NEW py \in Nat
  PROVE  Offset(<<px, py>>) \in 0 .. frm_width * frm_height - 1 <=> py < frm_height
<1>1. frm_width \in Nat \ {0} /\ frm_height \in Nat \ {0}
  BY FrameAssumption
<1>2. Offset(<<px, py>>) = px + py * frm_width /\ py * frm_width \in Nat
  BY <1>1 DEF Offset
<1>3. CASE py < frm_height
  <2>1. PICK d \in Nat : frm_height = py + 1 + d
    BY <1>1, <1>3
  <2>2. frm_width * frm_height = py * frm_width + frm_width + d * frm_width /\ d * frm_width \in Nat
    BY <1>1, <2>1
  <2> QED
    BY <1>1, <1>2, <1>3, <2>2
<1>4. CASE py >= frm_height
  <2>1. PICK d \in Nat : py = frm_height + d
    BY <1>1, <1>4
  <2>2. py * frm_width = frm_width * frm_height + d * frm_width /\ d * frm_width \in Nat
    BY <1>1, <2>1
  <2>3. frm_width * frm_height \in Nat
    BY <1>1
  <2> QED
    BY <1>1, <1>2, <1>4, <2>2, <2>3
<1> QED
  BY <1>1, <1>3, <1>4

(***************************************************************************)
(* drawFilledRectangle on a screen of any size, for a rectangle of any     *)
(* size whose corner is on it: what it paints on the screen, and that it   *)
(* writes behind the frame buffer just if it reaches below the screen      *)
(* (RectangleExact, which the library run checks on a screen of 4 by 3).   *)
(***************************************************************************)
THEOREM RectangleAlwaysExact ==
  ASSUME NEW x \in 0 .. frm_width - 1, NEW y \in 0 .. frm_height - 1,
         NEW w \in Nat, NEW h \in Nat
  PROVE  RectangleExact(x, y, w, h)
<1> DEFINE columns == Columns(x, w)
           pixels == drawFilledRectangle(x, y, w, h)
           row(i) == Clamp(y + i, frm_height)
<1>1. frm_width \in Nat \ {0} /\ frm_height \in Nat \ {0}
  BY FrameAssumption
<1>2. columns \in Nat /\ x + columns <= frm_width
  BY <1>1 DEF Columns
<1>3. /\ \A j \in 0 .. columns - 1, i \in 0 .. h - 1 : <<x + j, row(i)>> \in pixels
      /\ \A e \in pixels : \E j \in 0 .. columns - 1, i \in 0 .. h - 1 : e = <<x + j, row(i)>>
  BY RectanglePixels, Zenon
<1>4. \A i \in 0 .. h - 1 :
        /\ row(i) \in Nat
        /\ y + i <= frm_height => row(i) = y + i
        /\ y + i > frm_height => row(i) = frm_height - 1
  BY <1>1 DEF Clamp
<1>5. pixels \cap OnScreen = ((x .. x + columns - 1) \X (y .. y + h - 1)) \cap OnScreen
  <2> HIDE DEF columns, row
  <2>1. ASSUME NEW j \in 0 .. columns - 1, NEW i \in 0 .. h - 1, <<x + j, row(i)>> \in OnScreen
        PROVE  <<x + j, row(i)>> \in (x .. x + columns - 1) \X (y .. y + h - 1)
    BY <1>1, <1>2, <1>4, <2>1 DEF OnScreen
  <2>2. ASSUME NEW a \in x .. x + columns - 1, NEW b \in y .. y + h - 1, <<a, b>> \in OnScreen
        PROVE  <<a, b>> \in pixels
    <3>1. a - x \in 0 .. columns - 1 /\ b - y \in 0 .. h - 1 /\ b < frm_height
      BY <1>1, <1>2, <2>2 DEF OnScreen
    <3>2. <<a, b>> = <<x + (a - x), row(b - y)>>
      BY <1>1, <1>2, <1>4, <3>1
    <3> QED
      BY <1>3, <3>1, <3>2
  <2> HIDE DEF pixels
  <2>3. ASSUME NEW e \in pixels \cap OnScreen
        PROVE  e \in ((x .. x + columns - 1) \X (y .. y + h - 1)) \cap OnScreen
    <3>1. PICK j \in 0 .. columns - 1, i \in 0 .. h - 1 : e = <<x + j, row(i)>>
      BY <1>3
    <3> QED
      BY <2>1, <3>1
  <2>4. ASSUME NEW e \in ((x .. x + columns - 1) \X (y .. y + h - 1)) \cap OnScreen
        PROVE  e \in pixels \cap OnScreen
    <3>1. PICK a \in x .. x + columns - 1, b \in y .. y + h - 1 : e = <<a, b>>
      OBVIOUS
    <3> QED
      BY <2>2, <3>1
  <2> QED
    BY <2>3, <2>4
<1>6. InMemory(pixels) <=> columns = 0 \/ h = 0 \/ y + h <= frm_height
  <2> HIDE DEF columns
  <2>1. \A j \in 0 .. columns - 1, i \in 0 .. h - 1 :
          Offset(<<x + j, row(i)>>) \in 0 .. frm_width * frm_height - 1 <=> row(i) < frm_height
    <3> SUFFICES ASSUME NEW j \in 0 .. columns - 1, NEW i \in 0 .. h - 1
                 PROVE  Offset(<<x + j, row(i)>>) \in 0 .. frm_width * frm_height - 1
                          <=> row(i) < frm_height
      OBVIOUS
    <3>1. x + j \in 0 .. frm_width - 1
      BY <1>1, <1>2
    <3> HIDE DEF row
    <3> QED
      BY <1>4, <3>1, RowInMemory
  <2>2. InMemory(pixels) <=>
          \A j \in 0 .. columns - 1, i \in 0 .. h - 1 :
            Offset(<<x + j, row(i)>>) \in 0 .. frm_width * frm_height - 1
    <3> HIDE DEF row, pixels
    <3> QED
      BY <1>3, Zenon DEF InMemory
  <2> HIDE DEF row, pixels
  <2>3. InMemory(pixels) <=> \A j \in 0 .. columns - 1, i \in 0 .. h - 1 : row(i) < frm_height
    BY <2>1, <2>2
  <2>4. CASE columns = 0 \/ h = 0 \/ y + h <= frm_height
    <3>1. \A j \in 0 .. columns - 1, i \in 0 .. h - 1 : row(i) < frm_height
      BY <1>1, <1>2, <1>4, <2>4
    <3> QED
      BY <2>3, <2>4, <3>1
  <2>5. CASE columns # 0 /\ h # 0 /\ y + h > frm_height
    <3>1. frm_height - y \in 0 .. h - 1 /\ 0 \in 0 .. columns - 1
      BY <1>1, <1>2, <2>5
    <3>2. row(frm_height - y) = frm_height
      BY <1>1, <1>4, <3>1
    <3>3. ~ \A j \in 0 .. columns - 1, i \in 0 .. h - 1 : row(i) < frm_height
      BY <1>1, <3>1, <3>2
    <3> QED
      BY <1>1, <1>2, <2>3, <2>5, <3>3
  <2> QED
    BY <1>1, <1>2, <2>4, <2>5
<1> HIDE DEF pixels, columns
<1> QED
  BY <1>5, <1>6 DEF RectangleExact, pixels, columns, Columns

-----------------------------------------------------------------------------
(* memmove and memcmp. *)

\* Counting up from 0, nothing below n is left out.
LEMMA UpTo ==
  ASSUME NEW n \in Nat, NEW S, 0 \in S, \A i \in 1 .. n : i - 1 \in S => i \in S
  PROVE  \A i \in 0 .. n : i \in S
<1> DEFINE Wrong == { i \in 0 .. n : i \notin S }
<1>1. SUFFICES ASSUME Wrong # {} PROVE FALSE
  OBVIOUS
<1>2. Wrong \subseteq Nat
  OBVIOUS
<1>3. PICK m \in Wrong : \A k \in Wrong : ~(<<k, m>> \in OpToRel(<, Nat))
  BY <1>1, <1>2, NatLessThanWellFounded, WFMin
<1>4. m \in 0 .. n /\ m \notin S /\ m # 0
  OBVIOUS
<1>5. m - 1 \in 0 .. n /\ m \in 1 .. n
  BY <1>4
<1>6. m - 1 \notin Wrong
  <2>1. \A k \in Wrong : k \in Nat /\ m \in Nat
    BY <1>2
  <2> HIDE DEF Wrong
  <2>2. \A k \in Wrong : ~(k < m)
    BY <1>3, <2>1, Zenon DEF OpToRel
  <2> QED
    BY <1>4, <2>2
<1> QED
  BY <1>4, <1>5, <1>6

\* m with the bytes from lo to hi moved there from p - q further on.
Shifted(m, q, p, lo, hi) == [i \in 1 .. Len(m) |-> IF i \in lo .. hi THEN m[i + p - q] ELSE m[i]]

\* Two ranges of n bytes inside m, which holds bytes.
Ranges(m, q, p, n) ==
  /\ m \in Seq(0 .. 255) /\ n \in Nat
  /\ q \in Nat \ {0} /\ q + n <= Len(m) + 1
  /\ p \in Nat \ {0} /\ p + n <= Len(m) + 1

\* One byte more, upwards: it is read where nothing has been written yet.
LEMMA OneByteUp ==
  ASSUME NEW m, NEW q, NEW p, NEW n, Ranges(m, q, p, n), q <= p, NEW k \in 1 .. n
  PROVE  Shifted(m, q, p, q, q + k - 1) =
           MoveByte(Shifted(m, q, p, q, q + (k - 1) - 1), q + k - 1, p + k - 1)
<1> DEFINE old == Shifted(m, q, p, q, q + (k - 1) - 1)
           new == Shifted(m, q, p, q, q + k - 1)
           at == q + k - 1
           from == p + k - 1
<1>1. Len(m) \in Nat /\ at \in 1 .. Len(m) /\ from \in 1 .. Len(m)
  BY DEF Ranges
<1>2. old[from] = m[from]
  BY <1>1 DEF Shifted, Ranges
<1>3. at + p - q = from
  BY DEF Ranges
<1>4. ASSUME NEW i \in 1 .. Len(m) PROVE new[i] = IF i = at THEN old[from] ELSE old[i]
  BY <1>1, <1>2, <1>3 DEF Shifted, Ranges
<1>5. DOMAIN old = 1 .. Len(m) /\ new = [i \in 1 .. Len(m) |-> new[i]]
  BY DEF Shifted
<1>6. MoveByte(old, at, from) = [i \in 1 .. Len(m) |-> IF i = at THEN old[from] ELSE old[i]]
  BY <1>5 DEF MoveByte
<1> HIDE DEF old, new, at, from
<1>7. new = MoveByte(old, at, from)
  BY <1>4, <1>5, <1>6
<1> QED
  BY <1>7 DEF old, new, at, from

\* One byte more, downwards.
LEMMA OneByteDown ==
  ASSUME NEW m, NEW q, NEW p, NEW n, Ranges(m, q, p, n), q > p, NEW k \in 1 .. n
  PROVE  Shifted(m, q, p, q + n - k, q + n - 1) =
           MoveByte(Shifted(m, q, p, q + n - (k - 1), q + n - 1), q + n - k, p + n - k)
<1> DEFINE old == Shifted(m, q, p, q + n - (k - 1), q + n - 1)
           new == Shifted(m, q, p, q + n - k, q + n - 1)
           at == q + n - k
           from == p + n - k
<1>1. Len(m) \in Nat /\ at \in 1 .. Len(m) /\ from \in 1 .. Len(m)
  BY DEF Ranges
<1>2. old[from] = m[from]
  BY <1>1 DEF Shifted, Ranges
<1>3. at + p - q = from
  BY DEF Ranges
<1>4. ASSUME NEW i \in 1 .. Len(m) PROVE new[i] = IF i = at THEN old[from] ELSE old[i]
  BY <1>1, <1>2, <1>3 DEF Shifted, Ranges
<1>5. DOMAIN old = 1 .. Len(m) /\ new = [i \in 1 .. Len(m) |-> new[i]]
  BY DEF Shifted
<1>6. MoveByte(old, at, from) = [i \in 1 .. Len(m) |-> IF i = at THEN old[from] ELSE old[i]]
  BY <1>5 DEF MoveByte
<1> HIDE DEF old, new, at, from
<1>7. new = MoveByte(old, at, from)
  BY <1>4, <1>5, <1>6
<1> QED
  BY <1>7 DEF old, new, at, from

\* What the loop of CopyUp leaves.
LEMMA CopyUpShifts ==
  ASSUME NEW m, NEW q, NEW p, NEW n, Ranges(m, q, p, n), q <= p
  PROVE  CopyUp(m, q, p, n) = Shifted(m, q, p, q, q + n - 1)
<1> DEFINE G(k) == Shifted(m, q, p, q, q + k - 1)
           turn(y, k) == MoveByte(y, q + k - 1, p + k - 1)
           Runs(f) == f = [k \in 0 .. n |-> IF k = 0 THEN m ELSE turn(f[k - 1], k)]
           x == CHOOSE f : Runs(f)
<1>1. n \in Nat /\ Len(m) \in Nat
  BY DEF Ranges
<1>2. G(0) = m
  <2>1. \A i \in 1 .. Len(m) : G(0)[i] = m[i]
    BY DEF Shifted, Ranges
  <2>2. G(0) = [i \in 1 .. Len(m) |-> G(0)[i]] /\ m = [i \in 1 .. Len(m) |-> m[i]]
    BY DEF Shifted, Ranges
  <2> HIDE DEF G
  <2> QED
    BY <2>1, <2>2
<1>3. \A k \in 1 .. n : G(k) = turn(G(k - 1), k)
  BY OneByteUp
<1> HIDE DEF G, turn
<1>4. Runs([k \in 0 .. n |-> G(k)])
  <2>1. \A k \in 0 .. n : G(k) = IF k = 0 THEN m ELSE turn(G(k - 1), k)
    BY <1>2, <1>3
  <2>2. \A k \in 0 .. n : k # 0 => k - 1 \in 0 .. n
    BY <1>1
  <2> QED
    BY <2>1, <2>2
<1>5. \E f : Runs(f)
  BY <1>4
<1>6. Runs(x)
  <2> HIDE DEF Runs
  <2> QED
    BY <1>5
<1>7. x[0] = m /\ \A k \in 1 .. n : x[k] = turn(x[k - 1], k)
  <2> HIDE DEF x
  <2> QED
    BY <1>1, <1>6
<1> DEFINE S == { k \in 0 .. n : x[k] = G(k) }
<1> HIDE DEF x
<1>8. 0 \in S
  BY <1>1, <1>2, <1>7
<1>9. \A k \in 1 .. n : k - 1 \in S => k \in S
  BY <1>1, <1>3, <1>7
<1>10. n \in S
  <2> HIDE DEF S
  <2> QED
    BY <1>1, <1>8, <1>9, UpTo
<1>11. x[n] = G(n)
  BY <1>10
<1>12. CopyUp(m, q, p, n) = x[n]
  BY DEF CopyUp, x, turn
<1>13. G(n) = Shifted(m, q, p, q, q + n - 1)
  BY DEF G, Ranges
<1> QED
  BY <1>11, <1>12, <1>13

\* What the loop of CopyDown leaves.
LEMMA CopyDownShifts ==
  ASSUME NEW m, NEW q, NEW p, NEW n, Ranges(m, q, p, n), q > p
  PROVE  CopyDown(m, q, p, n) = Shifted(m, q, p, q, q + n - 1)
<1> DEFINE G(k) == Shifted(m, q, p, q + n - k, q + n - 1)
           turn(y, k) == MoveByte(y, q + n - k, p + n - k)
           Runs(f) == f = [k \in 0 .. n |-> IF k = 0 THEN m ELSE turn(f[k - 1], k)]
           x == CHOOSE f : Runs(f)
<1>1. n \in Nat /\ Len(m) \in Nat
  BY DEF Ranges
<1>2. G(0) = m
  <2>1. \A i \in 1 .. Len(m) : G(0)[i] = m[i]
    BY DEF Shifted, Ranges
  <2>2. G(0) = [i \in 1 .. Len(m) |-> G(0)[i]] /\ m = [i \in 1 .. Len(m) |-> m[i]]
    BY DEF Shifted, Ranges
  <2> HIDE DEF G
  <2> QED
    BY <2>1, <2>2
<1>3. \A k \in 1 .. n : G(k) = turn(G(k - 1), k)
  BY OneByteDown
<1> HIDE DEF G, turn
<1>4. Runs([k \in 0 .. n |-> G(k)])
  <2>1. \A k \in 0 .. n : G(k) = IF k = 0 THEN m ELSE turn(G(k - 1), k)
    BY <1>2, <1>3
  <2>2. \A k \in 0 .. n : k # 0 => k - 1 \in 0 .. n
    BY <1>1
  <2> QED
    BY <2>1, <2>2
<1>5. \E f : Runs(f)
  BY <1>4
<1>6. Runs(x)
  <2> HIDE DEF Runs
  <2> QED
    BY <1>5
<1>7. x[0] = m /\ \A k \in 1 .. n : x[k] = turn(x[k - 1], k)
  <2> HIDE DEF x
  <2> QED
    BY <1>1, <1>6
<1> DEFINE S == { k \in 0 .. n : x[k] = G(k) }
<1> HIDE DEF x
<1>8. 0 \in S
  BY <1>1, <1>2, <1>7
<1>9. \A k \in 1 .. n : k - 1 \in S => k \in S
  BY <1>1, <1>3, <1>7
<1>10. n \in S
  <2> HIDE DEF S
  <2> QED
    BY <1>1, <1>8, <1>9, UpTo
<1>11. x[n] = G(n)
  BY <1>10
<1>12. CopyDown(m, q, p, n) = x[n]
  BY DEF CopyDown, x, turn
<1>13. G(n) = Shifted(m, q, p, q, q + n - 1)
  BY DEF G, Ranges
<1> QED
  BY <1>11, <1>12, <1>13

\* The least of a set of natural numbers.
LEMMA MinOfNaturals ==
  ASSUME NEW T, T \subseteq Nat, T # {}
  PROVE  Min(T) \in T /\ \A y \in T : Min(T) <= y
<1>1. PICK x \in T : \A y \in T : ~(<<y, x>> \in OpToRel(<, Nat))
  BY NatLessThanWellFounded, WFMin
<1>2. \A y \in T : ~(y < x)
  BY <1>1, Zenon DEF OpToRel
<1>3. \A y \in T : x <= y
  BY <1>2
<1> QED
  BY <1>3 DEF Min

\* The bytes, counted from 1, in which two ranges differ.
Diffs(m, q, p, n) == { i \in 1 .. n : m[q + i - 1] # m[p + i - 1] }

\* memcmp, from the first byte that differs.
LEMMA MemcmpFinds ==
  ASSUME NEW m, NEW q, NEW p, NEW n, Ranges(m, q, p, n), NEW d, d = Diffs(m, q, p, n)
  PROVE  /\ d # {} => Min(d) \in d /\ \A i \in d : Min(d) <= i
         /\ d = {} \/ Min(d) = n => memcmp(m, q, p, n) = 0
         /\ d # {} /\ Min(d) # n => memcmp(m, q, p, n) = SignedByte(m[q + Min(d) - 1] - m[p + Min(d) - 1])
<1>1. d \subseteq Nat
  BY DEF Diffs
<1>2. d # {} => Min(d) \in d /\ \A i \in d : Min(d) <= i
  BY <1>1, MinOfNaturals
<1>3. memcmp(m, q, p, n) = IF d = {} \/ Min(d) = n THEN 0
                           ELSE SignedByte(m[q + Min(d) - 1] - m[p + Min(d) - 1])
  BY DEF memcmp, Diffs
<1> QED
  BY <1>2, <1>3, Zenon

\* What sub and movsx make of the difference of two bytes.
LEMMA ByteDifference ==
  ASSUME NEW x \in 0 .. 255, NEW y \in 0 .. 255
  PROVE  /\ SignedByte(x - y) + SignedByte(y - x) \in {0, -256}
         /\ x # y => SignedByte(x - y) # 0
<1>1. \A d \in -255 .. 255 : SignedByte(d) = IF d < -128 THEN d + 256 ELSE IF d > 127 THEN d - 256 ELSE d
  BY SMT DEF SignedByte
<1>2. x - y \in -255 .. 255 /\ y - x \in -255 .. 255
  OBVIOUS
<1> HIDE DEF SignedByte
<1>3. /\ SignedByte(x - y) = IF x - y < -128 THEN x - y + 256 ELSE IF x - y > 127 THEN x - y - 256 ELSE x - y
      /\ SignedByte(y - x) = IF y - x < -128 THEN y - x + 256 ELSE IF y - x > 127 THEN y - x - 256 ELSE y - x
  BY <1>1, <1>2
<1> QED
  BY <1>3

(***************************************************************************)
(* memmove copies n bytes between any two ranges, however they overlap;    *)
(* memcmp tells two ranges apart just if they differ before their last     *)
(* byte, and has the opposite sign when its arguments change places unless *)
(* the bytes are 128 apart (BuffersExact, which the library run checks in  *)
(* a memory of 5 bytes).                                                   *)
(***************************************************************************)
THEOREM BuffersAlwaysExact ==
  ASSUME NEW m, NEW q, NEW p, NEW n, Ranges(m, q, p, n)
  PROVE  BuffersExact(m, q, p, n)
<1> DEFINE old == [i \in 1 .. n |-> m[p + i - 1]]
           new == [i \in 1 .. n |-> m[q + i - 1]]
           d == Diffs(m, q, p, n)
<1>1. n \in Nat /\ Len(m) \in Nat /\ q \in Nat \ {0} /\ p \in Nat \ {0}
  BY DEF Ranges
<1>2. memmove(m, q, p, n) = Shifted(m, q, p, q, q + n - 1)
  BY <1>1, CopyUpShifts, CopyDownShifts DEF memmove
<1>3. Shifted(m, q, p, q, q + n - 1) = Write(m, q, old)
  <2>1. Len(old) = n
    BY <1>1
  <2>2. \A i \in 1 .. Len(m) : i \in q .. q + n - 1 => old[i - q + 1] = m[i + p - q]
    BY <1>1
  <2> HIDE DEF old
  <2>3. \A i \in 1 .. Len(m) : Shifted(m, q, p, q, q + n - 1)[i] = Write(m, q, old)[i]
    BY <2>1, <2>2 DEF Shifted, Write
  <2> QED
    BY <2>1, <2>3 DEF Shifted, Write
<1>4. \A i \in 1 .. n : m[q + i - 1] \in 0 .. 255 /\ m[p + i - 1] \in 0 .. 255
  <2> DEFINE B == 0 .. 255
  <2>1. m \in Seq(B)
    BY DEF Ranges
  <2> HIDE DEF B
  <2>2. \A i \in 1 .. Len(m) : m[i] \in B
    BY <2>1
  <2>3. \A i \in 1 .. n : q + i - 1 \in 1 .. Len(m) /\ p + i - 1 \in 1 .. Len(m)
    BY <1>1 DEF Ranges
  <2>4. \A i \in 1 .. n : m[q + i - 1] \in B /\ m[p + i - 1] \in B
    BY <2>2, <2>3
  <2> QED
    BY <2>4 DEF B
<1>5. Ranges(m, p, q, n)
  BY DEF Ranges
<1>6. d = Diffs(m, p, q, n) /\ \A i \in d : i \in 1 .. n /\ m[q + i - 1] # m[p + i - 1]
  BY DEF Diffs
<1> HIDE DEF d
<1>7. /\ d # {} => Min(d) \in d /\ \A i \in d : Min(d) <= i
      /\ d = {} \/ Min(d) = n => memcmp(m, q, p, n) = 0
      /\ d # {} /\ Min(d) # n => memcmp(m, q, p, n) = SignedByte(m[q + Min(d) - 1] - m[p + Min(d) - 1])
  BY MemcmpFinds, Zenon DEF d
<1>8. /\ d = {} \/ Min(d) = n => memcmp(m, p, q, n) = 0
      /\ d # {} /\ Min(d) # n => memcmp(m, p, q, n) = SignedByte(m[p + Min(d) - 1] - m[q + Min(d) - 1])
  <2>1. d = Diffs(m, p, q, n)
    BY <1>6
  <2> QED
    BY <1>5, <2>1, MemcmpFinds, SMT
<1>9. memcmp(m, q, p, n) + memcmp(m, p, q, n) \in {0, -256}
  <2>1. CASE d = {} \/ Min(d) = n
    BY <1>7, <1>8, <2>1
  <2>2. CASE d # {} /\ Min(d) # n
    <3>1. Min(d) \in 1 .. n
      BY <1>6, <1>7, <2>2
    <3> QED
      BY <1>4, <1>7, <1>8, <2>2, <3>1, ByteDifference
  <2> QED
    BY <2>1, <2>2
<1>10. memcmp(m, q, p, n) # 0 <=> ~arraycmp(new, old, n - 1)
  <2>1. arraycmp(new, old, n - 1) <=> \A i \in 1 .. n - 1 : i \notin d
    <3>1. \A i \in 1 .. n - 1 : i \in 1 .. n
      BY <1>1
    <3>2. \A i \in 1 .. n - 1 : new[i] = m[q + i - 1] /\ old[i] = m[p + i - 1]
      BY <3>1, Zenon
    <3>3. \A i \in 1 .. n - 1 : i \notin d <=> m[q + i - 1] = m[p + i - 1]
      BY <3>1, Zenon DEF d, Diffs
    <3> HIDE DEF old, new
    <3> QED
      BY <3>2, <3>3, Zenon DEF arraycmp
  <2> HIDE DEF old, new
  <2>2. CASE d = {} \/ Min(d) = n
    <3>1. \A i \in 1 .. n - 1 : i \notin d
      BY <1>1, <1>7, <2>2
    <3> QED
      BY <1>7, <2>1, <2>2, <3>1
  <2>3. CASE d # {} /\ Min(d) # n
    <3> DEFINE k == Min(d)
    <3>1. k \in 1 .. n - 1 /\ k \in d
      BY <1>1, <1>6, <1>7, <2>3
    <3>2. memcmp(m, q, p, n) = SignedByte(m[q + k - 1] - m[p + k - 1])
      BY <1>7, <2>3, Zenon
    <3>3. m[q + k - 1] # m[p + k - 1] /\ m[q + k - 1] \in 0 .. 255 /\ m[p + k - 1] \in 0 .. 255
      BY <1>4, <1>6, <3>1
    <3> HIDE DEF k
    <3>4. memcmp(m, q, p, n) # 0
      BY <3>2, <3>3, ByteDifference
    <3> QED
      BY <2>1, <3>1, <3>4
  <2> QED
    BY <2>2, <2>3
<1> HIDE DEF old, new
<1> QED
  BY <1>2, <1>3, <1>9, <1>10 DEF BuffersExact, old, new

-----------------------------------------------------------------------------
(* The diagonal line. *)

LEMMA SignAndSize ==
  ASSUME NEW v \in Int
  PROVE  /\ abs(v) \in Nat /\ sign(v) \in {-1, 0, 1}
         /\ sign(v) * abs(v) = v
         /\ abs(v) # 0 => sign(v) \in {-1, 1}
BY DEF abs, sign

\* The error is what is left of the steps aside that are due.
LEMMA MinorAdvances ==
  ASSUME NEW long \in Nat \ {0}, NEW short \in 0 .. long, NEW e \in Nat
  PROVE  /\ MinorStep(e % long, short, long).err = (e + short) % long
         /\ (e + short) \div long = e \div long + MinorStep(e % long, short, long).moves
         /\ MinorStep(e % long, short, long).moves \in {0, 1}
<1> DEFINE q == e \div long
           r == e % long
<1>1. q \in Int /\ r \in 0 .. long - 1 /\ e = q * long + r
  BY Division
<1> HIDE DEF q, r
<1>2. CASE r + short >= long
  <2>1. e + short = (q + 1) * long + (r + short - long) /\ r + short - long \in 0 .. long - 1
    BY <1>1, <1>2
  <2> DEFINE k == q + 1
             t == r + short - long
  <2>2. e + short = k * long + t /\ t \in 0 .. long - 1 /\ k \in Int
    BY <1>1, <2>1
  <2> HIDE DEF k, t
  <2>3. (e + short) \div long = k /\ (e + short) % long = t
    BY <2>2, Divided
  <2> QED
    BY <1>1, <1>2, <2>3 DEF MinorStep, q, r, k, t
<1>3. CASE r + short < long
  <2>1. e + short = q * long + (r + short) /\ r + short \in 0 .. long - 1
    BY <1>1, <1>3
  <2>2. (e + short) \div long = q /\ (e + short) % long = r + short
    BY <1>1, <2>1, Divided
  <2>3. MinorStep(r, short, long) = [err |-> r + short, moves |-> 0]
    BY <1>1, <1>3 DEF MinorStep
  <2> QED
    BY <1>1, <2>2, <2>3 DEF q, r
<1> QED
  BY <1>1, <1>2, <1>3

\* The steps aside that are due after i turns, in units of 1 / Longer.
Due(dx, dy, i) == Longer(dx, dy) \div 2 + i * Shorter(dx, dy)

\* How far the line has come, in each direction, after i turns.
Along(dx, dy, i) == IF abs(dx) >= abs(dy) THEN i ELSE Due(dx, dy, i) \div Longer(dx, dy)
Down(dx, dy, i) == IF abs(dx) >= abs(dy) THEN Due(dx, dy, i) \div Longer(dx, dy) ELSE i

\* The error and the pixel after i turns.
Walked(x0, y0, dx, dy, i) ==
  [err |-> Due(dx, dy, i) % Longer(dx, dy),
   px |-> x0 + sign(dx) * Along(dx, dy, i),
   py |-> y0 + sign(dy) * Down(dx, dy, i)]

LEMMA LongAndShort ==
  ASSUME NEW dx \in Int, NEW dy \in Int
  PROVE  /\ Longer(dx, dy) \in Nat /\ Shorter(dx, dy) \in 0 .. Longer(dx, dy)
         /\ abs(dx) \in Nat /\ abs(dy) \in Nat
BY SignAndSize DEF Longer, Shorter

LEMMA DueGrows ==
  ASSUME NEW dx \in Int, NEW dy \in Int, Longer(dx, dy) # 0, NEW i \in Nat \ {0}
  PROVE  /\ Due(dx, dy, i - 1) \in Nat
         /\ Due(dx, dy, i) = Due(dx, dy, i - 1) + Shorter(dx, dy)
<1>1. Longer(dx, dy) \in Nat /\ Shorter(dx, dy) \in Nat
  BY LongAndShort
<1> DEFINE l == Longer(dx, dy)
           s == Shorter(dx, dy)
<1> HIDE DEF l, s
<1>2. l \in Nat /\ s \in Nat
  BY <1>1 DEF l, s
<1>3. l \div 2 \in Nat /\ (i - 1) * s \in Nat /\ i * s = (i - 1) * s + s
  BY <1>2
<1>4. l \div 2 + (i - 1) * s \in Nat /\ l \div 2 + i * s = (l \div 2 + (i - 1) * s) + s
  BY <1>2, <1>3
<1> QED
  BY <1>4 DEF Due, l, s

\* One turn takes the line from one of these states to the next.
LEMMA WalkedTurn ==
  ASSUME NEW x0 \in Int, NEW y0 \in Int, NEW dx \in Int, NEW dy \in Int,
         Longer(dx, dy) # 0, NEW i \in Nat \ {0}
  PROVE  /\ Walked(x0, y0, dx, dy, i) = DiagTurn(Walked(x0, y0, dx, dy, i - 1), dx, dy)
         /\ Along(dx, dy, i) - Along(dx, dy, i - 1) \in {0, 1}
         /\ Down(dx, dy, i) - Down(dx, dy, i - 1) \in {0, 1}
         /\ Along(dx, dy, i - 1) \in Int /\ Down(dx, dy, i - 1) \in Int
<1> DEFINE l == Longer(dx, dy)
           s == Shorter(dx, dy)
           e == Due(dx, dy, i - 1)
           m == MinorStep(e % l, s, l)
           wide == abs(dx) >= abs(dy)
<1>1. l \in Nat \ {0} /\ s \in 0 .. l /\ e \in Nat /\ Due(dx, dy, i) = e + s
  BY LongAndShort, DueGrows
<1>2. m.err = (e + s) % l /\ (e + s) \div l = e \div l + m.moves /\ m.moves \in {0, 1}
  <2> HIDE DEF l, s, e
  <2> QED
    BY <1>1, MinorAdvances
<1>3. e \div l \in Int
  <2> HIDE DEF l, s, e
  <2> QED
    BY <1>1, Division
<1> DEFINE h == IF wide THEN 1 ELSE m.moves
           v == IF wide THEN m.moves ELSE 1
           a == Along(dx, dy, i - 1)
           d == Down(dx, dy, i - 1)
<1>4. h \in {0, 1} /\ v \in {0, 1} /\ a \in Int /\ d \in Int
  <2>1. a = (IF wide THEN i - 1 ELSE e \div l) /\ d = (IF wide THEN e \div l ELSE i - 1)
    BY DEF Along, Down
  <2> HIDE DEF m, a, d, e, l
  <2> QED
    BY <1>2, <1>3, <2>1
<1>5. Along(dx, dy, i) = a + h /\ Down(dx, dy, i) = d + v
  <2>1. Along(dx, dy, i) = (IF wide THEN i ELSE (e + s) \div l) /\ a = (IF wide THEN i - 1 ELSE e \div l)
    BY <1>1 DEF Along
  <2>2. Down(dx, dy, i) = (IF wide THEN (e + s) \div l ELSE i) /\ d = (IF wide THEN e \div l ELSE i - 1)
    BY <1>1 DEF Down
  <2> HIDE DEF m, a, d, e, l, s, wide
  <2> QED
    BY <1>2, <2>1, <2>2
<1>6. sign(dx) \in Int /\ sign(dy) \in Int
  BY SignAndSize
<1>7. /\ x0 + sign(dx) * (a + h) = (x0 + sign(dx) * a) + sign(dx) * h
      /\ y0 + sign(dy) * (d + v) = (y0 + sign(dy) * d) + sign(dy) * v
  <2> HIDE DEF h, v, a, d
  <2> QED
    BY <1>4, <1>6
<1>8. Walked(x0, y0, dx, dy, i) =
        [err |-> (e + s) % l, px |-> x0 + sign(dx) * (a + h), py |-> y0 + sign(dy) * (d + v)]
  BY <1>1, <1>5, Zenon DEF Walked
<1>9. DiagTurn(Walked(x0, y0, dx, dy, i - 1), dx, dy) =
        [err |-> m.err, px |-> (x0 + sign(dx) * a) + sign(dx) * h, py |-> (y0 + sign(dy) * d) + sign(dy) * v]
  <2> DEFINE w == Walked(x0, y0, dx, dy, i - 1)
  <2>1. w.err = e % l /\ w.px = x0 + sign(dx) * a /\ w.py = y0 + sign(dy) * d
    BY DEF Walked
  <2> HIDE DEF w
  <2>2. DiagTurn(w, dx, dy) =
          [err |-> MinorStep(w.err, s, l).err,
           px |-> w.px + sign(dx) * (IF wide THEN 1 ELSE MinorStep(w.err, s, l).moves),
           py |-> w.py + sign(dy) * (IF wide THEN MinorStep(w.err, s, l).moves ELSE 1)]
    BY Zenon DEF DiagTurn
  <2>3. DiagTurn(w, dx, dy) = [err |-> m.err, px |-> w.px + sign(dx) * h, py |-> w.py + sign(dy) * v]
    BY <2>1, <2>2, Zenon
  <2> QED
    BY <2>1, <2>3, Zenon DEF w
<1>10. Walked(x0, y0, dx, dy, i) = DiagTurn(Walked(x0, y0, dx, dy, i - 1), dx, dy)
  BY <1>2, <1>7, <1>8, <1>9, Zenon
<1> HIDE DEF h, v, a, d
<1>11. (a + h) - a \in {0, 1} /\ (d + v) - d \in {0, 1}
  BY <1>4
<1>12. /\ Along(dx, dy, i) - Along(dx, dy, i - 1) \in {0, 1}
       /\ Down(dx, dy, i) - Down(dx, dy, i - 1) \in {0, 1}
       /\ Along(dx, dy, i - 1) \in Int /\ Down(dx, dy, i - 1) \in Int
  BY <1>4, <1>5, <1>11, Zenon DEF a, d
<1> QED
  BY <1>10, <1>12

\* The line starts at its corner and, half a step of error or not, comes out
\* at its other end.
LEMMA WalkedEnds ==
  ASSUME NEW dx \in Int, NEW dy \in Int, Longer(dx, dy) # 0
  PROVE  /\ Due(dx, dy, 0) % Longer(dx, dy) = Longer(dx, dy) \div 2
         /\ Along(dx, dy, 0) = 0 /\ Down(dx, dy, 0) = 0
         /\ Along(dx, dy, Longer(dx, dy)) = abs(dx) /\ Down(dx, dy, Longer(dx, dy)) = abs(dy)
<1> DEFINE l == Longer(dx, dy)
           s == Shorter(dx, dy)
<1>1. l \in Nat \ {0} /\ s \in 0 .. l
  BY LongAndShort
<1>2. Due(dx, dy, 0) = l \div 2 + 0 * s /\ Due(dx, dy, l) = l \div 2 + l * s
  BY DEF Due
<1>3. /\ Along(dx, dy, 0) = (IF abs(dx) >= abs(dy) THEN 0 ELSE Due(dx, dy, 0) \div l)
      /\ Down(dx, dy, 0) = (IF abs(dx) >= abs(dy) THEN Due(dx, dy, 0) \div l ELSE 0)
      /\ Along(dx, dy, l) = (IF abs(dx) >= abs(dy) THEN l ELSE Due(dx, dy, l) \div l)
      /\ Down(dx, dy, l) = (IF abs(dx) >= abs(dy) THEN Due(dx, dy, l) \div l ELSE l)
  BY DEF Along, Down
<1>4. l = (IF abs(dx) >= abs(dy) THEN abs(dx) ELSE abs(dy))
      /\ s = (IF abs(dx) >= abs(dy) THEN abs(dy) ELSE abs(dx))
  BY DEF Longer, Shorter
<1> HIDE DEF l, s
<1>5. l \div 2 \in 0 .. l - 1
  BY <1>1
<1>6. Due(dx, dy, 0) = 0 * l + l \div 2 /\ Due(dx, dy, l) = s * l + l \div 2
  BY <1>1, <1>2, <1>5
<1>7. Due(dx, dy, 0) \div l = 0 /\ Due(dx, dy, 0) % l = l \div 2
  BY <1>1, <1>5, <1>6, Divided
<1>8. Due(dx, dy, l) \div l = s
  <2> DEFINE h == l \div 2
  <2>1. s \in Int /\ h \in 0 .. l - 1 /\ Due(dx, dy, l) = s * l + h
    BY <1>1, <1>5, <1>6
  <2> HIDE DEF h
  <2> QED
    BY <1>1, <2>1, Divided
<1>9. /\ Along(dx, dy, 0) = 0 /\ Down(dx, dy, 0) = 0
      /\ Along(dx, dy, l) = abs(dx) /\ Down(dx, dy, l) = abs(dy)
  BY <1>3, <1>4, <1>7, <1>8
<1> QED
  BY <1>7, <1>9 DEF l

\* The pixels of the line, in closed form.
LEMMA DiagPixels ==
  ASSUME NEW x0 \in Int, NEW y0 \in Int, NEW dx \in Int, NEW dy \in Int, Longer(dx, dy) # 0
  PROVE  drawDiagLine(x0, y0, dx, dy) =
           [i \in 1 .. Longer(dx, dy) |-> <<x0 + sign(dx) * Along(dx, dy, i),
                                            y0 + sign(dy) * Down(dx, dy, i)>>]
<1> DEFINE n == Longer(dx, dy)
           first == [err |-> n \div 2, px |-> x0, py |-> y0]
           G(k) == Walked(x0, y0, dx, dy, k)
           turn(z) == DiagTurn(z, dx, dy)
           Runs(f) == f = [k \in 0 .. n |-> IF k = 0 THEN first ELSE turn(f[k - 1])]
           x == CHOOSE f : Runs(f)
<1>1. n \in Nat
  BY LongAndShort
<1>2. G(0) = first
  <2>1. sign(dx) * 0 = 0 /\ sign(dy) * 0 = 0
    BY SignAndSize
  <2>2. x0 + 0 = x0 /\ y0 + 0 = y0
    OBVIOUS
  <2> QED
    BY <2>1, <2>2, WalkedEnds DEF Walked
<1>3. \A k \in 1 .. n : G(k) = turn(G(k - 1))
  <2> SUFFICES ASSUME NEW k \in 1 .. n PROVE G(k) = turn(G(k - 1))
    OBVIOUS
  <2>1. k \in Nat \ {0}
    BY <1>1
  <2> QED
    BY <2>1, WalkedTurn
<1>4. drawDiagLine(x0, y0, dx, dy) = [i \in 1 .. n |-> <<x[i].px, x[i].py>>]
  BY DEF drawDiagLine
<1>5. \A k \in 1 .. n : G(k).px = x0 + sign(dx) * Along(dx, dy, k) /\ G(k).py = y0 + sign(dy) * Down(dx, dy, k)
  BY DEF Walked
<1> HIDE DEF G, turn, first, n
<1>6. Runs([k \in 0 .. n |-> G(k)])
  <2>1. \A k \in 0 .. n : G(k) = IF k = 0 THEN first ELSE turn(G(k - 1))
    BY <1>1, <1>2, <1>3
  <2>2. \A k \in 0 .. n : k # 0 => k - 1 \in 0 .. n
    BY <1>1
  <2> QED
    BY <2>1, <2>2
<1>7. \E f : Runs(f)
  BY <1>6
<1>8. Runs(x)
  <2> HIDE DEF Runs
  <2> QED
    BY <1>7
<1> HIDE DEF x
<1>9. x[0] = first /\ \A k \in 1 .. n : x[k] = turn(x[k - 1])
  BY <1>1, <1>8
<1> DEFINE S == { k \in 0 .. n : x[k] = G(k) }
<1>10. 0 \in S
  BY <1>1, <1>2, <1>9
<1>11. \A k \in 1 .. n : k - 1 \in S => k \in S
  BY <1>1, <1>3, <1>9
<1>12. \A k \in 0 .. n : k \in S
  <2> HIDE DEF S
  <2> QED
    BY <1>1, <1>10, <1>11, UpTo
<1>13. \A k \in 1 .. n : x[k] = G(k)
  BY <1>1, <1>12
<1> HIDE DEF S
<1>14. drawDiagLine(x0, y0, dx, dy) =
         [i \in 1 .. n |-> <<x0 + sign(dx) * Along(dx, dy, i), y0 + sign(dy) * Down(dx, dy, i)>>]
  BY <1>4, <1>5, <1>13
<1> QED
  BY <1>14 DEF n

(***************************************************************************)
(* drawDiagLine, for every length and direction: each pixel is a neighbour *)
(* of the one before it and another than it, and the last is the end that  *)
(* was asked for (LineEnds, which the library run checks for lines of up   *)
(* to five pixels each way).                                               *)
(***************************************************************************)
THEOREM LinesAlwaysEnd ==
  ASSUME NEW x0 \in Int, NEW y0 \in Int, NEW dx \in Int, NEW dy \in Int
  PROVE  LineEnds(x0, y0, dx, dy)
<1> DEFINE n == Longer(dx, dy)
           line == <<<<x0, y0>>>> \o drawDiagLine(x0, y0, dx, dy)
<1>1. n \in Nat /\ n = (IF abs(dx) >= abs(dy) THEN abs(dx) ELSE abs(dy))
  BY LongAndShort DEF Longer
<1>2. CASE n = 0
  <2>1. drawDiagLine(x0, y0, dx, dy) = << >>
    BY <1>2 DEF drawDiagLine
  <2>2. line = <<<<x0, y0>>>>
    BY <2>1
  <2>3. dx = 0 /\ dy = 0
    BY <1>1, <1>2, SignAndSize
  <2>4. x0 + dx = x0 /\ y0 + dy = y0
    BY <2>3
  <2>5. Len(line) = 1 /\ line[1] = <<x0, y0>>
    BY <2>2
  <2> HIDE DEF line
  <2>6. Last(line) = <<x0 + dx, y0 + dy>>
    BY <2>4, <2>5 DEF Last
  <2>7. 1 .. Len(line) - 1 = {}
    BY <2>5
  <2> QED
    BY <2>6, <2>7 DEF LineEnds, line
<1>3. CASE n # 0
  <2> DEFINE X(i) == x0 + sign(dx) * Along(dx, dy, i)
             Y(i) == y0 + sign(dy) * Down(dx, dy, i)
             diag == drawDiagLine(x0, y0, dx, dy)
  <2>1. diag = [i \in 1 .. n |-> <<X(i), Y(i)>>]
    BY <1>3, DiagPixels
  <2>2. Along(dx, dy, 0) = 0 /\ Down(dx, dy, 0) = 0 /\ Along(dx, dy, n) = abs(dx) /\ Down(dx, dy, n) = abs(dy)
    BY <1>3, WalkedEnds
  <2>3. X(0) = x0 /\ Y(0) = y0
    BY <2>2, SignAndSize
  <2>4. X(n) = x0 + dx /\ Y(n) = y0 + dy
    BY <2>2, SignAndSize
  <2>5. ASSUME NEW i \in 1 .. n
        PROVE  /\ X(i) - X(i - 1) \in -1 .. 1 /\ Y(i) - Y(i - 1) \in -1 .. 1
               /\ X(i) # X(i - 1) \/ Y(i) # Y(i - 1)
    <3> DEFINE a == Along(dx, dy, i - 1)
               b == Along(dx, dy, i)
               c == Down(dx, dy, i - 1)
               d == Down(dx, dy, i)
               wide == abs(dx) >= abs(dy)
    <3>1. a \in Int /\ c \in Int /\ b - a \in {0, 1} /\ d - c \in {0, 1}
      BY <1>1, <1>3, WalkedTurn
    <3>2. (wide => b = i /\ a = i - 1) /\ (~wide => d = i /\ c = i - 1)
      BY DEF Along, Down
    <3>3. b \in Int /\ d \in Int
      <4> DEFINE k == i + 1
      <4>1. k \in Nat \ {0} /\ k - 1 = i
        BY <1>1
      <4> HIDE DEF k
      <4>2. Along(dx, dy, k - 1) \in Int /\ Down(dx, dy, k - 1) \in Int
        BY <1>3, <4>1, WalkedTurn
      <4> QED
        BY <4>1, <4>2
    <3>4. sign(dx) \in {-1, 0, 1} /\ sign(dy) \in {-1, 0, 1}
      BY SignAndSize
    <3>5. (wide => sign(dx) # 0) /\ (~wide => sign(dy) # 0)
      BY <1>1, <1>3, SignAndSize
    <3> HIDE DEF a, b, c, d, wide
    <3>6. /\ X(i) - X(i - 1) = sign(dx) * (b - a)
          /\ Y(i) - Y(i - 1) = sign(dy) * (d - c)
          /\ X(i) \in Int /\ X(i - 1) \in Int /\ Y(i) \in Int /\ Y(i - 1) \in Int
      <4>1. /\ (x0 + sign(dx) * b) - (x0 + sign(dx) * a) = sign(dx) * (b - a)
            /\ (y0 + sign(dy) * d) - (y0 + sign(dy) * c) = sign(dy) * (d - c)
            /\ x0 + sign(dx) * b \in Int /\ x0 + sign(dx) * a \in Int
            /\ y0 + sign(dy) * d \in Int /\ y0 + sign(dy) * c \in Int
        BY <3>1, <3>3, <3>4
      <4> QED
        BY <4>1 DEF a, b, c, d
    <3>7. sign(dx) * (b - a) \in -1 .. 1 /\ sign(dy) * (d - c) \in -1 .. 1
      BY <3>1, <3>3, <3>4
    <3>8. (wide => sign(dx) * (b - a) # 0) /\ (~wide => sign(dy) * (d - c) # 0)
      BY <1>1, <3>2, <3>4, <3>5
    <3> HIDE DEF X, Y
    <3> QED
      BY <3>6, <3>7, <3>8
  <2> HIDE DEF X, Y
  <2>6. Len(line) = n + 1 /\ \A i \in 0 .. n : line[i + 1] = <<X(i), Y(i)>>
    <3> DEFINE T == { <<X(i), Y(i)>> : i \in 1 .. n }
    <3>1. diag \in [1 .. n -> T]
      BY <2>1
    <3>2. Len(diag) = n /\ \A i \in 1 .. n : diag[i] = <<X(i), Y(i)>>
      BY <1>1, <2>1
    <3> HIDE DEF T
    <3>3. diag \in Seq(T)
      BY <1>1, <3>1, SeqDef
    <3> HIDE DEF diag
    <3>4. Len(line) = 1 + n /\ line[1] = <<x0, y0>> /\ \A i \in 1 .. n : line[i + 1] = diag[i]
      BY <1>1, <3>2, <3>3 DEF diag
    <3> QED
      BY <1>1, <2>3, <3>2, <3>4
  <2> HIDE DEF line, n
  <2>7. Last(line) = <<x0 + dx, y0 + dy>>
    BY <1>1, <2>4, <2>6 DEF Last
  <2>8. ASSUME NEW i \in 1 .. Len(line) - 1
        PROVE  /\ \A c \in 1 .. 2 : abs(line[i + 1][c] - line[i][c]) <= 1
               /\ line[i + 1] # line[i]
    <3>1. i \in 1 .. n /\ i - 1 \in 0 .. n /\ i \in 0 .. n /\ (i - 1) + 1 = i
      BY <1>1, <2>6
    <3>2. line[i + 1] = <<X(i), Y(i)>> /\ line[i] = <<X(i - 1), Y(i - 1)>>
      BY <2>6, <3>1
    <3>3. /\ X(i) - X(i - 1) \in -1 .. 1 /\ Y(i) - Y(i - 1) \in -1 .. 1
          /\ X(i) # X(i - 1) \/ Y(i) # Y(i - 1)
      BY <2>5, <3>1
    <3>4. abs(X(i) - X(i - 1)) <= 1 /\ abs(Y(i) - Y(i - 1)) <= 1
      BY <3>3 DEF abs
    <3>5. \A c \in 1 .. 2 : c = 1 \/ c = 2
      OBVIOUS
    <3> QED
      BY <3>2, <3>3, <3>4, <3>5
  <2> QED
    BY <2>7, <2>8 DEF LineEnds, line
<1> QED
  BY <1>2, <1>3

-----------------------------------------------------------------------------
(* pMemory::init. *)

Entry == [base : Nat, length : Nat, usable : BOOLEAN]
PagesOf(e) == Run(e.base, e.length)

(***************************************************************************)
(* The memory maps stivale2 hands over: usable entries do not overlap, and *)
(* page 0 is in none of them.                                              *)
(***************************************************************************)
MapOfMemory(memmap) ==
  /\ memmap \in Seq(Entry)
  /\ \A i \in 1 .. Len(memmap) : memmap[i].usable => memmap[i].base # 0
  /\ \A i, j \in 1 .. Len(memmap) :
       i # j /\ memmap[i].usable /\ memmap[j].usable => PagesOf(memmap[i]) \cap PagesOf(memmap[j]) = {}

\* The usable pages of the first i entries.
UsableUpTo(m, i) == UNION { PagesOf(m[k]) : k \in { k \in 1 .. i : m[k].usable } }

LEMMA EntryPages ==
  ASSUME NEW e \in Entry, e.base # 0
  PROVE  /\ IsFiniteSet(PagesOf(e)) /\ Cardinality(PagesOf(e)) = e.length
         /\ e.base \in Nat \ {0} /\ e.length \in Nat
         /\ \A p \in PagesOf(e) : p \in Nat \ {0} /\ p < e.base + e.length
<1>1. e.base \in Nat \ {0} /\ e.length \in Nat
  BY DEF Entry
<1>2. PagesOf(e) = e.base .. e.base + e.length - 1
  BY DEF PagesOf, Run
<1>3. IsFiniteSet(PagesOf(e)) /\ Cardinality(PagesOf(e)) = e.length
  <2> DEFINE a == e.base
             b == e.base + e.length - 1
  <2>1. a \in Int /\ b \in Int /\ PagesOf(e) = a .. b /\ e.length = IF a > b THEN 0 ELSE b - a + 1
    BY <1>1, <1>2
  <2> HIDE DEF a, b
  <2>2. IsFiniteSet(a .. b) /\ Cardinality(a .. b) = IF a > b THEN 0 ELSE b - a + 1
    BY <2>1, FS_Interval
  <2> QED
    BY <2>1, <2>2
<1> QED
  BY <1>1, <1>2, <1>3

LEMMA MaxOfTwo ==
  ASSUME NEW a \in Nat, NEW b \in Nat
  PROVE  Max({a, b}) \in Nat /\ a <= Max({a, b}) /\ b <= Max({a, b})
<1>1. \E x \in {a, b} : \A y \in {a, b} : x >= y
  <2>1. CASE a >= b
    BY <2>1
  <2>2. CASE b >= a
    BY <2>2
  <2> QED
    BY <2>1, <2>2
<1>2. Max({a, b}) \in {a, b} /\ \A y \in {a, b} : Max({a, b}) >= y
  BY <1>1 DEF Max
<1> HIDE DEF Max
<1> QED
  BY <1>2

\* What one more entry adds to the usable pages.
LEMMA UsableGrows ==
  ASSUME NEW m, NEW i \in Nat \ {0}
  PROVE  /\ m[i].usable => UsableUpTo(m, i) = UsableUpTo(m, i - 1) \cup PagesOf(m[i])
         /\ ~m[i].usable => UsableUpTo(m, i) = UsableUpTo(m, i - 1)
<1>1. \A k : k \in 1 .. i <=> k \in 1 .. i - 1 \/ k = i
  OBVIOUS
<1>2. \A p : p \in UsableUpTo(m, i) <=> \E k \in 1 .. i : m[k].usable /\ p \in PagesOf(m[k])
  BY Zenon DEF UsableUpTo
<1>3. \A p : p \in UsableUpTo(m, i - 1) <=> \E k \in 1 .. i - 1 : m[k].usable /\ p \in PagesOf(m[k])
  BY Zenon DEF UsableUpTo
<1>4. CASE m[i].usable
  <2>1. \A p : p \in UsableUpTo(m, i) <=> p \in UsableUpTo(m, i - 1) \cup PagesOf(m[i])
    BY <1>1, <1>2, <1>3, <1>4, Zenon
  <2> QED
    BY <1>4, <2>1, Zenon
<1>5. CASE ~m[i].usable
  <2>1. \A p : p \in UsableUpTo(m, i) <=> p \in UsableUpTo(m, i - 1)
    BY <1>1, <1>2, <1>3, <1>5, Zenon
  <2> QED
    BY <1>5, <2>1, Zenon
<1> QED
  BY <1>4, <1>5, Zenon

\* Two entries share no page, nor does an entry with those before it.
LEMMA EntryIsNew ==
  ASSUME NEW m, MapOfMemory(m), NEW i \in 1 .. Len(m), m[i].usable
  PROVE  UsableUpTo(m, i - 1) \cap PagesOf(m[i]) = {}
<1> SUFFICES ASSUME NEW p \in UsableUpTo(m, i - 1), p \in PagesOf(m[i]) PROVE FALSE
  OBVIOUS
<1>1. PICK k \in 1 .. i - 1 : m[k].usable /\ p \in PagesOf(m[k])
  BY Zenon DEF UsableUpTo
<1>2. Len(m) \in Nat
  BY DEF MapOfMemory
<1>3. k \in 1 .. Len(m) /\ k # i
  BY <1>2
<1>4. PagesOf(m[k]) \cap PagesOf(m[i]) = {}
  BY <1>1, <1>3, Zenon DEF MapOfMemory
<1> QED
  BY <1>1, <1>4

\* f[i] is what the first pass has after i entries.
Measuring(f, m, n) ==
  f = [i \in 0 .. n |-> IF i = 0 THEN [freeRam |-> 0, highPage |-> 0] ELSE MeasureEntry(f[i - 1], m[i])]

LEMMA MeasuringExists ==
  ASSUME NEW m, NEW n \in Nat
  PROVE  \E f : Measuring(f, m, n)
<1> DEFINE S == { k \in 0 .. n : \E f : Measuring(f, m, k) }
           zero == [freeRam |-> 0, highPage |-> 0]
<1>1. 0 \in S
  <2>1. Measuring([i \in 0 .. 0 |-> zero], m, 0)
    BY DEF Measuring
  <2> QED
    BY <2>1
<1>2. ASSUME NEW k \in 1 .. n, k - 1 \in S PROVE k \in S
  <2>1. PICK f : Measuring(f, m, k - 1)
    BY <1>2
  <2> DEFINE g == [i \in 0 .. k |-> IF i = k THEN MeasureEntry(f[k - 1], m[k]) ELSE f[i]]
  <2> HIDE DEF zero
  <2>2. ASSUME NEW i \in 0 .. k PROVE g[i] = IF i = 0 THEN zero ELSE MeasureEntry(g[i - 1], m[i])
    <3>1. CASE i = k
      <4>1. g[i] = MeasureEntry(f[k - 1], m[k]) /\ g[i - 1] = f[k - 1] /\ i # 0
        BY <3>1
      <4> QED
        BY <3>1, <4>1
    <3>2. CASE i # k
      <4>1. i \in 0 .. k - 1 /\ g[i] = f[i] /\ (i # 0 => g[i - 1] = f[i - 1])
        BY <3>2
      <4> QED
        BY <2>1, <4>1 DEF Measuring, zero
    <3> QED
      BY <3>1, <3>2
  <2>3. Measuring(g, m, k)
    <3>1. g = [i \in 0 .. k |-> g[i]]
      OBVIOUS
    <3> HIDE DEF g
    <3> QED
      BY <2>2, <3>1 DEF Measuring, zero
  <2>4. \E h : Measuring(h, m, k)
    BY <2>3
  <2> QED
    BY <2>4
<1>3. n \in S
  <2> HIDE DEF S
  <2> QED
    BY <1>1, <1>2, UpTo
<1> QED
  BY <1>3

(***************************************************************************)
(* The first pass counts the usable pages, and all of them are below the   *)
(* top it finds.                                                           *)
(***************************************************************************)
LEMMA MeasureCounts ==
  ASSUME NEW m, MapOfMemory(m)
  PROVE  /\ IsFiniteSet(UsableOf(m)) /\ Measure(m).freeRam = Cardinality(UsableOf(m))
         /\ Measure(m).highPage \in Nat
         /\ \A p \in UsableOf(m) : p \in Nat \ {0} /\ p < Measure(m).highPage
<1> DEFINE n == Len(m)
           f == CHOOSE g : Measuring(g, m, n)
           U(i) == UsableUpTo(m, i)
           Good(i) == /\ IsFiniteSet(U(i)) /\ f[i].freeRam = Cardinality(U(i))
                      /\ f[i].highPage \in Nat
                      /\ \A p \in U(i) : p \in Nat \ {0} /\ p < f[i].highPage
           S == { i \in 0 .. n : Good(i) }
<1>1. n \in Nat /\ \A i \in 1 .. n : m[i] \in Entry
  BY DEF MapOfMemory
<1>2. Measure(m) = f[n]
  BY DEF Measure, Measuring
<1>3. Measuring(f, m, n)
  BY <1>1, MeasuringExists
<1> HIDE DEF f, n
<1>4. f[0] = [freeRam |-> 0, highPage |-> 0] /\ \A i \in 1 .. n : f[i] = MeasureEntry(f[i - 1], m[i])
  BY <1>1, <1>3 DEF Measuring
<1>5. 0 \in S
  <2>1. 1 .. 0 = {}
    OBVIOUS
  <2>2. U(0) = {}
    BY <2>1 DEF UsableUpTo
  <2> QED
    BY <1>1, <1>4, <2>2, FS_EmptySet
<1>6. ASSUME NEW i \in 1 .. n, i - 1 \in S PROVE i \in S
  <2> DEFINE e == m[i]
             a == f[i - 1]
             V == U(i - 1)
  <2>1. Good(i - 1) /\ e \in Entry /\ i \in Nat \ {0} /\ i \in 0 .. n /\ f[i] = MeasureEntry(a, e)
    BY <1>1, <1>4, <1>6
  <2>2. CASE ~e.usable
    <3>1. f[i] = a
      BY <2>1, <2>2, Zenon DEF MeasureEntry
    <3>2. U(i) = V
      BY <2>1, <2>2, UsableGrows, Zenon
    <3>3. Good(i)
      BY <2>1, <3>1, <3>2, Zenon
    <3> QED
      BY <2>1, <3>3
  <2>3. CASE e.usable
    <3>1. f[i] = [freeRam |-> a.freeRam + e.length, highPage |-> Max({a.highPage, e.base + e.length})]
      BY <2>1, <2>3, Zenon DEF MeasureEntry
    <3>2. U(i) = V \cup PagesOf(e)
      BY <2>1, <2>3, UsableGrows, Zenon
    <3>3. V \cap PagesOf(e) = {}
      BY <2>3, EntryIsNew, Zenon DEF n
    <3>4. /\ IsFiniteSet(PagesOf(e)) /\ Cardinality(PagesOf(e)) = e.length
          /\ e.base \in Nat \ {0} /\ e.length \in Nat
          /\ \A p \in PagesOf(e) : p \in Nat \ {0} /\ p < e.base + e.length
      <4>1. e.base # 0
        BY <2>3, Zenon DEF MapOfMemory, n
      <4> QED
        BY <2>1, <4>1, EntryPages
    <3>5. IsFiniteSet(V) /\ a.freeRam = Cardinality(V) /\ a.highPage \in Nat
          /\ \A p \in V : p \in Nat \ {0} /\ p < a.highPage
      BY <2>1
    <3> DEFINE top == e.base + e.length
               high == Max({a.highPage, top})
    <3>6. top \in Nat
      BY <3>4
    <3> HIDE DEF top
    <3>7. high \in Nat /\ a.highPage <= high /\ top <= high
      BY <3>5, <3>6, MaxOfTwo
    <3>8. f[i].freeRam = a.freeRam + e.length /\ f[i].highPage = high
      BY <3>1 DEF top
    <3> HIDE DEF V, U, high, a, e
    <3>9. IsFiniteSet(U(i)) /\ Cardinality(U(i)) = Cardinality(V) + Cardinality(PagesOf(e)) - Cardinality(V \cap PagesOf(e))
      BY <3>2, <3>4, <3>5, FS_Union
    <3>10. Cardinality(V) \in Nat
      BY <3>5, FS_CardinalityType
    <3>11. f[i].freeRam = Cardinality(U(i))
      BY <3>3, <3>4, <3>5, <3>8, <3>9, <3>10, FS_EmptySet
    <3>12. \A p \in U(i) : p \in Nat \ {0} /\ p < high
      <4>1. \A p \in V : p \in Nat \ {0} /\ p < high
        BY <3>5, <3>7
      <4>2. \A p \in PagesOf(e) : p \in Nat \ {0} /\ p < high
        BY <3>4, <3>6, <3>7 DEF top
      <4> QED
        BY <3>2, <4>1, <4>2
    <3>13. Good(i)
      BY <3>7, <3>8, <3>9, <3>11, <3>12, Zenon
    <3> QED
      BY <2>1, <3>13
  <2> QED
    BY <2>2, <2>3
<1>7. n \in S
  <2> HIDE DEF S
  <2> QED
    BY <1>1, <1>5, <1>6, UpTo
<1>8. Good(n)
  BY <1>7
<1>9. UsableOf(m) = U(n)
  <2>1. DOMAIN m = 1 .. n
    BY DEF MapOfMemory, n
  <2> QED
    BY <2>1 DEF UsableOf, UsableUpTo, PagesOf
<1> QED
  BY <1>2, <1>8, <1>9, Zenon

(***************************************************************************)
(* The bitmap has a bit for every page below the top, unless memory ends   *)
(* one to seven pages above a multiple of PageBits.                        *)
(***************************************************************************)
LEMMA BitmapReachesTop ==
  ASSUME NEW top \in Nat
  PROVE  /\ SizeInPages(top) \in Nat
         /\ top % PageBits \notin 1 .. 7 => top <= SizeInPages(top) * PageBits
<1> DEFINE B == PageBits
           t == (top \div 8) * 8
           r == top % 8
           s == SizeInPages(top)
<1>1. B \in Nat \ {0} /\ B % 8 = 0
  BY PMemoryInitAssumption
<1>2. t \in Nat /\ r \in 0 .. 7 /\ top = t + r
  <2>1. top \div 8 \in Int /\ top % 8 \in 0 .. 8 - 1 /\ top = (top \div 8) * 8 + (top % 8) /\ top \div 8 >= 0
    BY Division
  <2> QED
    BY <2>1
<1>3. s = (t + B - 1) \div B
  BY DEF SizeInPages
<1> HIDE DEF B, t, s, r
<1>4. s \in Nat /\ t <= s * B
  <2> DEFINE d == t + B - 1
  <2>1. d \in Nat /\ d = t + B - 1
    BY <1>1, <1>2
  <2> HIDE DEF d
  <2>2. d \div B \in Nat /\ (d \div B) * B \in Nat /\ d < (d \div B) * B + B
    BY <1>1, <2>1, Quotient
  <2>3. s = d \div B
    BY <1>3 DEF d
  <2> QED
    BY <1>1, <1>2, <2>1, <2>2, <2>3
<1>5. ASSUME top % B \notin 1 .. 7 PROVE top <= s * B
  <2> DEFINE a == top \div B
             b == top % B
             k == B \div 8
  <2>1. a \in Nat /\ b \in 0 .. B - 1 /\ top = a * B + b /\ a * B \in Nat
    <3>1. a \in Int /\ b \in 0 .. B - 1 /\ top = a * B + b /\ a >= 0
      <4>1. top \in Int /\ top >= 0
        OBVIOUS
      <4>2. a \in Int /\ b \in 0 .. B - 1 /\ top = a * B + b
        BY <1>1, <4>1, Division, Zenon
      <4>3. a >= 0
        BY <1>1, <4>1, Division, Zenon
      <4> QED
        BY <4>2, <4>3
    <3> HIDE DEF a, b
    <3> QED
      BY <1>1, <3>1
  <2>2. k \in Nat /\ B = k * 8
    <3>1. k \in Int /\ B = k * 8 + (B % 8) /\ k >= 0
      BY <1>1, Division
    <3> QED
      BY <1>1, <3>1
  <2>3. b \notin 1 .. 7
    BY <1>5
  <2> HIDE DEF a, b, k
  <2>4. CASE b = 0
    <3>1. top = (a * k) * 8 + 0 /\ a * k \in Int
      BY <2>1, <2>2, <2>4
    <3> DEFINE c == a * k
    <3> HIDE DEF c
    <3>2. c \in Int /\ top = c * 8 + 0
      BY <3>1 DEF c
    <3>3. (c * 8 + 0) % 8 = 0
      BY <3>2, Divided
    <3>4. r = 0
      BY <3>2, <3>3 DEF r
    <3> QED
      BY <1>2, <1>4, <3>4
  <2>5. CASE b >= 8
    <3>1. t > a * B
      BY <1>2, <2>1, <2>5
    <3>2. s * B > a * B /\ s * B \in Nat
      BY <1>1, <1>2, <1>4, <2>1, <3>1
    <3>3. s >= a + 1
      <4> SUFFICES ASSUME s <= a PROVE FALSE
        BY <1>4, <2>1
      <4>1. PICK g \in Nat : a = s + g
        BY <1>4, <2>1
      <4>2. a * B = s * B + g * B /\ g * B \in Nat
        BY <1>1, <1>4, <4>1
      <4> QED
        BY <2>1, <3>2, <4>2
    <3>4. PICK g \in Nat : s = (a + 1) + g
      BY <1>4, <2>1, <3>3
    <3>5. s * B = a * B + B + g * B /\ g * B \in Nat
      BY <1>1, <2>1, <3>4
    <3> QED
      BY <1>1, <2>1, <3>2, <3>5
  <2> QED
    BY <1>1, <2>1, <2>3, <2>4, <2>5
<1> QED
  BY <1>4, <1>5 DEF B, s

(***************************************************************************)
(* What is left when the bitmap takes the start of an entry.               *)
(***************************************************************************)
LEMMA StartTaken ==
  ASSUME NEW m, MapOfMemory(m), NEW k \in 1 .. Len(m), NEW pages \in Nat, Fits(m[k], pages)
  PROVE  /\ UsableOf(TakeStart(m, k, pages)) = UsableOf(m) \ Run(m[k].base, pages)
         /\ Run(m[k].base, pages) \subseteq UsableOf(m)
<1> DEFINE left == TakeStart(m, k, pages)
           taken == Run(m[k].base, pages)
           n == Len(m)
<1>1. n \in Nat /\ DOMAIN m = 1 .. n /\ m \in [1 .. n -> Entry]
  BY DEF MapOfMemory
<1>2. m[k].usable /\ m[k].length >= pages /\ m[k].base \in Nat /\ m[k].length \in Nat
  BY <1>1 DEF Fits, Entry
<1>3. DOMAIN left = 1 .. n /\ \A j \in 1 .. n : j # k => left[j] = m[j]
  BY <1>1 DEF TakeStart
<1>4. /\ left[k].base = m[k].base + pages /\ left[k].length = m[k].length - pages
      /\ left[k].usable = m[k].usable
  BY <1>1 DEF TakeStart, Entry
<1>5. PagesOf(left[k]) = PagesOf(m[k]) \ taken /\ taken \subseteq PagesOf(m[k])
  <2> DEFINE b == m[k].base
             l == m[k].length
  <2>1. b \in Nat /\ l \in Nat /\ l >= pages
    BY <1>2
  <2>2. PagesOf(left[k]) = b + pages .. b + pages + (l - pages) - 1
    BY <1>4, Zenon DEF PagesOf, Run
  <2>3. PagesOf(m[k]) = b .. b + l - 1 /\ taken = b .. b + pages - 1
    BY DEF PagesOf, Run
  <2> HIDE DEF b, l, left, taken
  <2> QED
    BY <2>1, <2>2, <2>3
<1>6. ASSUME NEW j \in 1 .. n, j # k, m[j].usable PROVE PagesOf(m[j]) \cap taken = {}
  <2>1. PagesOf(m[j]) \cap PagesOf(m[k]) = {}
    BY <1>2, <1>6, Zenon DEF MapOfMemory
  <2> QED
    BY <1>5, <2>1
<1>7. \A p : p \in UsableOf(m) <=> \E j \in 1 .. n : m[j].usable /\ p \in PagesOf(m[j])
  BY <1>1, Zenon DEF UsableOf, PagesOf
<1>8. \A p : p \in UsableOf(left) <=> \E j \in 1 .. n : left[j].usable /\ p \in PagesOf(left[j])
  BY <1>3, Zenon DEF UsableOf, PagesOf
<1> HIDE DEF left, taken, n
<1>9. taken \subseteq UsableOf(m)
  <2> SUFFICES ASSUME NEW p \in taken PROVE p \in UsableOf(m)
    OBVIOUS
  <2>1. p \in PagesOf(m[k]) /\ k \in 1 .. n
    BY <1>5 DEF n
  <2> QED
    BY <1>2, <1>7, <2>1, Zenon
<1>10. ASSUME NEW p \in UsableOf(left) PROVE p \in UsableOf(m) \ taken
  <2>1. PICK j \in 1 .. n : left[j].usable /\ p \in PagesOf(left[j])
    BY <1>8, Zenon
  <2>2. CASE j = k
    <3>1. p \in PagesOf(m[k]) /\ p \notin taken
      BY <1>5, <2>1, <2>2
    <3> QED
      BY <1>2, <1>7, <2>2, <3>1, Zenon
  <2>3. CASE j # k
    <3>1. m[j].usable /\ p \in PagesOf(m[j])
      BY <1>3, <2>1, <2>3, Zenon
    <3>2. p \notin taken
      BY <1>6, <2>3, <3>1, Zenon
    <3> QED
      BY <1>7, <3>1, <3>2, Zenon
  <2> QED
    BY <2>2, <2>3
<1>11. ASSUME NEW p \in UsableOf(m) \ taken PROVE p \in UsableOf(left)
  <2>1. PICK j \in 1 .. n : m[j].usable /\ p \in PagesOf(m[j])
    BY <1>7, Zenon
  <2>2. CASE j = k
    <3>1. p \in PagesOf(left[k])
      BY <1>5, <2>1, <2>2
    <3>2. left[k].usable
      BY <1>2, <1>4, Zenon
    <3> QED
      BY <1>8, <2>2, <3>1, <3>2, Zenon
  <2>3. CASE j # k
    <3>1. left[j].usable /\ p \in PagesOf(left[j])
      BY <1>3, <2>1, <2>3, Zenon
    <3> QED
      BY <1>8, <3>1, Zenon
  <2> QED
    BY <2>2, <2>3
<1>12. UsableOf(left) = UsableOf(m) \ taken
  BY <1>10, <1>11
<1> QED
  BY <1>9, <1>12 DEF left, taken

(***************************************************************************)
(* init, for every memory map: the pages it makes available are the usable *)
(* ones outside the bitmap, freeRam counts them, page 0 is not one of them *)
(* and each has its bit in the bitmap, with the one exception that is      *)
(* stated (HandsOverUsablePages, which the library run checks for maps of  *)
(* three entries).                                                         *)
(***************************************************************************)
THEOREM InitAlwaysHandsOver ==
  ASSUME NEW memmap, MapOfMemory(memmap)
  PROVE  HandsOverUsablePages(memmap)
<1> DEFINE measured == Measure(memmap)
           pages == SizeInPages(measured.highPage)
           fitting == { k \in DOMAIN memmap : Fits(memmap[k], pages) }
           k0 == Min(fitting)
           left == IF fitting = {} THEN memmap ELSE TakeStart(memmap, k0, pages)
           usable == UsableOf(left)
           buffer == IF fitting = {} THEN 0 ELSE memmap[k0].base
           freeRam == measured.freeRam - (IF fitting = {} THEN 0 ELSE pages)
           cleared == { p \in usable : p < pages * PageBits }
           stray == { p \in usable : p >= pages * PageBits }
           all == UsableOf(memmap)
<1>1. PMemory_init(memmap) =
        [buffer |-> buffer, bitmapPages |-> pages, highPage |-> measured.highPage,
         freeRam |-> freeRam, cleared |-> cleared, stray |-> stray]
  BY Zenon DEF PMemory_init
<1>2. /\ IsFiniteSet(all) /\ measured.freeRam = Cardinality(all) /\ measured.highPage \in Nat
      /\ \A p \in all : p \in Nat \ {0} /\ p < measured.highPage
  BY MeasureCounts, Zenon
<1>3. /\ pages \in Nat
      /\ measured.highPage % PageBits \notin 1 .. 7 => measured.highPage <= pages * PageBits
  BY <1>2, BitmapReachesTop
<1>4. pages * PageBits \in Nat
  <2> HIDE DEF pages
  <2> QED
    BY <1>3, PMemoryInitAssumption
<1>5. fitting \subseteq Nat /\ fitting \subseteq 1 .. Len(memmap)
  BY DEF MapOfMemory
<1> HIDE DEF measured, pages
<1>6. fitting # {} => k0 \in fitting
  <2> HIDE DEF fitting
  <2> QED
    BY <1>5, MinOfNaturals
<1>7. fitting # {} => /\ usable = all \ Run(buffer, pages) /\ Run(buffer, pages) \subseteq all
                      /\ buffer \in Nat
  <2> SUFFICES ASSUME fitting # {}
               PROVE  /\ usable = all \ Run(buffer, pages) /\ Run(buffer, pages) \subseteq all
                      /\ buffer \in Nat
    OBVIOUS
  <2>1. k0 \in 1 .. Len(memmap) /\ Fits(memmap[k0], pages)
    BY <1>5, <1>6
  <2>2. buffer = memmap[k0].base /\ left = TakeStart(memmap, k0, pages)
    OBVIOUS
  <2> HIDE DEF k0, fitting
  <2>3. /\ UsableOf(TakeStart(memmap, k0, pages)) = all \ Run(memmap[k0].base, pages)
        /\ Run(memmap[k0].base, pages) \subseteq all
    BY <1>3, <2>1, StartTaken
  <2>4. memmap[k0].base \in Nat
    <3>1. memmap[k0] \in Entry
      BY <2>1, ElementOfSeq DEF MapOfMemory
    <3> QED
      BY <3>1 DEF Entry
  <2> HIDE DEF left, buffer, all
  <2> QED
    BY <2>2, <2>3, <2>4
<1>8. usable \subseteq all
  <2>1. CASE fitting = {}
    BY <2>1
  <2>2. CASE fitting # {}
    BY <1>7, <2>2
  <2> QED
    BY <2>1, <2>2
<1>9. cleared \cup stray = usable
  <2>1. \A p \in usable : p \in Nat
    BY <1>2, <1>8
  <2> HIDE DEF usable
  <2> QED
    BY <1>4, <2>1
<1>10. measured.highPage % PageBits \notin 1 .. 7 => stray = {}
  <2> SUFFICES ASSUME measured.highPage % PageBits \notin 1 .. 7, NEW p \in stray PROVE FALSE
    OBVIOUS
  <2>1. p \in all /\ p >= pages * PageBits
    BY <1>8
  <2> HIDE DEF stray, all
  <2>2. p \in Nat /\ p < measured.highPage /\ measured.highPage <= pages * PageBits
    BY <1>2, <1>3, <2>1
  <2> QED
    BY <1>2, <1>4, <2>1, <2>2
<1>11. 0 \notin cleared
  BY <1>2, <1>8
<1>12. fitting # {} => freeRam = Cardinality(cleared \cup stray)
  <2> SUFFICES ASSUME fitting # {} PROVE freeRam = Cardinality(cleared \cup stray)
    OBVIOUS
  <2> DEFINE taken == Run(buffer, pages)
  <2>1. freeRam = Cardinality(all) - pages
    BY <1>2
  <2>2. Cardinality(taken) = pages
    <3> DEFINE b == buffer + pages - 1
    <3> HIDE DEF buffer, fitting
    <3>1. buffer \in Int /\ b \in Int /\ taken = buffer .. b /\ pages = IF buffer > b THEN 0 ELSE b - buffer + 1
      BY <1>3, <1>7 DEF Run
    <3> HIDE DEF taken, b
    <3>2. Cardinality(buffer .. b) = IF buffer > b THEN 0 ELSE b - buffer + 1
      BY <3>1, FS_Interval
    <3> QED
      BY <3>1, <3>2
  <2> HIDE DEF buffer, fitting, freeRam, cleared, stray, usable, all
  <2>3. all \cap taken = taken
    BY <1>7
  <2>4. Cardinality(all \ taken) = Cardinality(all) - Cardinality(all \cap taken)
    BY <1>2, FS_Difference
  <2> QED
    BY <1>7, <1>9, <2>1, <2>2, <2>3, <2>4
<1> HIDE DEF usable, freeRam, cleared, stray, all
<1>13. buffer # 0 => fitting # {}
  OBVIOUS
<1> HIDE DEF buffer, fitting
<1>14. buffer # 0 =>
         /\ cleared \cup stray = all \ Run(buffer, pages)
         /\ freeRam = Cardinality(cleared \cup stray)
         /\ Run(buffer, pages) \subseteq all
         /\ 0 \notin cleared
  BY <1>7, <1>9, <1>11, <1>12, <1>13, Zenon
<1> DEFINE r == PMemory_init(memmap)
<1>15. /\ r.buffer = buffer /\ r.bitmapPages = pages /\ r.highPage = measured.highPage
       /\ r.freeRam = freeRam /\ r.cleared = cleared /\ r.stray = stray
  BY <1>1
<1> HIDE DEF r
<1>16. HandsOverUsablePages(memmap) <=>
         /\ r.buffer # 0 =>
              /\ r.cleared \cup r.stray = all \ Run(r.buffer, r.bitmapPages)
              /\ r.freeRam = Cardinality(r.cleared \cup r.stray)
              /\ Run(r.buffer, r.bitmapPages) \subseteq all
              /\ 0 \notin r.cleared
         /\ r.highPage % PageBits \notin 1 .. 7 => r.stray = {}
  BY Zenon DEF HandsOverUsablePages, r, all
<1> QED
  BY <1>10, <1>14, <1>15, <1>16, Zenon

-----------------------------------------------------------------------------
(* The shell's tree. *)

ShellSpec == ShellInit /\ [][ShellNext]_shellVars

TheWords == Names \cup {"~"}
Kept == [name : Names \cup {NullText, "[ROOT]"}, parent : Int, flags : 0 .. 2, ptr : Int,
         childs : Seq(Int), path : Seq(TheWords)]

\* The nodes are numbered from 1 as they are made.
Numbered(t, k) ==
  /\ k \in Nat \ {0} /\ DOMAIN t = 1 .. k
  /\ t \in [1 .. k -> Kept]
  /\ \A m \in 1 .. k : t[m].parent \in {nullptr} \cup 1 .. k
  /\ \A m \in 1 .. k : \A i \in 1 .. Len(t[m].childs) : t[m].childs[i] \in 1 .. k

\* TreeShape, for a tree t and its node n, as far as it can be read off positions.
Shaped(t, n) ==
  LET p == t[n].parent
  IN  p \in DOMAIN t =>
        /\ \E i \in DOMAIN t[p].childs : t[p].childs[i] = n
        /\ \A i, j \in DOMAIN t[p].childs : t[p].childs[i] = n /\ t[p].childs[j] = n => i = j
        /\ \A m \in DOMAIN t \ {p} : \A i \in DOMAIN t[m].childs : t[m].childs[i] # n
        /\ t[n].flags = TFS_FOLDER => t[n].path = Append(t[p].path, t[n].name)

ShellInv ==
  /\ \E k : Numbered(tree, k)
  /\ \A n \in DOMAIN tree : Shaped(tree, n)
  /\ mode \in {"run", "fault"} /\ vfs_lock \in BOOLEAN
  /\ LockFree

\* The next node is the one behind the last.
LEMMA NextIsFresh ==
  ASSUME NEW t, NEW k, Numbered(t, k)
  PROVE  NextNode(t) = k + 1
<1>1. Cardinality(1 .. k) = k
  BY FS_Interval DEF Numbered
<1> QED
  BY <1>1 DEF NextNode, Numbered

LEMMA FreshNode ==
  Malloced \in Kept /\ Malloced.childs = << >> /\ Malloced.parent = nullptr
BY DEF Malloced, Kept, NullText, nullptr

\* A tree with one more node.
LEMMA WithNode ==
  ASSUME NEW t, NEW k, Numbered(t, k), NEW node \in Kept,
         node.parent \in {nullptr} \cup 1 .. k,
         node.childs = << >>
  PROVE  /\ Numbered(With(t, node), k + 1)
         /\ With(t, node)[k + 1] = node
         /\ \A n \in 1 .. k : With(t, node)[n] = t[n]
<1> DEFINE u == With(t, node)
<1>1. u = [n \in 1 .. k + 1 |-> IF n = k + 1 THEN node ELSE t[n]]
  <2>1. DOMAIN t \cup {k + 1} = 1 .. k + 1
    BY DEF Numbered
  <2> QED
    BY <2>1, NextIsFresh DEF With
<1> HIDE DEF u
<1>2. u[k + 1] = node /\ \A n \in 1 .. k : u[n] = t[n]
  BY <1>1 DEF Numbered
<1>3. u \in [1 .. k + 1 -> Kept] /\ k + 1 \in Nat \ {0}
  BY <1>1 DEF Numbered
<1>4. ASSUME NEW m \in 1 .. k + 1, NEW i \in 1 .. Len(u[m].childs)
      PROVE  u[m].childs[i] \in 1 .. k + 1
  <2>1. CASE m = k + 1
    BY <1>2, <1>4, <2>1
  <2>2. CASE m # k + 1
    <3>1. m \in 1 .. k /\ u[m] = t[m]
      BY <1>2, <2>2 DEF Numbered
    <3> QED
      BY <1>4, <3>1 DEF Numbered
  <2> QED
    BY <2>1, <2>2
<1>5. \A m \in 1 .. k + 1 : u[m].parent \in {nullptr} \cup 1 .. k + 1
  BY <1>2 DEF Numbered
<1>6. Numbered(u, k + 1)
  BY <1>1, <1>3, <1>4, <1>5 DEF Numbered
<1> QED
  BY <1>2, <1>6 DEF u

\* A node made without a parent leaves the shape as it is.
LEMMA BesideKeeps ==
  ASSUME NEW t, NEW k, Numbered(t, k), \A n \in DOMAIN t : Shaped(t, n),
         NEW node \in Kept, node.parent = nullptr,
         node.childs = << >>
  PROVE  \A n \in DOMAIN With(t, node) : Shaped(With(t, node), n)
<1> DEFINE u == With(t, node)
<1>1. /\ Numbered(u, k + 1) /\ u[k + 1] = node
      /\ \A n \in 1 .. k : u[n] = t[n]
  BY WithNode
<1> HIDE DEF u
<1>2. DOMAIN u = 1 .. k + 1 /\ DOMAIN t = 1 .. k /\ k \in Nat
  BY <1>1 DEF Numbered
<1>3. \A n \in 1 .. k + 1 : n # Wild /\ n # nullptr
  BY <1>2 DEF Wild, nullptr
<1>4. Shaped(u, k + 1)
  BY <1>1, <1>2, <1>3 DEF Shaped
<1>5. DOMAIN node.childs = 1 .. Len(node.childs)
  BY DEF Kept
<1>6. ASSUME NEW n \in 1 .. k PROVE Shaped(u, n)
  <2> DEFINE p == t[n].parent
  <2>1. Shaped(t, n) /\ u[n] = t[n] /\ n # Wild
    BY <1>1, <1>2, <1>3
  <2>2. SUFFICES ASSUME p \in 1 .. k PROVE Shaped(u, n)
    BY <1>2, <1>3, <2>1 DEF Shaped, Numbered
  <2>3. p \in DOMAIN t /\ u[p] = t[p]
    BY <1>1, <1>2, <2>2
  <2>4. \A m \in DOMAIN u \ {p} : \A i \in DOMAIN u[m].childs : u[m].childs[i] # n
    BY <1>1, <1>2, <1>5, <2>1, <2>3 DEF Shaped
  <2> QED
    BY <2>1, <2>3, <2>4 DEF Shaped
<1> QED
  BY <1>2, <1>4, <1>6 DEF u

\* A list with one more element.
LEMMA Appending ==
  ASSUME NEW s \in Seq(Int), NEW x \in Int
  PROVE  /\ Append(s, x) \in Seq(Int)
         /\ \A i \in DOMAIN Append(s, x) : \/ i \in DOMAIN s /\ Append(s, x)[i] = s[i]
                                           \/ i = Len(s) + 1 /\ Append(s, x)[i] = x
         /\ \A i \in DOMAIN s : i \in DOMAIN Append(s, x) /\ Append(s, x)[i] = s[i]
         /\ Len(s) + 1 \in DOMAIN Append(s, x) /\ Append(s, x)[Len(s) + 1] = x
<1>1. DOMAIN s = 1 .. Len(s) /\ Len(s) \in Nat /\ DOMAIN Append(s, x) = 1 .. Len(s) + 1
  OBVIOUS
<1>2. \A i \in 1 .. Len(s) : Append(s, x)[i] = s[i]
  OBVIOUS
<1>3. Append(s, x)[Len(s) + 1] = x /\ Append(s, x) \in Seq(Int)
  OBVIOUS
<1>4. \A i \in 1 .. Len(s) + 1 : i \in 1 .. Len(s) \/ i = Len(s) + 1
  BY <1>1
<1>5. Len(s) + 1 \in 1 .. Len(s) + 1 /\ \A i \in 1 .. Len(s) : i \in 1 .. Len(s) + 1
  BY <1>1
<1> DEFINE a == Append(s, x)
<1>6. /\ DOMAIN s = 1 .. Len(s) /\ DOMAIN a = 1 .. Len(s) + 1 /\ a[Len(s) + 1] = x
      /\ \A i \in 1 .. Len(s) : a[i] = s[i]
  BY <1>1, <1>2, <1>3
<1> HIDE DEF a
<1>7. \A i \in DOMAIN a : (i \in DOMAIN s /\ a[i] = s[i]) \/ (i = Len(s) + 1 /\ a[i] = x)
  <2> SUFFICES ASSUME NEW i \in 1 .. Len(s) + 1
               PROVE  (i \in 1 .. Len(s) /\ a[i] = s[i]) \/ (i = Len(s) + 1 /\ a[i] = x)
    BY <1>6
  <2>1. CASE i \in 1 .. Len(s)
    BY <1>6, <2>1
  <2>2. CASE i = Len(s) + 1
    BY <1>6, <2>2
  <2> QED
    BY <1>4, <2>1, <2>2
<1>8. /\ \A i \in DOMAIN s : i \in DOMAIN a /\ a[i] = s[i]
      /\ Len(s) + 1 \in DOMAIN a /\ a[Len(s) + 1] = x
  BY <1>5, <1>6
<1> QED
  BY <1>3, <1>7, <1>8 DEF a

\* A child put at the end of its parent's list, with the path that its name gives.
LEMMA LinkKeeps ==
  ASSUME NEW t, NEW k, Numbered(t, k), \A n \in DOMAIN t : Shaped(t, n),
         NEW p \in 1 .. k, NEW node \in Kept, node.parent = p,
         node.childs = << >>,
         node.flags = TFS_FOLDER => node.path = Append(t[p].path, node.name)
  PROVE  /\ Numbered(Link(t, p, node), k + 1)
         /\ \A n \in DOMAIN Link(t, p, node) : Shaped(Link(t, p, node), n)
<1> DEFINE u == With(t, node)
           v == Link(t, p, node)
           new == Append(t[p].childs, k + 1)
<1>1. /\ Numbered(u, k + 1) /\ u[k + 1] = node
      /\ \A n \in 1 .. k : u[n] = t[n]
  BY WithNode
<1>2. DOMAIN u = 1 .. k + 1 /\ DOMAIN t = 1 .. k /\ k \in Nat /\ u \in [1 .. k + 1 -> Kept]
  BY <1>1 DEF Numbered
<1>3. OrRoot(p) = p
  BY DEF OrRoot, nullptr
<1>4. v = [u EXCEPT ![p].childs = new]
  BY <1>1, <1>3, NextIsFresh DEF Link, push_back
<1> HIDE DEF u, v
<1>5. t[p].childs \in Seq(Int) /\ k + 1 \in Int
  BY <1>2 DEF Numbered, Kept
<1>0. /\ new \in Seq(Int)
      /\ \A i \in DOMAIN new : \/ i \in DOMAIN t[p].childs /\ new[i] = t[p].childs[i]
                               \/ i = Len(t[p].childs) + 1 /\ new[i] = k + 1
      /\ \A i \in DOMAIN t[p].childs : i \in DOMAIN new /\ new[i] = t[p].childs[i]
      /\ Len(t[p].childs) + 1 \in DOMAIN new /\ new[Len(t[p].childs) + 1] = k + 1
  BY <1>5, Appending
<1> HIDE DEF new
<1>6. DOMAIN t[p].childs = 1 .. Len(t[p].childs) /\ DOMAIN new = 1 .. Len(new)
  BY <1>0, <1>5
<1>7. /\ v \in [1 .. k + 1 -> Kept] /\ DOMAIN v = 1 .. k + 1
      /\ \A n \in 1 .. k + 1 : n # p => v[n] = u[n]
      /\ v[p].childs = new /\ v[p].parent = t[p].parent /\ v[p].name = t[p].name
      /\ v[p].flags = t[p].flags /\ v[p].path = t[p].path
  <2>1. p \in 1 .. k + 1 /\ u[p] = t[p]
    BY <1>1, <1>2
  <2> QED
    BY <1>0, <1>2, <1>4, <2>1 DEF Kept
<1>8. \A m \in 1 .. k : \A i \in DOMAIN t[m].childs : t[m].childs[i] # k + 1
  <2>1. \A m \in 1 .. k : DOMAIN t[m].childs = 1 .. Len(t[m].childs)
    BY DEF Numbered, Kept
  <2> QED
    BY <1>2, <2>1 DEF Numbered, Wild
<1>9. \A n \in 1 .. k + 1 : n # Wild /\ n # nullptr
  BY <1>2 DEF Wild, nullptr
<1>10. DOMAIN node.childs = 1 .. Len(node.childs)
  BY DEF Kept
<1>11. Numbered(v, k + 1)
  <2>1. ASSUME NEW m \in 1 .. k + 1, NEW i \in 1 .. Len(v[m].childs)
        PROVE  v[m].childs[i] \in 1 .. k + 1
    <3>1. CASE m = p
      <4>1. \A j \in 1 .. Len(t[p].childs) : t[p].childs[j] \in 1 .. k
        BY DEF Numbered
      <4>2. i \in DOMAIN new /\ v[m].childs[i] = new[i]
        BY <1>6, <1>7, <2>1, <3>1
      <4>3. CASE i \in DOMAIN t[p].childs /\ new[i] = t[p].childs[i]
        BY <1>2, <1>6, <2>1, <4>1, <4>2, <4>3
      <4>4. CASE new[i] = k + 1
        BY <1>2, <4>2, <4>4
      <4> QED
        BY <1>0, <4>2, <4>3, <4>4
    <3>2. CASE m # p
      <4>1. v[m] = u[m]
        BY <1>7, <3>2
      <4> QED
        BY <1>1, <2>1, <4>1 DEF Numbered
    <3> QED
      BY <3>1, <3>2
  <2>2. \A m \in 1 .. k + 1 : v[m].parent = u[m].parent
    BY <1>1, <1>7
  <2> QED
    BY <1>1, <1>7, <2>1, <2>2 DEF Numbered
<1>12. ASSUME NEW n \in 1 .. k PROVE Shaped(v, n)
  <2> DEFINE q == t[n].parent
  <2>1. /\ Shaped(t, n) /\ n # Wild /\ n # k + 1
        /\ v[n].parent = q /\ v[n].name = t[n].name /\ v[n].flags = t[n].flags /\ v[n].path = t[n].path
    BY <1>1, <1>2, <1>7, <1>9
  <2>2. SUFFICES ASSUME q \in 1 .. k PROVE Shaped(v, n)
    BY <1>7, <1>9, <2>1 DEF Shaped, Numbered
  <2>3. q \in DOMAIN t /\ q \in DOMAIN v /\ v[q].path = t[q].path
    BY <1>1, <1>2, <1>7, <2>2
  <2>4. PICK i0 \in DOMAIN t[q].childs : t[q].childs[i0] = n
    BY <2>1, <2>3 DEF Shaped
  <2>5. \A i, j \in DOMAIN t[q].childs : t[q].childs[i] = n /\ t[q].childs[j] = n => i = j
    BY <2>1, <2>3 DEF Shaped
  <2>6. \A m \in 1 .. k : m # q => \A i \in DOMAIN t[m].childs : t[m].childs[i] # n
    BY <1>2, <2>1, <2>3 DEF Shaped
  <2> HIDE DEF q
  <2>7. \A m \in 1 .. k + 1 : m # q => \A i \in DOMAIN v[m].childs : v[m].childs[i] # n
    <3> SUFFICES ASSUME NEW m \in 1 .. k + 1, m # q, NEW i \in DOMAIN v[m].childs PROVE v[m].childs[i] # n
      OBVIOUS
    <3>1. CASE m = p
      BY <1>0, <1>7, <2>1, <2>6, <3>1
    <3>2. CASE m = k + 1 /\ m # p
      BY <1>1, <1>7, <1>10, <2>1, <3>2
    <3>3. CASE m \in 1 .. k /\ m # p
      BY <1>1, <1>2, <1>7, <2>6, <3>3
    <3> QED
      BY <1>2, <3>1, <3>2, <3>3
  <2>8. (\E i \in DOMAIN v[q].childs : v[q].childs[i] = n)
        /\ \A i, j \in DOMAIN v[q].childs : v[q].childs[i] = n /\ v[q].childs[j] = n => i = j
    <3>1. CASE q = p
      <4>1. i0 \in DOMAIN new /\ new[i0] = n
        BY <1>0, <2>4, <3>1
      <4>2. \A i \in DOMAIN new : new[i] = n => i \in DOMAIN t[p].childs /\ t[p].childs[i] = n
        BY <1>0, <2>1
      <4> QED
        BY <1>7, <2>5, <3>1, <4>1, <4>2
    <3>2. CASE q # p
      <4>1. v[q] = t[q]
        BY <1>1, <1>7, <2>2, <2>3, <3>2
      <4> QED
        BY <2>4, <2>5, <4>1
    <3> QED
      BY <3>1, <3>2
  <2>9. t[n].flags = TFS_FOLDER => t[n].path = Append(t[q].path, t[n].name)
    BY <2>1, <2>3 DEF Shaped, q
  <2> QED
    BY <1>7, <2>1, <2>3, <2>7, <2>8, <2>9 DEF Shaped
<1>13. Shaped(v, k + 1)
  <2>1. v[k + 1] = node /\ p # k + 1 /\ p \in DOMAIN v
    BY <1>1, <1>2, <1>7
  <2>2. \A m \in 1 .. k + 1 : m # p => \A i \in DOMAIN v[m].childs : v[m].childs[i] # k + 1
    BY <1>1, <1>2, <1>7, <1>8, <1>9, <1>10
  <2>3. \A i \in DOMAIN new : new[i] = k + 1 => i = Len(t[p].childs) + 1
    BY <1>0, <1>8
  <2>4. (\E i \in DOMAIN new : new[i] = k + 1)
        /\ \A i, j \in DOMAIN new : new[i] = k + 1 /\ new[j] = k + 1 => i = j
    BY <1>0, <1>6, <2>3
  <2> QED
    BY <1>7, <2>1, <2>2, <2>4 DEF Shaped
<1> QED
  BY <1>2, <1>7, <1>11, <1>12, <1>13 DEF v

\* What open returns: the lock is free, or the node wild.
Cautious(r) == (\E n : r = [node |-> n, held |-> FALSE]) \/ r = [node |-> Wild, held |-> TRUE]

\* The two ways of open to keep the lock are "/", which the shell does not pass
\* on with a node, and going astray.
LEMMA OpenHeld ==
  ASSUME NEW t, NEW parent, NEW path, path = <<"", "">> => parent = nullptr
  PROVE  Cautious(open(t, parent, path))
<1> DEFINE start0 == IF parent = nullptr THEN t[tfs_root].ptr ELSE parent
           r == openNext(t, Words(path), Frame(start0, Words(path)))
<1>1. open(t, parent, path) =
        IF parent \in {nullptr, tfs_root} /\ path = <<"", "">> THEN [node |-> t[tfs_root].ptr, held |-> FALSE]
        ELSE IF start0 = nullptr THEN [node |-> nullptr, held |-> FALSE]
        ELSE IF path = <<"", "">> THEN [node |-> parent, held |-> TRUE]
        ELSE IF OnlySlashes(path) \/ ~r.ok THEN [node |-> Wild, held |-> TRUE]
        ELSE [node |-> r.child, held |-> FALSE]
  BY DEF open
<1> HIDE DEF start0, r
<1>2. \/ open(t, parent, path) = [node |-> t[tfs_root].ptr, held |-> FALSE]
      \/ open(t, parent, path) = [node |-> nullptr, held |-> FALSE]
      \/ open(t, parent, path) = [node |-> Wild, held |-> TRUE]
      \/ open(t, parent, path) = [node |-> r.child, held |-> FALSE]
  BY <1>1, Zenon
<1> QED
  BY <1>2, Zenon DEF Cautious

\* The tree after mkdir and touch.
LEMMA MakeKeeps ==
  ASSUME ShellInv, NEW cmd \in {"mkdir", "touch"}, NEW name \in Names, Make(cmd, name)
  PROVE  ShellInv'
<1>1. IF Sound(tree, currentNode)
        THEN /\ tree' = IF cmd = "mkdir" THEN addDir(tree, currentNode, name)
                                         ELSE addFile(tree, currentNode, name)
             /\ mode' = mode
        ELSE tree' = tree /\ mode' = "fault"
  BY DEF Make
<1>2. UNCHANGED vfs_lock /\ currentNode # nullptr
  BY DEF Make, Ready
<1>3. CASE ~Sound(tree, currentNode)
  BY <1>1, <1>2, <1>3 DEF ShellInv, LockFree
<1>4. CASE Sound(tree, currentNode)
  <2> DEFINE p == currentNode
             node == IF cmd = "mkdir"
                       THEN [Malloced EXCEPT !.name = name, !.parent = p, !.flags = TFS_FOLDER,
                                                   !.path = tree[p].path \o <<name>>]
                       ELSE [Malloced EXCEPT !.name = name, !.parent = p, !.flags = TFS_FILE]
  <2>1. PICK k : Numbered(tree, k)
    BY DEF ShellInv
  <2>2. p \in 1 .. k /\ p \in Int /\ OrRoot(p) = p
    BY <1>2, <1>4, <2>1 DEF Sound, Numbered, OrRoot
  <2>3. tree' = Link(tree, p, node) /\ mode' = mode
    BY <1>1, <1>4, <2>2 DEF addDir, addFile
  <2>4. tree[p].path \in Seq(TheWords) /\ name \in TheWords
    BY <2>1, <2>2 DEF Numbered, Kept, TheWords
  <2>5. tree[p].path \o <<name>> = Append(tree[p].path, name) /\ Append(tree[p].path, name) \in Seq(TheWords)
    BY <2>4
  <2>6. /\ node \in Kept /\ node.parent = p
        /\ node.childs = << >>
        /\ node.flags = TFS_FOLDER => node.path = Append(tree[p].path, node.name)
    <3>1. Malloced \in Kept /\ Malloced.childs = << >>
      BY FreshNode
    <3>2. name \in Names \cup {NullText, "[ROOT]"} /\ TFS_FOLDER \in 0 .. 2 /\ TFS_FILE \in 0 .. 2 /\ TFS_FILE # TFS_FOLDER
      BY DEF TFS_FOLDER, TFS_FILE
    <3>3. CASE cmd = "mkdir"
      <4>1. node = [Malloced EXCEPT !.name = name, !.parent = p, !.flags = TFS_FOLDER,
                                          !.path = Append(tree[p].path, name)]
        BY <2>5, <3>3
      <4> HIDE DEF node, p
      <4> QED
        BY <2>2, <2>5, <3>1, <3>2, <4>1 DEF Kept
    <3>4. CASE cmd # "mkdir"
      <4>1. node = [Malloced EXCEPT !.name = name, !.parent = p, !.flags = TFS_FILE]
        BY <3>4
      <4> HIDE DEF node, p
      <4> QED
        BY <2>2, <3>1, <3>2, <4>1 DEF Kept
    <3> QED
      BY <3>3, <3>4
  <2> HIDE DEF node, p
  <2>8. Numbered(Link(tree, p, node), k + 1) /\ \A n \in DOMAIN Link(tree, p, node) : Shaped(Link(tree, p, node), n)
    BY <2>1, <2>2, <2>6, LinkKeeps DEF ShellInv
  <2> QED
    BY <1>2, <2>3, <2>8 DEF ShellInv, LockFree
<1> QED
  BY <1>3, <1>4

LEMMA NewTopKeeps ==
  ASSUME ShellInv, NewTop
  PROVE  ShellInv'
<1>1. tree' = With(tree, [Malloced EXCEPT !.flags = TFS_FOLDER, !.path = <<"~">>])
  BY DEF NewTop
<1> DEFINE node == [Malloced EXCEPT !.flags = TFS_FOLDER, !.path = <<"~">>]
<1>2. PICK k : Numbered(tree, k)
  BY DEF ShellInv
<1>3. "~" \in TheWords
  BY DEF TheWords
<1>4. node \in Kept /\ node.parent = nullptr /\ node.childs = << >>
  <2>1. /\ Malloced \in Kept /\ Malloced.childs = << >>
        /\ Malloced.parent = nullptr
    BY FreshNode
  <2>2. <<"~">> \in Seq(TheWords) /\ TFS_FOLDER \in 0 .. 2
    BY <1>3 DEF TFS_FOLDER
  <2> QED
    BY <2>1, <2>2 DEF Kept
<1> HIDE DEF node
<1>6. Numbered(With(tree, node), k + 1) /\ \A n \in DOMAIN With(tree, node) : Shaped(With(tree, node), n)
  BY <1>2, <1>4, WithNode, BesideKeeps DEF ShellInv
<1> QED
  BY <1>1, <1>6 DEF ShellInv, LockFree, NewTop, node

\* A command that looks a node up, and goes astray with a wild one.
LEMMA SettlesLock ==
  ASSUME ShellInv, NEW r, Cautious(r), UNCHANGED tree, vfs_lock' = r.held,
         mode' \in {"run", "fault"}, r.node = Wild => mode' = "fault"
  PROVE  ShellInv'
<1>1. CASE \E n : r = [node |-> n, held |-> FALSE]
  <2>1. vfs_lock' = FALSE
    BY <1>1
  <2> QED
    BY <2>1, Zenon DEF ShellInv, LockFree
<1>2. CASE r = [node |-> Wild, held |-> TRUE]
  <2>1. vfs_lock' = TRUE /\ mode' = "fault"
    BY <1>2
  <2>2. "run" # "fault"
    OBVIOUS
  <2> QED
    BY <2>1, <2>2, Zenon DEF ShellInv, LockFree
<1> QED
  BY <1>1, <1>2 DEF Cautious

\* No list command leaves the lock held, unless it goes astray.
LEMMA LsKeeps ==
  ASSUME ShellInv, NEW w, ls(w)
  PROVE  ShellInv'
<1>1. Cautious(lsNode(w))
  <2>1. CASE w \in {<<"..">>, <<"..", "">>, <<".">>, <<".", "">>, <<"">>}
    <3> DEFINE up == [node |-> tree[currentNode].parent, held |-> FALSE]
               here == [node |-> currentNode, held |-> FALSE]
               top == open(tree, nullptr, w)
               other == open(tree, currentNode, w)
    <3>1. lsNode(w) = CASE w \in {<<"..">>, <<"..", "">>} -> up
                          [] w \in {<<".">>, <<".", "">>, <<"">>} -> here
                          [] w = <<"", "">> -> top
                          [] OTHER -> other
      BY DEF lsNode
    <3>2. Cautious(up) /\ Cautious(here)
      BY Zenon DEF Cautious
    <3> HIDE DEF up, here, top, other
    <3>3. lsNode(w) = up \/ lsNode(w) = here
      <4>1. CASE w = <<"..">>
        BY <3>1, <4>1
      <4>2. CASE w = <<"..", "">>
        BY <3>1, <4>2
      <4>3. CASE w = <<".">>
        BY <3>1, <4>3
      <4>4. CASE w = <<".", "">>
        BY <3>1, <4>4
      <4>5. CASE w = <<"">>
        BY <3>1, <4>5
      <4> QED
        BY <2>1, <4>1, <4>2, <4>3, <4>4, <4>5
    <3> QED
      BY <3>2, <3>3
  <2>3. CASE w = <<"", "">>
    <3>1. lsNode(w) = open(tree, nullptr, w)
      BY <2>3 DEF lsNode
    <3> QED
      BY <3>1, OpenHeld, Zenon
  <2>4. CASE w \notin {<<"..">>, <<"..", "">>, <<".">>, <<".", "">>, <<"">>, <<"", "">>}
    <3>1. lsNode(w) = open(tree, currentNode, w) /\ w # <<"", "">>
      BY <2>4 DEF lsNode
    <3> QED
      BY <3>1, OpenHeld, Zenon
  <2> QED
    BY <2>1, <2>3, <2>4
<1>2. Wild # nullptr /\ ~Sound(tree, Wild)
  BY DEF ShellInv, Numbered, Sound, Wild, nullptr
<1>3. /\ mode' = IF lsNode(w).node # nullptr /\ ~Sound(tree, lsNode(w).node) THEN "fault" ELSE mode
      /\ vfs_lock' = lsNode(w).held /\ UNCHANGED tree
  BY DEF ls
<1>4. mode' \in {"run", "fault"} /\ (lsNode(w).node = Wild => mode' = "fault")
  BY <1>2, <1>3 DEF ShellInv
<1> QED
  BY <1>1, <1>3, <1>4, SettlesLock, Zenon

LEMMA CdKeeps ==
  ASSUME ShellInv, NEW w, cd(w)
  PROVE  ShellInv'
<1> DEFINE by == CASE w = <<"">> -> [node |-> getChild(tree, nullptr, "/"), held |-> FALSE]
                   [] w \in {<<"..">>, <<"..", "">>} -> [node |-> tree[currentNode].parent, held |-> FALSE]
                   [] w \in {<<".">>, <<".", "">>} -> [node |-> currentNode, held |-> FALSE]
                   [] w = <<"", "">> -> [node |-> tree[tfs_root].ptr, held |-> FALSE]
                   [] OTHER -> open(tree, currentNode, w)
<1>1. Cautious(by)
  <2>1. CASE w \in {<<"">>, <<"..">>, <<"..", "">>, <<".">>, <<".", "">>, <<"", "">>}
    <3>1. by \in { [node |-> n, held |-> FALSE] :
                    n \in {getChild(tree, nullptr, "/"), tree[currentNode].parent, currentNode, tree[tfs_root].ptr} }
      BY <2>1
    <3> QED
      BY <3>1, Zenon DEF Cautious
  <2>2. CASE w \notin {<<"">>, <<"..">>, <<"..", "">>, <<".">>, <<".", "">>, <<"", "">>}
    <3>1. by = open(tree, currentNode, w) /\ w # <<"", "">>
      BY <2>2
    <3> QED
      BY <3>1, OpenHeld, Zenon
  <2> QED
    BY <2>1, <2>2
<1>2. /\ UNCHANGED tree /\ vfs_lock' = by.held
      /\ by.node = Wild => mode' = "fault"
      /\ mode' \in {"run", "fault"}
  BY DEF cd
<1> HIDE DEF by
<1> QED
  BY <1>1, <1>2, SettlesLock, Zenon

LEMMA ShellInitKeeps == ShellInit => ShellInv
<1> SUFFICES ASSUME ShellInit PROVE ShellInv
  OBVIOUS
<1>1. tree = VfsInit
  BY DEF ShellInit
<1> DEFINE root == [Malloced EXCEPT !.name = "[ROOT]", !.flags = TFS_MOUNTPOINT]
<1>3. root \in Kept /\ root.parent = nullptr /\ root.childs = << >>
  BY FreshNode DEF Kept, TFS_MOUNTPOINT, Malloced
<1>4. tree = [n \in {1} |-> root] /\ {1} = 1 .. 1
  BY <1>1 DEF VfsInit, tfs_root
<1> HIDE DEF root
<1>5. DOMAIN tree = 1 .. 1 /\ tree[1] = root
  BY <1>4
<1>6. Numbered(tree, 1)
  BY <1>3, <1>4, <1>5 DEF Numbered
<1>7. Shaped(tree, 1)
  BY <1>3, <1>5 DEF Shaped, Wild, nullptr
<1>8. \A n \in DOMAIN tree : Shaped(tree, n)
  BY <1>4, <1>5, <1>7
<1> QED
  BY <1>6, <1>8, Zenon DEF ShellInv, ShellInit, LockFree

(***************************************************************************)
(* The inductive invariant of mkdir, touch, cd and the other commands: the *)
(* nodes are numbered as they are made, every node hangs below its parent  *)
(* once, and vfs_lock is free between two commands of a running shell.     *)
(***************************************************************************)
THEOREM ShellInvariance == ShellSpec => []ShellInv
<1>1. ShellInv /\ [ShellNext]_shellVars => ShellInv'
  <2> SUFFICES ASSUME ShellInv, [ShellNext]_shellVars PROVE ShellInv'
    OBVIOUS
  <2>1. CASE UNCHANGED shellVars
    BY <2>1 DEF shellVars, ShellInv, LockFree
  <2>2. CASE ShellNext
    BY <2>2, NewTopKeeps, MakeKeeps, LsKeeps, CdKeeps DEF ShellNext
  <2> QED
    BY <2>1, <2>2
<1> QED
  BY <1>1, ShellInitKeeps, PTL DEF ShellSpec


(***************************************************************************)
(* Whatever is typed, a node is a child of its parent exactly once and of  *)
(* nothing else, and a directory's path is its parent's path and its name. *)
(***************************************************************************)
THEOREM ShellTreeShape == ShellSpec => []TreeShape
<1>1. ShellInv => TreeShape
  <2> SUFFICES ASSUME ShellInv, NEW n \in DOMAIN tree, tree[n].parent \in DOMAIN tree
               PROVE  LET p == tree[n].parent
                          In(m) == { i \in DOMAIN tree[m].childs : tree[m].childs[i] = n }
                      IN  /\ Cardinality(In(p)) = 1
                          /\ \A m \in DOMAIN tree \ {p} : In(m) = {}
                          /\ tree[n].flags = TFS_FOLDER => tree[n].path = Append(tree[p].path, tree[n].name)
    BY DEF TreeShape
  <2> DEFINE p == tree[n].parent
             In(m) == { i \in DOMAIN tree[m].childs : tree[m].childs[i] = n }
  <2>1. Shaped(tree, n)
    BY DEF ShellInv
  <2>2. PICK i \in DOMAIN tree[p].childs : tree[p].childs[i] = n
    BY <2>1 DEF Shaped
  <2>3. In(p) = {i}
    BY <2>1, <2>2 DEF Shaped
  <2>4. Cardinality(In(p)) = 1
    BY <2>3, FS_Singleton
  <2> QED
    BY <2>1, <2>4 DEF Shaped
<1> QED
  BY <1>1, ShellInvariance, PTL

(***************************************************************************)
(* The shell never waits for vfs_lock: no command it can be given returns  *)
(* with the lock held, unless it has gone astray.                          *)
(***************************************************************************)
THEOREM ShellLockFree == ShellSpec => []LockFree
<1>1. ShellInv => LockFree
  BY DEF ShellInv
<1> QED
  BY <1>1, ShellInvariance, PTL

=============================================================================
