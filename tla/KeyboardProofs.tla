--------------------------- MODULE KeyboardProofs ---------------------------
(***************************************************************************)
(* Theorems about Keyboard for lines and buffers of any size, any keys and *)
(* every build.                                                            *)
(***************************************************************************)
EXTENDS Keyboard, WellFoundedInduction, SequenceTheorems, TLAPS

-----------------------------------------------------------------------------
(* The inductive invariant of LineTerminated. *)

\* The index that StoreChar will use, from the test in line 179 on.
StoreIndex == IF build = "reload" THEN gi ELSE idx

\* The test of line 179 has left room for a character and the NUL, and
\* interrupts only ever lower the index.
RoomForChar == pc \in {"get", "char", "store"} => StoreIndex < LineSize - 1

TermInv ==
  /\ TypeOK /\ build \in {"reload", "once", "loop"}
  /\ RoomForChar
  /\ LineTerminated

-----------------------------------------------------------------------------
(* The inductive invariant of LineIsWhatWasTyped. *)

\* A character was struck and is not yet in retstr.
Pending == pressed \/ pc \in {"char", "store"}

\* The line has ended: gi and buff no longer matter.
Ended == enter \/ pc \in {"done", "end"}

\* retstr holds the first n characters that were typed.
Holds(n) ==
  /\ n \in 0 .. LineSize - 1
  /\ \A i \in 0 .. LineSize - 1 : retstr[i] = IF i < n THEN typed[i + 1] ELSE Nul

\* What a calm user and getLine agree on.
CalmInv ==
  calm /\ build # "loop" =>
    IF pc = "shell"
    THEN typed = << >> /\ ~pressed /\ ~enter /\ gi = 0
    ELSE /\ pc = "done" => enter
         /\ pc = "end" => ~enter
         /\ pc = "get" => pressed
         /\ pc \in {"char", "store"} => ~pressed
         /\ ~Ended => strlen(buff) >= Len(typed)
         /\ IF Pending
            THEN /\ ~Ended
                 /\ gi = Len(typed) - 1 /\ Holds(gi)
                 /\ (IF pc = "store" THEN ch ELSE c) = typed[Len(typed)]
                 /\ build = "once" /\ pc \in {"get", "char", "store"} => idx = gi
            ELSE /\ Holds(Len(typed))
                 /\ ~Ended => gi = Len(typed)

ReadingInv == reading <=> pc # "shell"

IInv == TermInv /\ ReadingInv /\ CalmInv

-----------------------------------------------------------------------------
(* The length of the string in buff. *)

(***************************************************************************)
(* strlen stops at the first position that holds no character.             *)
(***************************************************************************)
LEMMA StrlenFacts ==
  ASSUME NEW b, b \subseteq 0 .. BuffSize - 1
  PROVE  strlen(b) \in 0 .. BuffSize /\ strlen(b) \notin b /\ 0 .. strlen(b) - 1 \subseteq b
<1> DEFINE T == { n \in 0 .. BuffSize : n \notin b }
<1>1. BuffSize \in Nat \ {0}
  BY KeyboardAssumption
<1>2. T \subseteq Nat /\ BuffSize \in T
  BY <1>1
<1>3. PICK x \in T : \A y \in T : ~(<<y, x>> \in OpToRel(<, Nat))
  BY <1>2, NatLessThanWellFounded, WFMin
<1>4. \A y \in T : ~(y < x)
  BY <1>2, <1>3, Zenon DEF OpToRel
<1>5. 0 .. x - 1 \subseteq b
  <2>1. SUFFICES ASSUME NEW y \in 0 .. x - 1, y \notin b PROVE FALSE
    OBVIOUS
  <2>2. y \in T /\ y < x
    BY <1>1, <1>2, <2>1
  <2>3. QED
    BY <1>4, <2>2
<1>6. \E n \in 0 .. BuffSize : n \notin b /\ 0 .. n - 1 \subseteq b
  BY <1>5
<1>7. QED
  BY <1>6 DEF strlen

(***************************************************************************)
(* strcat makes the string longer, by more than one if something was left  *)
(* behind it.                                                              *)
(***************************************************************************)
LEMMA StrcatGrows ==
  ASSUME NEW b, b \subseteq 0 .. BuffSize - 1, strlen(b) < BuffSize
  PROVE  strcat(b) \subseteq 0 .. BuffSize - 1 /\ strlen(strcat(b)) >= strlen(b) + 1
<1>1. BuffSize \in Nat \ {0}
  BY KeyboardAssumption
<1>2. strlen(b) \in 0 .. BuffSize /\ strlen(b) \notin b /\ 0 .. strlen(b) - 1 \subseteq b
  BY StrlenFacts
<1> DEFINE n == strlen(b)
           d == b \cup {n}
<1> HIDE DEF n
<1>3. n \in 0 .. BuffSize - 1 /\ 0 .. n - 1 \subseteq b
  BY <1>1, <1>2 DEF n
<1>4. d \subseteq 0 .. BuffSize - 1
  BY <1>3
<1>5. strlen(d) \in 0 .. BuffSize /\ strlen(d) \notin d
  BY <1>4, StrlenFacts
<1>6. strlen(d) >= n + 1
  <2>1. strlen(d) \notin b /\ strlen(d) # n
    BY <1>5
  <2>2. strlen(d) \notin 0 .. n - 1
    BY <1>3, <2>1
  <2>3. QED
    BY <1>1, <1>3, <1>5, <2>1, <2>2
<1>7. QED
  BY <1>4, <1>6 DEF strcat, n

(***************************************************************************)
(* Erasing the last character makes the string shorter by one.             *)
(***************************************************************************)
LEMMA EraseShrinks ==
  ASSUME NEW b, b \subseteq 0 .. BuffSize - 1, strlen(b) # 0
  PROVE  /\ b \ {strlen(b) - 1} \subseteq 0 .. BuffSize - 1
         /\ strlen(b \ {strlen(b) - 1}) = strlen(b) - 1
<1>1. BuffSize \in Nat \ {0}
  BY KeyboardAssumption
<1>2. strlen(b) \in 0 .. BuffSize /\ strlen(b) \notin b /\ 0 .. strlen(b) - 1 \subseteq b
  BY StrlenFacts
<1> DEFINE n == strlen(b)
           d == b \ {n - 1}
<1> HIDE DEF n
<1>3. n \in 1 .. BuffSize /\ 0 .. n - 1 \subseteq b
  BY <1>1, <1>2 DEF n
<1>4. d \subseteq 0 .. BuffSize - 1
  OBVIOUS
<1>5. strlen(d) \in 0 .. BuffSize /\ strlen(d) \notin d /\ 0 .. strlen(d) - 1 \subseteq d
  BY <1>4, StrlenFacts
<1> DEFINE m == strlen(d)
<1>6. m \notin 0 .. n - 2
  BY <1>1, <1>3, <1>5
<1>7. n - 1 \notin 0 .. m - 1
  BY <1>5
<1>8. m = n - 1
  BY <1>1, <1>3, <1>5, <1>6, <1>7
<1>9. QED
  BY <1>4, <1>8 DEF n

-----------------------------------------------------------------------------
(* Types *)

Pcs == {"shell", "poll", "check", "get", "char", "store", "done", "end"}

(***************************************************************************)
(* The handler stores a character of the tables.                           *)
(***************************************************************************)
LEMMA CharType ==
  ASSUME NEW k \in Keys
  PROVE  /\ get_ascii_char(k) \in Char
         /\ k \notin {"enter", "backspace"} =>
              get_ascii_char(k) \in {"l", "L", Nul}
         /\ Nul \in Char /\ "esc" \in Char /\ Nul \notin {"l", "L"}
BY KeyboardAssumption DEF get_ascii_char, Char, Nul

(***************************************************************************)
(* An empty line.                                                          *)
(***************************************************************************)
LEMMA EmptyLineFacts ==
  /\ EmptyLine \in [0 .. LineSize - 1 -> Char]
  /\ \A j \in 0 .. LineSize - 1 : EmptyLine[j] = Nul
BY DEF EmptyLine, Char

(***************************************************************************)
(* What the user sees stays a sequence of letters.                         *)
(***************************************************************************)
LEMMA SeesType ==
  ASSUME NEW s, NEW ok, Sees(s, ok), calm \in BOOLEAN, ok \in BOOLEAN,
         reading \in BOOLEAN, pressed \in BOOLEAN, enter \in BOOLEAN,
         ok => s \in Seq({"l", "L"})
  PROVE  typed' \in Seq({"l", "L"}) /\ calm' \in BOOLEAN
<1>1. calm' = (calm /\ Waiting /\ ok) /\ typed' = IF calm' THEN s ELSE << >>
  BY DEF Sees
<1>2. calm' \in BOOLEAN /\ (calm' => ok)
  BY <1>1, Zenon
<1>3. << >> \in Seq({"l", "L"})
  OBVIOUS
<1>4. QED
  BY <1>1, <1>2, <1>3

(***************************************************************************)
(* What the type invariant says, one fact at a time.                       *)
(***************************************************************************)
LEMMA TypeFacts ==
  ASSUME TypeOK
  PROVE  /\ pressed \in BOOLEAN /\ enter \in BOOLEAN /\ reading \in BOOLEAN /\ calm \in BOOLEAN
         /\ retstr \in [0 .. LineSize - 1 -> Char] /\ pc \in Pcs
         /\ gi \in Int /\ idx \in Int /\ gi <= LineSize - 1 /\ idx <= LineSize - 1
         /\ LineSize \in Nat /\ LineSize >= 2 /\ BuffSize \in Nat \ {0} /\ MaxUnder \in Nat
         /\ typed \in Seq({"l", "L"}) /\ Len(typed) \in Nat
         /\ \A i \in 1 .. Len(typed) : typed[i] \in {"l", "L"}
BY KeyboardAssumption DEF TypeOK, Pcs

(***************************************************************************)
(* A key that is struck calmly finds getLine waiting and the whole line in *)
(* retstr.                                                                 *)
(***************************************************************************)
LEMMA WaitingFacts ==
  ASSUME IInv, calm, Waiting, build # "loop"
  PROVE  /\ pc \in {"poll", "check"} /\ ~Pending /\ ~Ended /\ ~pressed /\ ~enter
         /\ strlen(buff) >= Len(typed)
         /\ Holds(Len(typed)) /\ gi = Len(typed)
<1>1. pc \in {"poll", "check"} /\ ~pressed /\ ~enter
  BY DEF Waiting
<1>2. ~Pending /\ ~Ended
  BY <1>1 DEF Pending, Ended
<1>3. QED
  BY <1>1, <1>2 DEF IInv, CalmInv

(***************************************************************************)
(* The line without its last character.                                    *)
(***************************************************************************)
LEMMA DropLast ==
  ASSUME NEW s \in Seq({"l", "L"}), s # << >>
  PROVE  /\ SubSeq(s, 1, Len(s) - 1) \in Seq({"l", "L"})
         /\ Len(SubSeq(s, 1, Len(s) - 1)) = Len(s) - 1
         /\ \A i \in 1 .. Len(s) - 1 : SubSeq(s, 1, Len(s) - 1)[i] = s[i]
         /\ Len(s) \in Nat \ {0}
<1>1. Len(s) \in Nat \ {0}
  BY EmptySeq
<1> DEFINE n == Len(s) - 1
<1>2. n \in Nat /\ \A i \in 1 .. n : s[i] \in {"l", "L"}
  BY <1>1
<1>3. /\ SubSeq(s, 1, n) \in Seq({"l", "L"})
      /\ Len(SubSeq(s, 1, n)) = IF 1 <= n THEN n - 1 + 1 ELSE 0
      /\ \A i \in 1 .. n - 1 + 1 : SubSeq(s, 1, n)[i] = s[1 + i - 1]
  <2> HIDE DEF n
  <2>1. QED
    BY <1>2, SubSeqProperties
<1> HIDE DEF n
<1>4. n - 1 + 1 = n /\ \A i \in 1 .. n : 1 + i - 1 = i
  BY <1>2
<1>5. Len(SubSeq(s, 1, n)) = n /\ \A i \in 1 .. n : SubSeq(s, 1, n)[i] = s[i]
  BY <1>2, <1>3, <1>4
<1>6. QED
  BY <1>1, <1>3, <1>5 DEF n

-----------------------------------------------------------------------------
(* Keyboard_Handler *)

(***************************************************************************)
(* Modifiers and locks change nothing that getLine reads.                  *)
(***************************************************************************)
LEMMA ModifierStep ==
  ASSUME IInv, NEW m \in Mods, ModifierDown(m) \/ ModifierUp(m) \/ ToggleLock(m)
  PROVE  IInv'
<1>1. held' \subseteq Mods
  BY DEF ModifierDown, ModifierUp, ToggleLock, IInv, TermInv, TypeOK
<1>2. UNCHANGED <<c, buff, flags, line, reader, build, typed, calm>>
  BY DEF ModifierDown, ModifierUp, ToggleLock
<1>3. QED
  BY <1>1, <1>2 DEF IInv, TermInv, TypeOK, RoomForChar, StoreIndex, LineTerminated,
     ReadingInv, CalmInv, Pending, Ended, Holds, flags, line, reader

(***************************************************************************)
(* An arrow key is not calm.                                               *)
(***************************************************************************)
LEMMA ArrowStep ==
  ASSUME IInv, Arrow
  PROVE  IInv'
<1>1. TypeOK /\ TermInv /\ ReadingInv
  BY DEF IInv, TermInv
<1>2. /\ c' = "esc" /\ Sees(typed, FALSE)
      /\ UNCHANGED <<held, buff, pressed, enter, reading, retstr, gi, pc, idx, ch, build>>
  BY DEF Arrow, flags, line, reader
<1>3. typed' \in Seq({"l", "L"}) /\ calm' \in BOOLEAN
  BY <1>1, <1>2, TypeFacts, SeesType
<1>4. calm' = FALSE
  BY <1>2 DEF Sees
<1>5. TypeOK'
  BY <1>1, <1>2, <1>3 DEF TypeOK, Char
<1>6. TermInv' /\ ReadingInv'
  BY <1>1, <1>2, <1>5 DEF TermInv, RoomForChar, StoreIndex, LineTerminated, ReadingInv
<1>7. CalmInv'
  BY <1>4 DEF CalmInv
<1>8. QED
  BY <1>6, <1>7 DEF IInv

(***************************************************************************)
(* Enter ends the line: the line stays what it was.                        *)
(***************************************************************************)
LEMMA NewlineStep ==
  ASSUME IInv, Newline
  PROVE  IInv'
<1>1. TypeOK /\ TermInv /\ ReadingInv
  BY DEF IInv, TermInv
<1>2. /\ "enter" \in Keys /\ c' = get_ascii_char("enter")
      /\ buff' = buff \ {0} /\ enter' = TRUE /\ Sees(typed, TRUE)
      /\ UNCHANGED <<held, pressed, reading, retstr, gi, pc, idx, ch, build>>
  BY DEF Newline, Strikes, clearBuffer, line, reader
<1>3. typed' \in Seq({"l", "L"}) /\ calm' \in BOOLEAN
  BY <1>1, <1>2, TypeFacts, SeesType
<1>4. TypeOK'
  <2>1. c' \in Char
    BY <1>2, CharType
  <2>2. QED
    BY <1>1, <1>2, <1>3, <2>1 DEF TypeOK
<1>5. TermInv' /\ ReadingInv'
  BY <1>1, <1>2, <1>4 DEF TermInv, RoomForChar, StoreIndex, LineTerminated, ReadingInv
<1>6. CalmInv'
  <2>1. SUFFICES ASSUME calm', build' # "loop" PROVE CalmInv'
    BY DEF CalmInv
  <2>2. calm /\ Waiting /\ typed' = typed
    BY <1>2, <2>1 DEF Sees
  <2>3. pc \in {"poll", "check"} /\ ~pressed /\ Holds(Len(typed))
    BY <1>2, <2>1, <2>2, WaitingFacts
  <2>4. pc' \in {"poll", "check"} /\ Ended' /\ ~Pending'
    BY <1>2, <2>3 DEF Ended, Pending
  <2>5. Holds(Len(typed))'
    BY <1>2, <2>2, <2>3 DEF Holds
  <2>6. QED
    BY <2>4, <2>5 DEF CalmInv
<1>7. QED
  BY <1>5, <1>6 DEF IInv

(***************************************************************************)
(* Lines 146-153: a backspace takes the last character off buff, off       *)
(* retstr and off the screen.                                              *)
(***************************************************************************)
LEMMA BackspaceStep ==
  ASSUME IInv, Backspace
  PROVE  IInv'
<1> DEFINE shorter == SubSeq(typed, 1, Len(typed) - 1)
<1>1. TypeOK /\ TermInv /\ ReadingInv /\ buff \subseteq 0 .. BuffSize - 1
  BY DEF IInv, TermInv, TypeOK
<1>2. /\ "backspace" \in Keys /\ c' = get_ascii_char("backspace")
      /\ Sees(shorter, typed # << >>)
      /\ UNCHANGED <<held, pressed, enter, reading, pc, idx, ch, build>>
  BY DEF Backspace, Strikes, flags, reader
<1>3. \/ strlen(buff) = 0 /\ UNCHANGED <<buff, retstr, gi>>
      \/ /\ strlen(buff) # 0 /\ buff' = buff \ {strlen(buff) - 1}
         /\ ~reading /\ UNCHANGED <<retstr, gi>>
      \/ /\ strlen(buff) # 0 /\ buff' = buff \ {strlen(buff) - 1}
         /\ reading /\ gi > -MaxUnder /\ gi' = gi - 1 /\ retstr' = Put(retstr, gi - 1, Nul)
  BY DEF Backspace, line
<1>4. /\ typed # << >> => /\ shorter \in Seq({"l", "L"}) /\ Len(shorter) = Len(typed) - 1
                          /\ \A i \in 1 .. Len(typed) - 1 : shorter[i] = typed[i]
                          /\ Len(typed) \in Nat \ {0}
  <2>1. typed \in Seq({"l", "L"})
    BY <1>1, TypeFacts
  <2>2. QED
    BY <2>1, DropLast
<1> HIDE DEF shorter
<1>5. typed' \in Seq({"l", "L"}) /\ calm' \in BOOLEAN
  BY <1>1, <1>2, <1>4, TypeFacts, SeesType
<1>6. /\ buff' \subseteq 0 .. BuffSize - 1
      /\ gi' \in -MaxUnder .. LineSize - 1 /\ gi' <= gi
      /\ retstr' \in [0 .. LineSize - 1 -> Char]
      /\ retstr'[LineSize - 1] = Nul
  <2>1. /\ gi \in -MaxUnder .. LineSize - 1 /\ retstr[LineSize - 1] = Nul
        /\ LineSize - 1 \in 0 .. LineSize - 1
    BY <1>1, TypeFacts DEF TypeOK, TermInv, LineTerminated
  <2>2. CASE UNCHANGED <<retstr, gi>>
    <3>1. buff' \subseteq 0 .. BuffSize - 1
      BY <1>1, <1>3
    <3>2. gi' <= gi
      BY <1>1, <2>2, TypeFacts
    <3>3. QED
      BY <1>1, <2>1, <2>2, <3>1, <3>2, TypeFacts
  <2>3. CASE gi > -MaxUnder /\ gi' = gi - 1 /\ retstr' = Put(retstr, gi - 1, Nul)
    <3>1. gi - 1 \in Int /\ Nul \in Char /\ retstr \in [0 .. LineSize - 1 -> Char]
      BY <1>1, TypeFacts DEF Char
    <3>2. /\ retstr' \in [0 .. LineSize - 1 -> Char]
          /\ \A j \in 0 .. LineSize - 1 : retstr'[j] = IF j = gi - 1 THEN Nul ELSE retstr[j]
      BY <2>3, <3>1 DEF Put
    <3>3. gi' \in -MaxUnder .. LineSize - 1 /\ gi' <= gi
      BY <1>1, <2>1, <2>3, TypeFacts
    <3>4. buff' \subseteq 0 .. BuffSize - 1
      BY <1>1, <1>3
    <3>5. QED
      BY <2>1, <3>2, <3>3, <3>4
  <2>4. QED
    BY <1>3, <2>2, <2>3
<1>7. TypeOK'
  <2>1. c' \in Char
    BY <1>2, CharType
  <2>2. QED
    BY <1>1, <1>2, <1>5, <1>6, <2>1 DEF TypeOK
<1>8. TermInv' /\ ReadingInv'
  <2>1. RoomForChar'
    <3>1. SUFFICES ASSUME pc \in {"get", "char", "store"} PROVE StoreIndex' < LineSize - 1
      BY <1>2 DEF RoomForChar
    <3>2. StoreIndex < LineSize - 1 /\ StoreIndex \in Int
      BY <1>1, <3>1, TypeFacts DEF TermInv, RoomForChar, StoreIndex
    <3>3. StoreIndex' <= StoreIndex /\ StoreIndex' \in Int /\ LineSize \in Nat
      BY <1>1, <1>2, <1>6, TypeFacts DEF StoreIndex
    <3>4. QED
      BY <3>2, <3>3
  <2>2. QED
    BY <1>1, <1>2, <1>6, <1>7, <2>1 DEF TermInv, LineTerminated, ReadingInv
<1>9. CalmInv'
  <2>1. SUFFICES ASSUME calm', build' # "loop" PROVE CalmInv'
    BY DEF CalmInv
  <2>2. calm /\ Waiting /\ typed # << >> /\ typed' = shorter
    BY <1>2, <2>1 DEF Sees
  <2>3. /\ pc \in {"poll", "check"} /\ ~pressed /\ ~enter /\ reading
        /\ strlen(buff) >= Len(typed) /\ Holds(Len(typed)) /\ gi = Len(typed)
    BY <1>2, <2>1, <2>2, WaitingFacts DEF Waiting
  <2>4. /\ strlen(buff) \in Nat /\ strlen(buff) # 0
        /\ buff' = buff \ {strlen(buff) - 1}
        /\ gi' = gi - 1 /\ retstr' = Put(retstr, gi - 1, Nul)
    <3>1. strlen(buff) \in 0 .. BuffSize
      BY <1>1, StrlenFacts
    <3>2. strlen(buff) \in Nat /\ strlen(buff) # 0
      BY <1>1, <1>4, <2>2, <2>3, <3>1, TypeFacts
    <3>3. QED
      BY <1>3, <2>3, <3>2
  <2>5. strlen(buff') = strlen(buff) - 1
    BY <1>1, <2>4, EraseShrinks
  <2>6. Len(typed') = Len(typed) - 1 /\ Len(typed) \in Nat \ {0}
    BY <1>4, <2>2
  <2>7. strlen(buff') >= Len(typed') /\ gi' = Len(typed')
    BY <2>3, <2>4, <2>5, <2>6
  <2>8. Holds(Len(typed))'
    <3>1. /\ Len(typed) \in 0 .. LineSize - 1
          /\ \A i \in 0 .. LineSize - 1 : retstr[i] = IF i < Len(typed) THEN typed[i + 1] ELSE Nul
      BY <2>3 DEF Holds
    <3>2. \A j \in 0 .. LineSize - 1 : retstr'[j] = IF j = gi - 1 THEN Nul ELSE retstr[j]
      <4>1. gi - 1 \in Int /\ Nul \in Char /\ retstr \in [0 .. LineSize - 1 -> Char]
        BY <1>1, TypeFacts DEF Char
      <4>2. QED
        BY <2>4, <4>1 DEF Put
    <3>3. \A i \in 0 .. LineSize - 1 : i < Len(typed) - 1 => shorter[i + 1] = typed[i + 1]
      BY <1>4, <2>2, <2>6
    <3>4. \A i \in 0 .. LineSize - 1 :
            retstr'[i] = IF i < Len(typed) - 1 THEN shorter[i + 1] ELSE Nul
      BY <2>3, <2>6, <3>1, <3>2, <3>3
    <3>5. Len(typed') \in 0 .. LineSize - 1
      BY <1>1, <2>6, <3>1, TypeFacts
    <3>6. QED
      BY <2>2, <2>6, <3>4, <3>5 DEF Holds
  <2>9. pc' \in {"poll", "check"} /\ ~Ended' /\ ~Pending'
    BY <1>2, <2>3 DEF Ended, Pending
  <2>10. QED
    BY <2>7, <2>8, <2>9 DEF CalmInv
<1>10. QED
  BY <1>8, <1>9 DEF IInv

(***************************************************************************)
(* A printable key is calm only with a character, which then waits in c.   *)
(***************************************************************************)
LEMMA PrintableStep ==
  ASSUME IInv, NEW k \in Keys, Printable(k)
  PROVE  IInv'
<1>1. TypeOK /\ TermInv /\ ReadingInv /\ buff \subseteq 0 .. BuffSize - 1
  BY DEF IInv, TermInv, TypeOK
<1>2. /\ c' = get_ascii_char(k) /\ k \notin {"enter", "backspace"}
      /\ strlen(buff) < BuffSize /\ pressed' = TRUE
      /\ buff' = IF c' = Nul THEN buff ELSE strcat(buff)
      /\ Sees(Append(typed, c'), c' # Nul)
      /\ UNCHANGED <<held, enter, reading, retstr, gi, pc, idx, ch, build>>
  BY DEF Printable, Strikes, line, reader
<1>3. c' \in Char /\ (c' # Nul => c' \in {"l", "L"})
  BY <1>2, CharType
<1>4. /\ typed \in Seq({"l", "L"}) /\ Len(typed) \in Nat
      /\ c' # Nul => /\ Append(typed, c') \in Seq({"l", "L"})
                     /\ Len(Append(typed, c')) = Len(typed) + 1
                     /\ Append(typed, c')[Len(typed) + 1] = c'
                     /\ \A i \in 1 .. Len(typed) : Append(typed, c')[i] = typed[i]
  <2>1. typed \in Seq({"l", "L"}) /\ Len(typed) \in Nat
    BY <1>1, TypeFacts
  <2>2. QED
    BY <1>3, <2>1
<1>5. typed' \in Seq({"l", "L"}) /\ calm' \in BOOLEAN
  BY <1>1, <1>2, <1>4, TypeFacts, SeesType
<1>6. buff' \subseteq 0 .. BuffSize - 1
  BY <1>1, <1>2, StrcatGrows
<1>7. TypeOK'
  BY <1>1, <1>2, <1>3, <1>5, <1>6 DEF TypeOK
<1>8. TermInv' /\ ReadingInv'
  BY <1>1, <1>2, <1>7 DEF TermInv, RoomForChar, StoreIndex, LineTerminated, ReadingInv
<1>9. CalmInv'
  <2>1. SUFFICES ASSUME calm', build' # "loop" PROVE CalmInv'
    BY DEF CalmInv
  <2>2. calm /\ Waiting /\ c' # Nul /\ typed' = Append(typed, c')
    BY <1>2, <2>1 DEF Sees
  <2>3. /\ pc \in {"poll", "check"} /\ ~pressed /\ ~enter
        /\ strlen(buff) >= Len(typed) /\ Holds(Len(typed)) /\ gi = Len(typed)
    BY <1>2, <2>1, <2>2, WaitingFacts
  <2>4. /\ Len(typed') = Len(typed) + 1 /\ typed'[Len(typed')] = c'
        /\ \A i \in 1 .. Len(typed) : typed'[i] = typed[i]
    BY <1>4, <2>2
  <2>5. strlen(buff') >= Len(typed')
    <3>1. strlen(buff) \in 0 .. BuffSize /\ buff' = strcat(buff)
      BY <1>1, <1>2, <2>2, StrlenFacts
    <3>2. strlen(buff') >= strlen(buff) + 1 /\ strlen(buff') \in 0 .. BuffSize
      BY <1>1, <1>2, <1>6, <3>1, StrcatGrows, StrlenFacts
    <3>3. BuffSize \in Nat
      BY KeyboardAssumption
    <3>4. QED
      BY <1>4, <2>3, <2>4, <3>1, <3>2, <3>3
  <2>6. gi' = Len(typed') - 1
    BY <1>2, <1>4, <2>3, <2>4
  <2>7. Holds(gi)'
    <3>1. /\ gi \in 0 .. LineSize - 1
          /\ \A i \in 0 .. LineSize - 1 : retstr[i] = IF i < gi THEN typed[i + 1] ELSE Nul
      BY <2>3 DEF Holds
    <3>2. \A i \in 0 .. LineSize - 1 : i < gi => typed'[i + 1] = typed[i + 1]
      BY <1>4, <2>3, <2>4
    <3>3. QED
      BY <1>2, <3>1, <3>2 DEF Holds
  <2>8. /\ pc' \in {"poll", "check"} /\ Pending' /\ ~Ended'
    BY <1>2, <2>3 DEF Ended, Pending
  <2>9. QED
    BY <2>4, <2>5, <2>6, <2>7, <2>8 DEF CalmInv
<1>10. QED
  BY <1>8, <1>9 DEF IInv

(***************************************************************************)
(* Ctrl and L clear buff, the line, and what the user sees; gi stays, but  *)
(* the line has ended.                                                     *)
(***************************************************************************)
LEMMA CombinationStep ==
  ASSUME IInv, NEW k \in Keys, Combination(k)
  PROVE  IInv'
<1> DEFINE clears == "ctrl" \in held /\ k = "l"
           seen == IF clears THEN << >> ELSE typed
<1>1. TypeOK /\ TermInv /\ ReadingInv /\ buff \subseteq 0 .. BuffSize - 1
  BY DEF IInv, TermInv, TypeOK
<1>2. /\ c' = get_ascii_char(k)
      /\ buff' = IF clears THEN buff \ {0} ELSE buff
      /\ \/ clears /\ reading /\ retstr' = EmptyLine /\ enter' = TRUE
         \/ ~(clears /\ reading) /\ UNCHANGED <<retstr, enter>>
      /\ Sees(seen, TRUE)
      /\ UNCHANGED <<held, pressed, reading, gi, pc, idx, ch, build>>
  BY DEF Combination, clearBuffer, reader
<1>3. seen \in Seq({"l", "L"})
  BY <1>1, TypeFacts
<1> HIDE DEF seen, clears
<1>4. typed' \in Seq({"l", "L"}) /\ calm' \in BOOLEAN
  BY <1>1, <1>2, <1>3, TypeFacts, SeesType
<1>5. /\ c' \in Char /\ buff' \subseteq 0 .. BuffSize - 1 /\ enter' \in BOOLEAN
      /\ retstr' \in [0 .. LineSize - 1 -> Char] /\ retstr'[LineSize - 1] = Nul
  <2>1. c' \in Char /\ buff' \subseteq 0 .. BuffSize - 1
    BY <1>1, <1>2, CharType
  <2>2. /\ enter \in BOOLEAN /\ retstr \in [0 .. LineSize - 1 -> Char]
        /\ retstr[LineSize - 1] = Nul /\ LineSize - 1 \in 0 .. LineSize - 1
    BY <1>1, TypeFacts DEF TermInv, LineTerminated
  <2>3. CASE retstr' = EmptyLine /\ enter' = TRUE
    BY <2>1, <2>2, <2>3, EmptyLineFacts
  <2>4. CASE UNCHANGED <<retstr, enter>>
    BY <2>1, <2>2, <2>4
  <2>5. QED
    BY <1>2, <2>3, <2>4
<1>6. TypeOK'
  BY <1>1, <1>2, <1>4, <1>5 DEF TypeOK
<1>7. TermInv' /\ ReadingInv'
  BY <1>1, <1>2, <1>5, <1>6 DEF TermInv, RoomForChar, StoreIndex, LineTerminated, ReadingInv
<1>8. CalmInv'
  <2>1. SUFFICES ASSUME calm', build' # "loop" PROVE CalmInv'
    BY DEF CalmInv
  <2>2. calm /\ Waiting /\ typed' = seen
    BY <1>2, <2>1 DEF Sees
  <2>3. /\ pc \in {"poll", "check"} /\ ~pressed /\ ~enter /\ reading
        /\ strlen(buff) >= Len(typed) /\ Holds(Len(typed)) /\ gi = Len(typed)
    BY <1>2, <2>1, <2>2, WaitingFacts DEF Waiting
  <2>4. pc' \in {"poll", "check"} /\ ~Pending'
    BY <1>2, <2>3 DEF Pending
  <2>5. CASE clears
    <3>1. typed' = << >> /\ retstr' = EmptyLine /\ enter' = TRUE
      BY <1>2, <2>2, <2>3, <2>5 DEF seen
    <3>2. Holds(Len(typed))'
      <4>1. Len(typed') = 0 /\ 0 \in 0 .. LineSize - 1
        BY <1>1, <3>1, TypeFacts
      <4>2. QED
        BY <3>1, <4>1, EmptyLineFacts DEF Holds
    <3>3. Ended'
      BY <3>1 DEF Ended
    <3>4. QED
      BY <2>4, <3>2, <3>3 DEF CalmInv
  <2>6. CASE ~clears
    <3>1. typed' = typed /\ retstr' = retstr /\ enter' = enter /\ buff' = buff /\ gi' = gi
      BY <1>2, <2>2, <2>6 DEF seen
    <3>2. Holds(Len(typed))' /\ strlen(buff') >= Len(typed') /\ gi' = Len(typed')
      BY <2>3, <3>1 DEF Holds
    <3>3. QED
      BY <2>4, <3>2 DEF CalmInv
  <2>7. QED
    BY <2>5, <2>6
<1>9. QED
  BY <1>7, <1>8 DEF IInv

(***************************************************************************)
(* The initial state; Reboot leads to one.                                 *)
(***************************************************************************)
LEMMA InitIInv == Init => IInv
<1> SUFFICES ASSUME Init PROVE IInv
  OBVIOUS
<1>1. /\ retstr \in [0 .. LineSize - 1 -> Char] /\ retstr[LineSize - 1] = Nul
  BY EmptyLineFacts, KeyboardAssumption DEF Init
<1>2. TypeOK
  <2>1. c \in Char /\ ch \in Char /\ typed \in Seq({"l", "L"})
    BY DEF Init, Char
  <2>2. gi \in -MaxUnder .. LineSize - 1 /\ idx \in -MaxUnder .. LineSize - 1
    BY KeyboardAssumption DEF Init
  <2>3. QED
    BY <1>1, <2>1, <2>2 DEF Init, TypeOK
<1>3. TermInv /\ ReadingInv
  BY <1>1, <1>2 DEF Init, TermInv, RoomForChar, LineTerminated, ReadingInv
<1>4. CalmInv
  BY DEF Init, CalmInv
<1>5. QED
  BY <1>3, <1>4 DEF IInv

(***************************************************************************)
(* Ctrl, alt and delete.                                                   *)
(***************************************************************************)
LEMMA RebootStep ==
  ASSUME IInv, Reboot
  PROVE  IInv'
<1>1. /\ retstr' \in [0 .. LineSize - 1 -> Char] /\ retstr'[LineSize - 1] = Nul
  BY EmptyLineFacts, KeyboardAssumption DEF Reboot
<1>2. TypeOK'
  BY <1>1, KeyboardAssumption DEF Reboot, TypeOK, Char, Nul
<1>3. TermInv' /\ ReadingInv'
  BY <1>1, <1>2 DEF IInv, Reboot, TermInv, RoomForChar, LineTerminated, ReadingInv
<1>4. CalmInv'
  BY DEF Reboot, CalmInv
<1>5. QED
  BY <1>3, <1>4 DEF IInv

-----------------------------------------------------------------------------
(* getLine *)

(***************************************************************************)
(* getLine begins with an empty line.                                      *)
(***************************************************************************)
LEMMA GetLineStep ==
  ASSUME IInv, GetLine
  PROVE  IInv'
<1>1. TypeOK /\ TermInv /\ ReadingInv /\ buff \subseteq 0 .. BuffSize - 1
  BY DEF IInv, TermInv, TypeOK
<1>2. /\ pc = "shell" /\ reading' = TRUE /\ retstr' = EmptyLine /\ pc' = "poll"
      /\ idx' = IF build = "loop" THEN gi ELSE 0
      /\ UNCHANGED <<held, c, buff, pressed, enter, gi, ch, build, typed, calm>>
  BY DEF GetLine
<1>3. /\ retstr' \in [0 .. LineSize - 1 -> Char] /\ retstr'[LineSize - 1] = Nul
  BY <1>2, EmptyLineFacts, KeyboardAssumption
<1>4. idx' \in -MaxUnder .. LineSize - 1
  BY <1>1, <1>2, KeyboardAssumption DEF TypeOK
<1>5. TypeOK'
  BY <1>1, <1>2, <1>3, <1>4 DEF TypeOK
<1>6. TermInv' /\ ReadingInv'
  BY <1>1, <1>2, <1>3, <1>5 DEF TermInv, RoomForChar, LineTerminated, ReadingInv
<1>7. CalmInv'
  <2>1. SUFFICES ASSUME calm', build' # "loop" PROVE CalmInv'
    BY DEF CalmInv
  <2>2. typed = << >> /\ ~pressed /\ ~enter /\ gi = 0
    BY <1>2, <2>1 DEF IInv, CalmInv
  <2>3. pc' = "poll" /\ ~Pending' /\ typed' = << >> /\ Len(typed') = 0 /\ gi' = 0
    BY <1>2, <2>2 DEF Pending
  <2>4. strlen(buff') >= Len(typed')
    <3>1. strlen(buff) \in 0 .. BuffSize
      BY <1>1, StrlenFacts
    <3>2. QED
      BY <1>2, <2>3, <3>1, KeyboardAssumption
  <2>5. Holds(Len(typed))'
    <3>1. 0 \in 0 .. LineSize - 1
      BY KeyboardAssumption
    <3>2. QED
      BY <1>2, <2>3, <3>1, EmptyLineFacts DEF Holds
  <2>6. QED
    BY <2>3, <2>4, <2>5 DEF CalmInv
<1>8. QED
  BY <1>6, <1>7 DEF IInv

(***************************************************************************)
(* Line 177: enter ends the loop.                                          *)
(***************************************************************************)
LEMMA PollEnterStep ==
  ASSUME IInv, PollEnter
  PROVE  IInv'
<1>1. TypeOK /\ TermInv /\ ReadingInv /\ CalmInv /\ enter \in BOOLEAN
  BY DEF IInv, TermInv, TypeOK
<1>2. /\ pc = "poll"
      /\ pc' = IF enter THEN "done" ELSE "check"
      /\ UNCHANGED <<held, c, buff, pressed, enter, reading, retstr, gi, idx, ch, build>>
      /\ UNCHANGED <<typed, calm>>
  BY DEF PollEnter, flags, line
<1>3. TypeOK'
  BY <1>1, <1>2 DEF TypeOK
<1>4. TermInv' /\ ReadingInv'
  BY <1>1, <1>2, <1>3 DEF TermInv, RoomForChar, LineTerminated, ReadingInv
<1>5. CalmInv'
  <2>1. SUFFICES ASSUME calm', build' # "loop" PROVE CalmInv'
    BY DEF CalmInv
  <2>2. (Pending' <=> Pending) /\ (Ended' <=> Ended) /\ (pc' = "done" => enter')
    BY <1>1, <1>2 DEF Pending, Ended
  <2>3. pc' \in {"done", "check"}
    BY <1>2
  <2>4. QED
    BY <1>1, <1>2, <2>1, <2>2, <2>3 DEF CalmInv, Holds
<1>6. QED
  BY <1>4, <1>5 DEF IInv

(***************************************************************************)
(* Lines 178-186: a character is read only if it fits.                     *)
(***************************************************************************)
LEMMA PollPressedStep ==
  ASSUME IInv, PollPressed
  PROVE  IInv'
<1>1. /\ TypeOK /\ TermInv /\ ReadingInv /\ CalmInv /\ pressed \in BOOLEAN
      /\ build \in {"reload", "once", "loop"}
  BY DEF IInv, TermInv, TypeOK
<1>2. /\ pc = "check"
      /\ \/ pc' = "poll" /\ ~pressed
         \/ pc' = "done" /\ pressed
         \/ pc' = "get" /\ pressed /\ ~(TestedIndex >= LineSize - 1)
      /\ idx' = IF pc' = "get" /\ build = "once" THEN gi ELSE idx
      /\ calm' = (calm /\ pc' # "done")
      /\ typed' = IF calm' THEN typed ELSE << >>
      /\ UNCHANGED <<held, c, buff, pressed, enter, reading, retstr, gi, ch, build>>
  BY <1>1 DEF PollPressed, flags, line
<1>3. idx' \in -MaxUnder .. LineSize - 1
  BY <1>1, <1>2 DEF TypeOK
<1>4. calm' \in BOOLEAN /\ typed' \in Seq({"l", "L"})
  <2>1. calm' \in BOOLEAN
    BY <1>2, Zenon
  <2>2. << >> \in Seq({"l", "L"}) /\ typed \in Seq({"l", "L"})
    BY <1>1, TypeFacts
  <2>3. QED
    BY <1>2, <2>1, <2>2
<1>5. TypeOK'
  BY <1>1, <1>2, <1>3, <1>4 DEF TypeOK
<1>6. RoomForChar'
  <2>1. SUFFICES ASSUME pc' = "get" PROVE StoreIndex' < LineSize - 1
    BY <1>2 DEF RoomForChar
  <2>2. ~(TestedIndex >= LineSize - 1) /\ StoreIndex' = TestedIndex
    BY <1>1, <1>2, <2>1 DEF TestedIndex, StoreIndex
  <2>3. TestedIndex \in Int /\ LineSize \in Nat
    BY <1>1, TypeFacts DEF TestedIndex
  <2>4. QED
    BY <2>2, <2>3
<1>7. TermInv' /\ ReadingInv'
  BY <1>1, <1>2, <1>5, <1>6 DEF TermInv, LineTerminated, ReadingInv
<1>8. CalmInv'
  <2>1. SUFFICES ASSUME calm', build' # "loop" PROVE CalmInv'
    BY DEF CalmInv
  <2>2. calm /\ pc' \in {"poll", "get"} /\ typed' = typed
    BY <1>2, <2>1
  <2>3. (Pending' <=> Pending) /\ (Ended' <=> Ended) /\ (pc' = "get" => pressed' /\ Pending)
    BY <1>2, <2>2 DEF Pending, Ended
  <2>4. build' = "once" /\ pc' = "get" => idx' = gi'
    BY <1>2
  <2>5. QED
    BY <1>1, <1>2, <2>1, <2>2, <2>3, <2>4 DEF CalmInv, Holds
<1>9. QED
  BY <1>7, <1>8 DEF IInv

(***************************************************************************)
(* getchar: the flag is reset, the character is still in c.                *)
(***************************************************************************)
LEMMA TakePressedStep ==
  ASSUME IInv, TakePressed
  PROVE  IInv'
<1>1. TypeOK /\ TermInv /\ ReadingInv /\ CalmInv
  BY DEF IInv, TermInv
<1>2. /\ pc = "get" /\ pressed /\ pressed' = FALSE /\ pc' = "char"
      /\ UNCHANGED <<held, c, buff, enter, reading, retstr, gi, idx, ch, build, typed, calm>>
  BY DEF TakePressed, line
<1>3. TypeOK'
  BY <1>1, <1>2 DEF TypeOK
<1>4. TermInv' /\ ReadingInv'
  BY <1>1, <1>2, <1>3 DEF TermInv, RoomForChar, StoreIndex, LineTerminated, ReadingInv
<1>5. CalmInv'
  <2>1. Pending /\ Pending' /\ (Ended' <=> Ended)
    BY <1>2 DEF Pending, Ended
  <2>2. QED
    BY <1>1, <1>2, <2>1 DEF CalmInv, Holds
<1>6. QED
  BY <1>4, <1>5 DEF IInv

(***************************************************************************)
(* getchar: the character is read.                                         *)
(***************************************************************************)
LEMMA TakeCharStep ==
  ASSUME IInv, TakeChar
  PROVE  IInv'
<1>1. TypeOK /\ TermInv /\ ReadingInv /\ CalmInv
  BY DEF IInv, TermInv
<1>2. /\ pc = "char" /\ ch' = c /\ pc' = "store"
      /\ UNCHANGED <<held, c, buff, pressed, enter, reading, retstr, gi, idx, build, typed, calm>>
  BY DEF TakeChar, flags, line
<1>3. TypeOK'
  BY <1>1, <1>2 DEF TypeOK
<1>4. TermInv' /\ ReadingInv'
  BY <1>1, <1>2, <1>3 DEF TermInv, RoomForChar, StoreIndex, LineTerminated, ReadingInv
<1>5. CalmInv'
  <2>1. Pending /\ Pending' /\ (Ended' <=> Ended)
    BY <1>2 DEF Pending, Ended
  <2>2. QED
    BY <1>1, <1>2, <2>1 DEF CalmInv, Holds
<1>6. QED
  BY <1>4, <1>5 DEF IInv

(***************************************************************************)
(* Lines 187-188: the character goes behind the ones before it, and never  *)
(* to the last place.                                                      *)
(***************************************************************************)
LEMMA StoreCharStep ==
  ASSUME IInv, StoreChar
  PROVE  IInv'
<1>1. /\ TypeOK /\ TermInv /\ ReadingInv /\ CalmInv
      /\ gi \in -MaxUnder .. LineSize - 1 /\ idx \in -MaxUnder .. LineSize - 1
      /\ build \in {"reload", "once", "loop"}
      /\ retstr \in [0 .. LineSize - 1 -> Char] /\ ch \in Char
  BY DEF IInv, TermInv, TypeOK
<1> DEFINE i == StoreIndex
<1>2. /\ pc = "store" /\ retstr' = Put(retstr, i, ch)
      /\ gi' = IF build = "loop" THEN gi ELSE i + 1
      /\ idx' = IF build = "loop" THEN i + 1 ELSE 0
      /\ ch' = Nul /\ pc' = "poll"
      /\ UNCHANGED <<held, c, buff, pressed, enter, reading, build, typed, calm>>
  BY DEF StoreChar, StoreIndex, flags
<1>3. i \in -MaxUnder .. LineSize - 2 /\ i \in Int
  <2>1. i \in -MaxUnder .. LineSize - 1 /\ i < LineSize - 1
    BY <1>1, <1>2 DEF StoreIndex, TermInv, RoomForChar
  <2>2. QED
    BY <2>1, KeyboardAssumption
<1> HIDE DEF i
<1>4. /\ retstr' \in [0 .. LineSize - 1 -> Char]
      /\ \A j \in 0 .. LineSize - 1 : retstr'[j] = IF j = i THEN ch ELSE retstr[j]
  BY <1>1, <1>2, <1>3 DEF Put
<1>5. gi' \in -MaxUnder .. LineSize - 1 /\ idx' \in -MaxUnder .. LineSize - 1
  BY <1>1, <1>2, <1>3, KeyboardAssumption
<1>6. TypeOK'
  BY <1>1, <1>2, <1>4, <1>5 DEF TypeOK, Char
<1>7. TermInv' /\ ReadingInv'
  <2>1. LineTerminated'
    <3>1. LineSize - 1 \in 0 .. LineSize - 1 /\ LineSize - 1 # i
      BY <1>3, KeyboardAssumption
    <3>2. QED
      BY <1>1, <1>4, <3>1 DEF TermInv, LineTerminated
  <2>2. QED
    BY <1>1, <1>2, <1>6, <2>1 DEF TermInv, RoomForChar, ReadingInv
<1>8. CalmInv'
  <2>1. SUFFICES ASSUME calm', build' # "loop" PROVE CalmInv'
    BY DEF CalmInv
  <2>2. Pending /\ calm /\ build # "loop"
    BY <1>2, <2>1 DEF Pending
  <2>3. /\ ~pressed /\ ~Ended /\ strlen(buff) >= Len(typed)
        /\ gi = Len(typed) - 1 /\ Holds(gi) /\ ch = typed[Len(typed)]
        /\ build = "once" => idx = gi
    BY <1>1, <1>2, <2>2 DEF CalmInv
  <2>4. i = gi /\ gi' = gi + 1
    BY <1>1, <1>2, <2>1, <2>3 DEF i, StoreIndex
  <2>5. Len(typed) \in Nat /\ gi' = Len(typed') /\ Len(typed') = gi + 1
    BY <1>1, <1>2, <2>3, <2>4, TypeFacts
  <2>6. ~Pending' /\ pc' = "poll" /\ (Ended' <=> Ended)
    BY <1>2, <2>3 DEF Pending, Ended
  <2>7. Holds(Len(typed))'
    <3>1. /\ gi \in 0 .. LineSize - 1
          /\ \A j \in 0 .. LineSize - 1 : retstr[j] = IF j < gi THEN typed[j + 1] ELSE Nul
      BY <2>3 DEF Holds
    <3>2. Len(typed) \in 0 .. LineSize - 1 /\ Len(typed) = gi + 1
      BY <1>3, <2>4, <2>5, <3>1, <1>2, KeyboardAssumption
    <3>3. \A j \in 0 .. LineSize - 1 : retstr'[j] = IF j < Len(typed) THEN typed[j + 1] ELSE Nul
      BY <1>4, <2>3, <2>4, <3>1, <3>2
    <3>4. QED
      BY <1>2, <3>2, <3>3 DEF Holds
  <2>8. QED
    BY <1>2, <2>3, <2>5, <2>6, <2>7 DEF CalmInv
<1>9. QED
  BY <1>7, <1>8 DEF IInv

(***************************************************************************)
(* The loop is over: enter is reset.                                       *)
(***************************************************************************)
LEMMA ClearEnterStep ==
  ASSUME IInv, ClearEnter
  PROVE  IInv'
<1>1. TypeOK /\ TermInv /\ ReadingInv /\ CalmInv
  BY DEF IInv, TermInv
<1>2. /\ pc = "done" /\ enter' = FALSE /\ pc' = "end"
      /\ UNCHANGED <<held, c, buff, pressed, reading, retstr, gi, idx, ch, build, typed, calm>>
  BY DEF ClearEnter, line
<1>3. TypeOK'
  BY <1>1, <1>2 DEF TypeOK
<1>4. TermInv' /\ ReadingInv'
  BY <1>1, <1>2, <1>3 DEF TermInv, RoomForChar, LineTerminated, ReadingInv
<1>5. CalmInv'
  <2>1. Ended /\ Ended' /\ (Pending' <=> Pending)
    BY <1>2 DEF Pending, Ended
  <2>2. QED
    BY <1>1, <1>2, <2>1 DEF CalmInv, Holds
<1>6. QED
  BY <1>4, <1>5 DEF IInv

(***************************************************************************)
(* getLine returns.                                                        *)
(***************************************************************************)
LEMMA EndLineStep ==
  ASSUME IInv, EndLine
  PROVE  IInv'
<1>1. TypeOK /\ TermInv /\ ReadingInv /\ CalmInv
  BY DEF IInv, TermInv
<1>2. /\ pc = "end" /\ reading' = FALSE /\ gi' = 0 /\ pc' = "shell" /\ idx' = 0 /\ typed' = << >>
      /\ UNCHANGED <<held, c, buff, pressed, enter, retstr, ch, build, calm>>
  BY DEF EndLine
<1>3. TypeOK'
  <2>1. 0 \in -MaxUnder .. LineSize - 1 /\ << >> \in Seq({"l", "L"})
    BY KeyboardAssumption
  <2>2. QED
    BY <1>1, <1>2, <2>1 DEF TypeOK
<1>4. TermInv' /\ ReadingInv'
  BY <1>1, <1>2, <1>3 DEF TermInv, RoomForChar, LineTerminated, ReadingInv
<1>5. CalmInv'
  <2>1. SUFFICES ASSUME calm', build' # "loop" PROVE CalmInv'
    BY DEF CalmInv
  <2>2. ~pressed /\ ~enter
    BY <1>1, <1>2, <2>1 DEF CalmInv, Pending, Ended
  <2>3. QED
    BY <1>2, <2>2 DEF CalmInv
<1>6. QED
  BY <1>4, <1>5 DEF IInv

-----------------------------------------------------------------------------
(* The theorems. *)

(***************************************************************************)
(* Every step keeps the invariant.                                         *)
(***************************************************************************)
LEMMA NextIInv == IInv /\ [Next]_vars => IInv'
<1> SUFFICES ASSUME IInv, [Next]_vars PROVE IInv'
  OBVIOUS
<1>1. CASE Keyboard_Handler
  BY <1>1, ModifierStep, PrintableStep, CombinationStep, NewlineStep, BackspaceStep,
     ArrowStep, RebootStep DEF Keyboard_Handler
<1>2. CASE getLine
  BY <1>2, GetLineStep, PollEnterStep, PollPressedStep, TakePressedStep, TakeCharStep,
     StoreCharStep, ClearEnterStep, EndLineStep DEF getLine
<1>3. CASE UNCHANGED vars
  BY <1>3 DEF vars, flags, line, reader, IInv, TermInv, TypeOK, RoomForChar, StoreIndex,
     LineTerminated, ReadingInv, CalmInv, Pending, Ended, Holds
<1>4. QED
  BY <1>1, <1>2, <1>3 DEF Next

(***************************************************************************)
(* The strengthened invariant holds in every reachable state.              *)
(***************************************************************************)
THEOREM KeyboardInvariance == Spec => []IInv
<1>1. Init => IInv
  BY InitIInv
<1>2. IInv /\ [Next]_vars => IInv'
  BY NextIInv
<1>3. QED
  BY <1>1, <1>2, PTL DEF Spec

(***************************************************************************)
(* gi, the positions in buff and the characters stay in their ranges.      *)
(***************************************************************************)
THEOREM KeyboardTypeCorrect == Spec => []TypeOK
<1>1. IInv => TypeOK
  BY DEF IInv, TermInv
<1>2. QED
  BY <1>1, KeyboardInvariance, PTL

(***************************************************************************)
(* Whatever is typed and in whatever step the interrupts find getLine, on  *)
(* every build, the string that getLine returns ends inside retstr.        *)
(***************************************************************************)
THEOREM LineEndsInArray == Spec => []LineTerminated
<1>1. IInv => LineTerminated
  BY DEF IInv, TermInv
<1>2. QED
  BY <1>1, KeyboardInvariance, PTL

(***************************************************************************)
(* The string in retstr is what the line holds before its first NUL.       *)
(***************************************************************************)
LEMMA TextOfLine ==
  ASSUME TypeOK, Holds(Len(typed))
  PROVE  Text(retstr) = typed
<1>1. /\ Len(typed) \in Nat /\ typed \in Seq({"l", "L"})
      /\ \A i \in 1 .. Len(typed) : typed[i] \in {"l", "L"}
      /\ LineSize \in Nat
  BY TypeFacts
<1>2. /\ Len(typed) \in 0 .. LineSize - 1
      /\ \A i \in 0 .. LineSize - 1 :
           retstr[i] = IF i < Len(typed) THEN typed[i + 1] ELSE Nul
  BY DEF Holds
<1> DEFINE n == Len(typed)
           Q(k) == retstr[k] = Nul /\ \A j \in 0 .. k - 1 : retstr[j] # Nul
<1>3. \A i \in 0 .. n - 1 : retstr[i] # Nul
  <2>1. SUFFICES ASSUME NEW i \in 0 .. n - 1 PROVE retstr[i] # Nul
    OBVIOUS
  <2>2. retstr[i] = typed[i + 1] /\ i + 1 \in 1 .. n
    BY <1>1, <1>2
  <2>3. typed[i + 1] \in {"l", "L"}
    BY <1>1, <2>2
  <2>4. QED
    BY <2>2, <2>3 DEF Nul
<1>4. retstr[n] = Nul
  BY <1>1, <1>2
<1>5. Q(n)
  BY <1>3, <1>4
<1>6. \A k \in 0 .. LineSize - 1 : Q(k) => k = n
  <2>1. SUFFICES ASSUME NEW k \in 0 .. LineSize - 1, Q(k) PROVE k = n
    OBVIOUS
  <2>2. ~(k < n)
    BY <1>1, <1>3, <2>1
  <2>3. ~(n < k)
    BY <1>1, <1>4, <2>1
  <2>4. QED
    BY <1>1, <2>2, <2>3
<1>7. (CHOOSE k \in 0 .. LineSize - 1 : Q(k)) = n
  BY <1>2, <1>5, <1>6
<1>8. Text(retstr) = [i \in 1 .. n |-> retstr[i - 1]]
  BY <1>7 DEF Text
<1>9. \A i \in 1 .. n : retstr[i - 1] = typed[i]
  BY <1>1, <1>2
<1>10. typed = [i \in 1 .. n |-> typed[i]]
  BY <1>1
<1>11. QED
  BY <1>8, <1>9, <1>10

(***************************************************************************)
(* On a build that keeps gi in memory a calm user gets the line that the   *)
(* screen shows, backspaces included.                                      *)
(***************************************************************************)
THEOREM CalmLineIsTyped == Spec => LineIsWhatWasTyped
<1>1. IInv /\ [Next]_vars => [EndLine /\ calm /\ build # "loop" => Text(retstr) = typed]_vars
  <2>1. SUFFICES ASSUME IInv, EndLine, calm, build # "loop" PROVE Text(retstr) = typed
    OBVIOUS
  <2>2. pc = "end" /\ TypeOK
    BY <2>1 DEF EndLine, IInv, TermInv
  <2>3. Holds(Len(typed))
    BY <2>1, <2>2 DEF IInv, CalmInv, Pending, Ended
  <2>4. QED
    BY <2>2, <2>3, TextOfLine
<1>2. QED
  BY <1>1, KeyboardInvariance, PTL DEF Spec, LineIsWhatWasTyped

=============================================================================
