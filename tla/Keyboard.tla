------------------------------ MODULE Keyboard ------------------------------
(***************************************************************************)
(* The PS/2 keyboard, drivers/devices/keyboard.cpp: the interrupt handler  *)
(* fills buff, c and the flags pressed and enter, and getLine polls the    *)
(* flags and assembles the line in retstr.  The shell reads on the CPU     *)
(* that takes the interrupt, so a handler runs between two steps of        *)
(* getLine and to its end.  What is printed is left out.                   *)
(*                                                                         *)
(* gi is neither volatile nor protected, and the build optimises (-Ofast,  *)
(* src/Makefile line 32): a build may read gi from memory at every use     *)
(* ("reload"), once per turn of the loop ("once"), or keep it in a         *)
(* register until getLine returns ("loop").  Every behaviour is one of a   *)
(* single build.                                                           *)
(*                                                                         *)
(* typed and calm are history variables.  typed is the line the user sees. *)
(* calm says that so far every key was struck while getLine was waiting    *)
(* for it, and that there was no key without a character, no arrow, and no *)
(* backspace on an empty line.                                             *)
(***************************************************************************)
EXTENDS Integers, Sequences

CONSTANTS
  LineSize,  \* of retstr (1024)
  BuffSize,  \* of buff (1024); bound: no character is struck when it is full
  MaxUnder,  \* bound: how far gi goes below 0
  Mods,      \* the modifier and lock keys used in this instance
  Keys       \* the other keys

ASSUME KeyboardAssumption ==
  /\ LineSize \in Nat \ {0, 1} /\ BuffSize \in Nat \ {0} /\ MaxUnder \in Nat
  /\ Mods \subseteq {"shift", "ctrl", "alt", "capslock", "numlock", "scrolllock"}
  /\ Keys \subseteq {"l", "enter", "backspace", "delete"}

VARIABLES
  held,     \* kbd_mod: the fields that are true
  c,        \* c[0]
  buff,     \* the positions of buff that hold a character
  pressed, enter, reading,
  retstr, gi,
  pc,       \* where the shell is in getLine
  idx, ch,  \* getLine's copy of gi and the character it has read, while it needs them
  build,
  typed, calm

flags == <<pressed, enter, reading>>
line == <<retstr, gi>>
reader == <<pc, idx, ch>>
vars == <<held, c, buff, flags, line, reader, build, typed, calm>>

Nul == "nul"
EmptyLine == [i \in 0 .. LineSize - 1 |-> Nul]

Init ==
  /\ held = {} /\ c = Nul /\ buff = {}
  /\ pressed = FALSE /\ enter = FALSE /\ reading = FALSE
  /\ retstr = EmptyLine /\ gi = 0
  /\ pc = "shell" /\ idx = 0 /\ ch = Nul
  /\ build \in {"reload", "once", "loop"}
  /\ typed = << >> /\ calm = TRUE

-----------------------------------------------------------------------------
(* The C strings *)

strlen(b) == CHOOSE n \in 0 .. BuffSize : n \notin b /\ 0 .. n - 1 \subseteq b

\* lib/string.cpp 45-50 writes no terminating NUL: what was behind stays.
strcat(b) == b \cup {strlen(b)}

\* The loop asks for strlen(buff) in every turn, which is 0 after the first.
clearBuffer(b) == b \ {0}

\* A store through a C array; outside it other memory is hit.
Put(s, i, x) == IF i \in DOMAIN s THEN [s EXCEPT ![i] = x] ELSE s

-----------------------------------------------------------------------------
(* Keyboard_Handler *)

\* The tables of scancodes.hpp for the keys of the model.
get_ascii_char(k) ==
  CASE k = "l" -> IF ("shift" \in held) # ("capslock" \in held) THEN "L" ELSE "l"
    [] k = "enter" -> "lf"
    [] k = "backspace" -> "bs"
    [] OTHER -> Nul

\* getLine has handled every key so far and is waiting.
Waiting == reading /\ ~pressed /\ ~enter /\ pc \in {"poll", "check"}

\* What the user sees and whether it was struck calmly.
Sees(s, ok) ==
  /\ calm' = (calm /\ Waiting /\ ok)
  /\ typed' = IF calm' THEN s ELSE << >>

ModifierDown(m) ==
  /\ m \in {"shift", "ctrl", "alt"} /\ m \notin held
  /\ held' = held \cup {m}
  /\ UNCHANGED <<c, buff, flags, line, reader, build, typed, calm>>

ModifierUp(m) ==
  /\ m \in {"shift", "ctrl", "alt"} /\ m \in held
  /\ held' = held \ {m}
  /\ UNCHANGED <<c, buff, flags, line, reader, build, typed, calm>>

ToggleLock(m) ==
  /\ m \in {"capslock", "numlock", "scrolllock"}
  /\ held' = IF m \in held THEN held \ {m} ELSE held \cup {m}
  /\ UNCHANGED <<c, buff, flags, line, reader, build, typed, calm>>

\* The arrow keys store an escape sequence in c and move the cursor.
Arrow ==
  /\ c' = "esc"
  /\ Sees(typed, FALSE)
  /\ UNCHANGED <<held, buff, flags, line, reader, build>>

Combining == held \cap {"ctrl", "alt"} # {}

\* Strikes of a key that is no modifier, without ctrl and alt.
Strikes(k) == k \in Keys /\ ~Combining /\ c' = get_ascii_char(k)

Newline ==
  /\ Strikes("enter")
  /\ buff' = clearBuffer(buff)
  /\ enter' = TRUE
  /\ Sees(typed, TRUE)
  /\ UNCHANGED <<held, pressed, reading, line, reader, build>>

\* Mutant: the index of the line stays.
BackspaceKeepsIndex ==
  /\ Strikes("backspace")
  /\ buff' = IF strlen(buff) = 0 THEN buff ELSE buff \ {strlen(buff) - 1}
  /\ Sees(SubSeq(typed, 1, Len(typed) - 1), typed # << >>)
  /\ UNCHANGED <<held, flags, line, reader, build>>

\* Lines 146-153: buff says whether there is something to erase.
Backspace ==
  /\ Strikes("backspace")
  /\ IF strlen(buff) = 0 THEN UNCHANGED <<buff, line>>
     ELSE /\ buff' = buff \ {strlen(buff) - 1}
          /\ IF ~reading THEN UNCHANGED line
             ELSE /\ gi > -MaxUnder
                  /\ gi' = gi - 1
                  /\ retstr' = Put(retstr, gi - 1, Nul)
  /\ Sees(SubSeq(typed, 1, Len(typed) - 1), typed # << >>)
  /\ UNCHANGED <<held, flags, reader, build>>

\* Any other key, one without a character included.
Printable(k) ==
  /\ k \notin {"enter", "backspace"}
  /\ Strikes(k)
  /\ strlen(buff) < BuffSize
  /\ pressed' = TRUE
  /\ buff' = IF c' = Nul THEN buff ELSE strcat(buff)
  /\ Sees(Append(typed, c'), c' # Nul)
  /\ UNCHANGED <<held, enter, reading, line, reader, build>>

\* handle_comb: ctrl and L clear the screen, and the line if one is read.
\* Ctrl, alt and delete are Reboot; no other combination does anything.
Combination(k) ==
  LET clears == "ctrl" \in held /\ k = "l" IN
  /\ k \in Keys /\ Combining
  /\ ~(k = "delete" /\ {"ctrl", "alt"} \subseteq held)
  /\ c' = get_ascii_char(k)
  /\ buff' = IF clears THEN clearBuffer(buff) ELSE buff
  /\ IF clears /\ reading THEN retstr' = EmptyLine /\ enter' = TRUE
     ELSE UNCHANGED <<retstr, enter>>
  /\ Sees(IF clears THEN << >> ELSE typed, TRUE)
  /\ UNCHANGED <<held, pressed, reading, gi, reader, build>>

\* acpi::reboot: the machine starts again, with the same build.
Reboot ==
  /\ "delete" \in Keys /\ {"ctrl", "alt"} \subseteq held
  /\ held' = {} /\ c' = Nul /\ buff' = {}
  /\ pressed' = FALSE /\ enter' = FALSE /\ reading' = FALSE
  /\ retstr' = EmptyLine /\ gi' = 0
  /\ pc' = "shell" /\ idx' = 0 /\ ch' = Nul
  /\ typed' = << >> /\ calm' = TRUE
  /\ UNCHANGED build

Keyboard_Handler ==
  \/ \E m \in Mods : ModifierDown(m) \/ ModifierUp(m) \/ ToggleLock(m)
  \/ \E k \in Keys : Printable(k) \/ Combination(k)
  \/ Newline \/ Backspace \/ Arrow \/ Reboot

-----------------------------------------------------------------------------
(* getLine, called by the shell; getLine_lock has one user only *)

GetLine ==
  /\ pc = "shell"
  /\ reading' = TRUE
  /\ retstr' = EmptyLine
  /\ idx' = IF build = "loop" THEN gi ELSE 0
  /\ pc' = "poll"
  /\ UNCHANGED <<held, c, buff, pressed, enter, gi, ch, build, typed, calm>>

\* Mutant: enter ends the line only together with a character.
PollEnterWithKey ==
  /\ pc = "poll"
  /\ pc' = IF enter /\ pressed THEN "done" ELSE "check"
  /\ UNCHANGED <<held, c, buff, flags, line, idx, ch, build, typed, calm>>

PollEnter ==
  /\ pc = "poll"
  /\ pc' = IF enter THEN "done" ELSE "check"
  /\ UNCHANGED <<held, c, buff, flags, line, idx, ch, build, typed, calm>>

\* gi as the test of line 179 sees it.
TestedIndex == IF build = "loop" THEN idx ELSE gi

\* Mutant: the last place of retstr is used too.
PollPressedLate ==
  /\ pc = "check"
  /\ pc' = CASE ~pressed -> "poll"
             [] pressed /\ TestedIndex >= LineSize -> "done"
             [] OTHER -> "get"
  /\ idx' = IF pc' = "get" /\ build = "once" THEN gi ELSE idx
  /\ calm' = (calm /\ pc' # "done")
  /\ typed' = IF calm' THEN typed ELSE << >>
  /\ UNCHANGED <<held, c, buff, flags, line, ch, build>>

\* Lines 178-186.  A line that is too long ends here; the key stays pressed.
PollPressed ==
  /\ pc = "check"
  /\ pc' = CASE ~pressed -> "poll"
             [] pressed /\ TestedIndex >= LineSize - 1 -> "done"
             [] OTHER -> "get"
  /\ idx' = IF pc' = "get" /\ build = "once" THEN gi ELSE idx
  /\ calm' = (calm /\ pc' # "done")
  /\ typed' = IF calm' THEN typed ELSE << >>
  /\ UNCHANGED <<held, c, buff, flags, line, ch, build>>

\* getchar, lines 167-168 and 169.
TakePressed ==
  /\ pc = "get" /\ pressed
  /\ pressed' = FALSE
  /\ pc' = "char"
  /\ UNCHANGED <<held, c, buff, enter, reading, line, idx, ch, build, typed, calm>>

TakeChar ==
  /\ pc = "char"
  /\ ch' = c
  /\ pc' = "store"
  /\ UNCHANGED <<held, c, buff, flags, line, idx, build, typed, calm>>

\* Lines 187-188.
StoreChar ==
  LET i == IF build = "reload" THEN gi ELSE idx IN
  /\ pc = "store"
  /\ retstr' = Put(retstr, i, ch)
  /\ gi' = IF build = "loop" THEN gi ELSE i + 1
  /\ idx' = IF build = "loop" THEN i + 1 ELSE 0
  /\ ch' = Nul
  /\ pc' = "poll"
  /\ UNCHANGED <<held, c, buff, flags, build, typed, calm>>

ClearEnter ==
  /\ pc = "done"
  /\ enter' = FALSE
  /\ pc' = "end"
  /\ UNCHANGED <<held, c, buff, pressed, reading, line, idx, ch, build, typed, calm>>

EndLine ==
  /\ pc = "end"
  /\ reading' = FALSE
  /\ gi' = 0
  /\ pc' = "shell" /\ idx' = 0
  /\ typed' = << >>
  /\ UNCHANGED <<held, c, buff, pressed, enter, retstr, ch, build, calm>>

getLine ==
  \/ GetLine \/ PollEnter \/ PollPressed \/ TakePressed \/ TakeChar \/ StoreChar
  \/ ClearEnter \/ EndLine

Next == Keyboard_Handler \/ getLine

\* Interrupts leave the shell time to run; nobody has to strike a key.
Spec == Init /\ [][Next]_vars /\ WF_vars(getLine)

-----------------------------------------------------------------------------

Char == {Nul, "l", "L", "lf", "bs", "esc"}

TypeOK ==
  /\ held \subseteq Mods
  /\ c \in Char /\ ch \in Char
  /\ buff \subseteq 0 .. BuffSize - 1
  /\ {pressed, enter, reading, calm} \subseteq BOOLEAN
  /\ retstr \in [0 .. LineSize - 1 -> Char]
  /\ gi \in -MaxUnder .. LineSize - 1 /\ idx \in -MaxUnder .. LineSize - 1
  /\ pc \in {"shell", "poll", "check", "get", "char", "store", "done", "end"}
  /\ typed \in Seq({"l", "L"})

(***************************************************************************)
(* Whatever is typed and however fast, on every build: the last place of   *)
(* retstr keeps its NUL, so the string getLine returns ends in the array.  *)
(***************************************************************************)
LineTerminated == retstr[LineSize - 1] = Nul

\* The characters before the first NUL.
Text(s) ==
  LET n == CHOOSE k \in 0 .. LineSize - 1 : s[k] = Nul /\ \A j \in 0 .. k - 1 : s[j] # Nul
  IN  [i \in 1 .. n |-> s[i - 1]]

(***************************************************************************)
(* A calm user gets the line the screen shows, whatever earlier lines have *)
(* left in buff, if the build keeps gi in memory.  (Otherwise a backspace  *)
(* does not reach getLine.)                                                *)
(***************************************************************************)
LineIsWhatWasTyped ==
  [][EndLine /\ calm /\ build # "loop" => Text(retstr) = typed]_vars

\* getLine returns once enter is set, in whatever step the interrupt found it.
EnterEndsLine == (enter /\ reading) ~> ~reading

=============================================================================
