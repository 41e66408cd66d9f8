------------------------------- MODULE Printf -------------------------------
(***************************************************************************)
(* drivers/display/terminal/printf.c, as the kernel builds it: without     *)
(* floating point.  A character is its code.  A format is a sequence of    *)
(* characters and of directives [flags, width, precision, length, spec,    *)
(* arg] as the parser of lines 832-909 reads them; flags is a set, width   *)
(* is negative only from a '*', precision is NONE where there is none.  buf *)
(* is written the way it is printed; the source keeps it reversed.         *)
(***************************************************************************)
EXTENDS Integers, Sequences, SequencesExt, FiniteSetsExt

CONSTANT PRINT_INTEGER_BUFFER_SIZE   \* 32

SPACE == 32
PLUS == 43
DASH == 45
ZERO == 48
NONE == -1000   \* no precision

Pad(c, n) == [i \in 1 .. n |-> c]

\* What the letters behind the digit 9 are depends on the case.
Digit(d, upper) == IF d < 10 THEN ZERO + d ELSE (IF upper THEN 65 ELSE 97) + d - 10

_out_rev(buf, width, flags) ==
  LET pad == Pad(SPACE, width - Len(buf))
  IN  (IF flags \cap {"left", "zeropad"} = {} THEN pad ELSE << >>)
        \o buf \o (IF "left" \in flags THEN pad ELSE << >>)

Push(buf, c) == IF Len(buf) < PRINT_INTEGER_BUFFER_SIZE THEN <<c>> \o buf ELSE buf
Zeros(buf, upto) == Pad(ZERO, Min({upto, PRINT_INTEGER_BUFFER_SIZE}) - Len(buf)) \o buf

\* Lines 331-356: padding zeros make room for the prefix, which goes before them.
Prefixed(buf, unpadded, base, precision, width, flags) ==
  LET full == Len(buf)
      back == IF "precision" \notin flags /\ full > 0 /\ full \in {precision, width}
                THEN Min({full - unpadded, IF base = 16 THEN 2 ELSE 1}) ELSE 0
      kept == SubSeq(buf, back + 1, full)
      marked == CASE base = 16 -> Push(kept, IF "upper" \in flags THEN 88 ELSE 120)
                  [] base = 2 -> Push(kept, 98)
                  [] OTHER -> kept
  IN  IF flags \cap {"hash", "pointer"} = {} THEN buf ELSE Push(marked, ZERO)

\* Mutant: the sign has no room in a field padded with zeros.
FieldWidthWhole(width, negative, flags) == width

\* Lines 311-314.
FieldWidth(width, negative, flags) ==
  IF /\ "left" \notin flags /\ width > 0 /\ "zeropad" \in flags
     /\ negative \/ flags \cap {"plus", "space"} # {}
    THEN width - 1 ELSE width

print_integer_finalization(buf, negative, base, precision, width0, flags0) ==
  LET width == FieldWidth(width0, negative, flags0)
      zeroed == IF "left" \notin flags0 /\ "zeropad" \in flags0 THEN Zeros(buf, width) ELSE buf
      padded == Zeros(zeroed, precision)
      flags == IF base = 8 /\ Len(padded) > Len(buf) THEN flags0 \ {"hash"} ELSE flags0
      number == Prefixed(padded, Len(buf), base, precision, width, flags)
  IN  _out_rev(IF negative THEN Push(number, DASH)
               ELSE IF "plus" \in flags THEN Push(number, PLUS)
               ELSE IF "space" \in flags THEN Push(number, SPACE)
               ELSE number, width, flags)

Numeral(value, base, upper) ==
  LET d[k \in 0 .. value] ==
        IF k = 0 THEN << >> ELSE Append(d[k \div base], Digit(k % base, upper))
  IN  d[value]

print_integer(value, negative, base, precision, width, flags) ==
  IF value # 0
    THEN print_integer_finalization(Numeral(value, base, "upper" \in flags), negative, base,
                                    precision, width, flags)
  ELSE IF "precision" \notin flags
    THEN print_integer_finalization(<<ZERO>>, negative, base, precision, width, flags \ {"hash"})
  ELSE print_integer_finalization(<< >>, negative, base, precision, width,
                                  IF base = 16 THEN flags \ {"hash"} ELSE flags)

\* Lines 964 and 979: what is left of the argument.
Truncate(v, length, signed) ==
  LET size == CASE length = "hh" -> 2^8 [] length = "h" -> 2^16 [] OTHER -> 0
      low == v % size
  IN  IF size = 0 THEN v ELSE IF signed /\ low >= size \div 2 THEN low - size ELSE low

Base(spec) == CASE spec \in {"x", "X"} -> 16 [] spec = "o" -> 8 [] spec = "b" -> 2 [] OTHER -> 10

\* Lines 912-985: d, i, u, x, X, o and b.
Integer(d, precision, width, flags) ==
  LET signed == d.spec \in {"d", "i"}
      value == Truncate(d.arg, d.length, signed)
      cleared == (IF Base(d.spec) = 10 THEN {"hash"} ELSE {})
                   \cup (IF signed THEN {} ELSE {"plus", "space"})
                   \cup (IF "precision" \in flags THEN {"zeropad"} ELSE {})
  IN  print_integer(IF value < 0 THEN -value ELSE value, value < 0, Base(d.spec), precision, width,
                    (flags \ cleared) \cup (IF d.spec = "X" THEN {"upper"} ELSE {}))

Padded(text, width, flags) ==
  IF "left" \in flags THEN text \o Pad(SPACE, width - Len(text))
  ELSE Pad(SPACE, width - Len(text)) \o text

\* Lines 1025-1054; <<0>> is the null pointer.
String(d, precision, width, flags) ==
  IF d.arg = <<0>> THEN _out_rev(<<40, 110, 117, 108, 108, 41>>, width, flags)
  ELSE Padded(SubSeq(d.arg, 1, IF "precision" \in flags THEN Min({precision, Len(d.arg)})
                               ELSE Len(d.arg)), width, flags)

\* Lines 1056-1065, on 64 bits.
Pointer(d, precision, flags) ==
  LET f == flags \cup {"zeropad", "pointer"}
  IN  IF d.arg = 0 THEN _out_rev(<<40, 110, 105, 108, 41>>, 18, f)
      ELSE print_integer(d.arg, FALSE, 16, precision, 18, f)

\* Lines 832-875 and the switch of 912-1076; "?" stands for a specifier it does
\* not know, which is printed as it is.
Directive(d) ==
  LET flags == d.flags \cup (IF d.width < 0 THEN {"left"} ELSE {})
                       \cup (IF d.precision = NONE THEN {} ELSE {"precision"})
      width == IF d.width < 0 THEN -d.width ELSE d.width
      precision == IF d.precision = NONE THEN 0 ELSE Max({0, d.precision})
  IN  CASE d.spec = "c" -> Padded(<<d.arg>>, width, flags)
        [] d.spec = "s" -> String(d, precision, width, flags)
        [] d.spec = "p" -> Pointer(d, precision, flags)
        [] d.spec = "%" -> <<37>>
        [] d.spec \in {"d", "i", "u", "x", "X", "o", "b"} -> Integer(d, precision, width, flags)
        [] OTHER -> <<63>>

\* The output of a format, and what it returns.
Text(format) == FoldLeft(LAMBDA t, d : t \o Directive(d), << >>, format)

\* snprintf: _out_buffer stops at maxlen, the NUL goes to idx or to the last byte.
snprintf(maxlen, format) ==
  LET text == Text(format)
      end == IF Len(text) < maxlen THEN Len(text) ELSE maxlen - 1
  IN  [returns |-> Len(text),
       buffer |-> [i \in 0 .. Min({maxlen, Len(text) + 1}) - 1 |-> IF i = end THEN 0 ELSE text[i + 1]]]

-----------------------------------------------------------------------------
\* What the C standard says %d and the other integer conversions print.
Standard(d) ==
  LET n == IF d.arg < 0 THEN -d.arg ELSE d.arg
      digits == IF n = 0 THEN (IF d.precision = 0 THEN << >> ELSE <<ZERO>>)
                ELSE Numeral(n, Base(d.spec), d.spec = "X")
      number == Pad(ZERO, (IF d.precision = NONE THEN 1 ELSE d.precision) - Len(digits)) \o digits
      sign == IF d.arg < 0 THEN <<DASH>>
              ELSE IF d.spec # "d" THEN << >>
              ELSE IF "plus" \in d.flags THEN <<PLUS>>
              ELSE IF "space" \in d.flags THEN <<SPACE>> ELSE << >>
      prefix == IF "hash" \in d.flags /\ Base(d.spec) = 16 /\ n # 0
                  THEN <<ZERO, IF d.spec = "X" THEN 88 ELSE 120>> ELSE << >>
      fill == d.width - Len(sign \o prefix \o number)
  IN  IF "left" \in d.flags THEN sign \o prefix \o number \o Pad(SPACE, fill)
      ELSE IF "zeropad" \in d.flags /\ d.precision = NONE
        THEN sign \o prefix \o Pad(ZERO, fill) \o number
      ELSE Pad(SPACE, fill) \o sign \o prefix \o number

(***************************************************************************)
(* printf prints integers as the standard says, for every combination of   *)
(* flags, width and precision that leaves room in its buffer; snprintf     *)
(* never writes past its limit and always ends the text there.             *)
(***************************************************************************)
PrintfStandard(d) ==
  LET text == Standard(d)
  IN  /\ Directive(d) = text
      /\ \A maxlen \in 1 .. 4 :
           LET r == snprintf(maxlen, <<d>>)
               n == Min({maxlen - 1, Len(text)})
           IN  /\ DOMAIN r.buffer = 0 .. n
               /\ \A i \in 0 .. n : r.buffer[i] = IF i = n THEN 0 ELSE text[i + 1]
               /\ r.returns = Len(text)
=============================================================================
