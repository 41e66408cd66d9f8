------------------------------ MODULE Strings -------------------------------
(***************************************************************************)
(* lib/string.cpp, lib/memory/memory.asm and memory.cpp.  Memory is a      *)
(* sequence m, a pointer a position in it, 0 the NUL.  <<"wild">> is a read *)
(* outside m.                                                             *)
(***************************************************************************)
EXTENDS Integers, Sequences, FiniteSets, SequencesExt, FiniteSetsExt

CONSTANT IntMax   \* 2^31 - 1 in the source; one less than a power of 2 that ends in 8

ASSUME StringsAssumption == IntMax \in Nat /\ IntMax % 10 = 7

NUL == 0
NL == 10   \* '\n'
Count(n) == [i \in 1 .. n |-> i]

strlen(m, p) == Min({ n \in 0 .. Len(m) - p : m[p + n] = NUL })

\* The string at p, without its NUL.
StrAt(m, p) == SubSeq(m, p, p + strlen(m, p) - 1)

\* The bytes s written from position q on.
Write(m, q, s) == [i \in 1 .. Len(m) |-> IF i \in q .. q + Len(s) - 1 THEN s[i - q + 1] ELSE m[i]]

strcpy(m, q, s) == Write(m, q, Append(s, NUL))
strncpy(m, q, s, n) == Write(m, q, Append(SubSeq(s, 1, Min({n, Len(s)})), NUL))

\* No NUL is written: the buffer's old contents show behind the text.
strcat(m, q, s) == Write(m, q + strlen(m, q), s)

strchr(m, p, ch) ==
  LET hits == { i \in p .. p + strlen(m, p) : m[i] = ch } IN IF hits = {} THEN 0 ELSE Min(hits)

strcmp(a, b) ==
  LET x == Append(a, NUL)
      y == Append(b, NUL)
      i == Min({ k \in DOMAIN x : x[k] = NUL \/ x[k] # y[k] })
  IN  x[i] - y[i]

\* Does not stop at a NUL.
strncmp(m, p, q, n) == IF \E i \in 0 .. n - 1 : m[p + i] # m[q + i] THEN 1 ELSE 0

-----------------------------------------------------------------------------
\* Mutant: after a mismatch the search goes on behind it.
strstrSkipping(m, p, sub) ==
  LET go[s \in p .. Len(m) + 1, b \in 0 .. Len(sub)] ==
        IF b = Len(sub) THEN s
        ELSE IF m[s + b] = NUL THEN 0
        ELSE IF m[s + b] = sub[b + 1] THEN go[s, b + 1]
        ELSE go[s + b + 1, 0]
  IN  go[p, 0]

\* The loop with str = s and a = s + b; 0 is NULL.
strstr(m, p, sub) ==
  LET go[s \in p .. Len(m), b \in 0 .. Len(sub)] ==
        IF b = Len(sub) THEN s
        ELSE IF m[s + b] = NUL THEN 0
        ELSE IF m[s + b] = sub[b + 1] THEN go[s, b + 1]
        ELSE go[s + 1, 0]
  IN  go[p, 0]

(***************************************************************************)
(* strrm at position 1: text between matches moves down in place, while    *)
(* the search goes on ahead of it.  q and p are the code's; the last turn  *)
(* copies the rest and its NUL.                                            *)
(***************************************************************************)
strrm(m, sub) ==
  LET Turn(st, i) ==
        LET r == strstr(st.m, st.p, sub)
            upto == IF r = 0 THEN st.p + strlen(st.m, st.p) ELSE r - 1
        IN  IF st.done THEN st
            ELSE [m |-> Write(st.m, st.q, SubSeq(st.m, st.p, upto)),
                  q |-> st.q + (upto - st.p + 1), p |-> r + Len(sub), done |-> r = 0]
      first == strstr(m, 1, sub)
  IN  IF sub = << >> \/ first = 0 THEN m
      ELSE FoldLeft(Turn, [m |-> m, q |-> first, p |-> first + Len(sub), done |-> FALSE],
                    Count(Len(m))).m

\* Lines 122-124: a NUL over the separator's first character, a pointer behind it.
SplitMark(st, delim, p) ==
  [m |-> Write(st.m, p, <<NUL>>), s |-> p + Len(delim), ptrs |-> Append(st.ptrs, p + Len(delim))]

\* Loops over a fixed text (lines 110-113): the number of words.
nbWords(m, delim) ==
  FoldLeft(LAMBDA st, i : LET p == strstr(m, st.s, delim)
                          IN  IF st.s = 0 \/ p = 0 THEN [st EXCEPT !.s = 0]
                              ELSE [s |-> p + Len(delim), n |-> st.n + 1],
           [s |-> 1, n |-> 1], Count(Len(m))).n

(***************************************************************************)
(* _strsplit of the string m, on its copy: the pointers and what they      *)
(* point to, and nb.  An empty separator never ends the first loop.        *)
(***************************************************************************)
strsplit_count(m, delim) ==
  LET Turn(st, i) ==
        LET p == IF st.s = 0 THEN 0 ELSE strstr(st.m, st.s, delim)
        IN  IF p = 0 THEN [st EXCEPT !.s = 0] ELSE SplitMark(st, delim, p)
      end == FoldLeft(Turn, [m |-> m, s |-> 1, ptrs |-> <<1>>], Count(Len(m)))
  IN  [nb |-> nbWords(m, delim), words |-> [i \in DOMAIN end.ptrs |-> StrAt(end.m, end.ptrs[i])]]

-----------------------------------------------------------------------------
(***************************************************************************)
(* The loop of lstrstr and getline.  A match that is skipped goes on to    *)
(* compare the character behind it with sub's NUL, a mismatch.  count is   *)
(* the number of turns that end with *str on a newline.                    *)
(***************************************************************************)
SkipMatches(m, sub, skip0) ==
  LET At(s, n) == n + (IF m[s] = NL THEN 1 ELSE 0)
      go[s \in 1 .. Len(m), b \in 0 .. Len(sub), skip \in 0 .. skip0, n \in 0 .. Len(m) * (Len(sub) + 1)] ==
        IF b = Len(sub) /\ skip = 0 THEN [s |-> s, count |-> n]
        ELSE IF m[s + b] = NUL THEN [s |-> 0, count |-> -1]
        ELSE IF b = Len(sub) THEN go[s + 1, 0, skip - 1, At(s + 1, n)]
        ELSE IF m[s + b] = sub[b + 1] THEN go[s, b + 1, skip, At(s, n)]
        ELSE go[s + 1, 0, skip, At(s + 1, n)]
  IN  go[1, 0, skip0, 0]

lstrstr(m, sub, skip) == SkipMatches(m, sub, skip).count

\* Lines 202-212: back to the newline before, forward to the one behind.
getline(m, sub, skip) ==
  LET s == SkipMatches(m, sub, skip).s
      before == { i \in 1 .. s - 1 : m[i] = NL }
      behind == { i \in s .. Len(m) : m[i] = NL }
  IN  IF s = 0 THEN <<"null">>
      ELSE IF before = {} \/ behind = {} THEN <<"wild">>
      ELSE SubSeq(m, Max(before) + 1, Min(behind) - 1)

\* The empty string has its last character at 2^64 - 1.
reverse(s) == IF s = << >> THEN <<"wild">> ELSE [i \in DOMAIN s |-> s[Len(s) + 1 - i]]

char2low(c) == IF c \in 65 .. 90 THEN c + 32 ELSE c
char2up(c) == IF c \in 97 .. 122 THEN c - 32 ELSE c
char2num(c) == IF char2up(c) # 0 THEN char2up(c) - 64 ELSE -1

-----------------------------------------------------------------------------
(* Numbers; digits are the characters '0' .. '9', 48 .. 57. *)
MINUS == 45
IntMin == -IntMax - 1
Quot(n, d) == IF n >= 0 THEN n \div d ELSE -((-n) \div d)   \* C's division
Negate(n) == IF n = IntMin THEN IntMin ELSE -n

\* temp, and printed backwards (lines 57-64 of printi): most significant first.
Digits(n) ==
  LET d[k \in 0 .. IntMax] == IF k = 0 THEN << >> ELSE d[k \div 10] \o <<48 + (k % 10)>> IN d[n]

\* Mutant: the smallest number is not treated on its own.
printiNaive(num) ==
  IF num = 0 THEN <<48>>
  ELSE (IF num < 0 THEN <<MINUS>> ELSE << >>)
         \o (IF Negate(num) = num THEN << >> ELSE Digits(IF num < 0 THEN -num ELSE num))

\* terminal::printi: the smallest number stays negative; its last digit is 8.
printi(num) ==
  LET n == IF num < 0 THEN Negate(num) ELSE num
  IN  IF num = 0 THEN <<48>>
      ELSE (IF num < 0 THEN <<MINUS>> ELSE << >>)
             \o (IF n <= 0 THEN Digits(-Quot(n, 10)) \o <<56>> ELSE Digits(n))

\* The size of out: the digits of the largest int, and no room for a sign.
OutSize == Len(Digits(IntMax))

(***************************************************************************)
(* int2string: the same digits, put into out[10] without a NUL; strdup     *)
(* copies what it finds up to the next one.  stack is what out held, and   *)
(* what lies behind it up to a NUL.  0 gives a null pointer; "wild" is a   *)
(* write behind out.                                                       *)
(***************************************************************************)
int2string(num, stack) ==
  IF num = 0 THEN [to |-> "null", text |-> << >>]
  ELSE IF Len(printi(num)) > OutSize THEN [to |-> "wild", text |-> << >>]
  ELSE [to |-> "heap", text |-> StrAt(Write(stack, 1, printi(num)), 1)]

\* An int: the accumulator wraps.
AsInt(n) == ((n - IntMin) % (IntMax - IntMin + 1)) + IntMin
Value(s) == FoldLeft(LAMBDA res, c : res * 10 + c - 48, 0, s)
string2int(s) == FoldLeft(LAMBDA res, c : AsInt(res * 10 + c - 48), 0, s)

oct2dec(oct) ==
  LET v[k \in 0 .. oct] == IF k = 0 THEN 0 ELSE (k % 10) + 8 * v[k \div 10] IN v[oct]

intlen(n) ==
  LET len[k \in IntMin .. IntMax] == IF k = 0 THEN 0 ELSE 1 + len[Quot(k, 10)]
  IN  IF n <= 0 THEN 1 + len[Negate(n)] ELSE len[n]

-----------------------------------------------------------------------------
(* memory.asm: rep movsb copies byte by byte. *)
MoveByte(m, q, p) == [m EXCEPT ![q] = m[p]]

CopyUp(m, q, p, n) ==
  LET x[k \in 0 .. n] == IF k = 0 THEN m ELSE MoveByte(x[k - 1], q + k - 1, p + k - 1) IN x[n]

CopyDown(m, q, p, n) ==
  LET x[k \in 0 .. n] == IF k = 0 THEN m ELSE MoveByte(x[k - 1], q + n - k, p + n - k) IN x[n]

\* Mutant: always from the first byte on.
memmoveUp(m, q, p, n) == CopyUp(m, q, p, n)

memmove(m, q, p, n) == IF q > p THEN CopyDown(m, q, p, n) ELSE CopyUp(m, q, p, n)

\* The low byte of d, with its sign (sub al, movsx).
SignedByte(d) == ((d + 128) % 256) - 128

\* rcx is 0 after the last byte too, whether it was equal or not.
memcmp(m, p, q, n) ==
  LET diffs == { i \in 1 .. n : m[p + i - 1] # m[q + i - 1] }
  IN  IF diffs = {} \/ Min(diffs) = n THEN 0
      ELSE SignedByte(m[p + Min(diffs) - 1] - m[q + Min(diffs) - 1])

\* memory.cpp: kept in a static variable after the first call.
getmemsize(cached, memmap) ==
  IF cached > 0 THEN cached
  ELSE FoldLeft(LAMBDA n, e : IF e.usable THEN n + e.length ELSE n, 0, memmap)

arraycmp(a1, a2, length) == \A i \in 1 .. length : a1[i] = a2[i]

-----------------------------------------------------------------------------
Matches(s, sub) == { p \in 1 .. Len(s) - Len(sub) + 1 : SubSeq(s, p, p + Len(sub) - 1) = sub }

\* The matches a scan from left to right takes: no two overlap, none is missed.
Greedy(s, sub) ==
  CHOOSE P \in SUBSET Matches(s, sub) :
    \A p \in Matches(s, sub) : p \in P <=> ~ \E q \in P : q < p /\ p < q + Len(sub)

(***************************************************************************)
(* strstr finds the first occurrence; strrm, which moves text while it     *)
(* searches it, removes the occurrences a scan from left to right takes;   *)
(* and strsplit cuts there: as many words as it counted and made room for, *)
(* which joined again give the text.                                       *)
(***************************************************************************)
StringsExact(s, sub) ==
  LET m == Append(s, NUL)
      hits == Matches(s, sub)
      cut == Greedy(s, sub)
      Kept(i) == \A p \in cut : i \notin p .. p + Len(sub) - 1
      rest == SelectSeq(Count(Len(s)), Kept)
      split == strsplit_count(m, sub)
  IN  /\ strstr(m, 1, sub) = IF hits = {} THEN 0 ELSE Min(hits)
      /\ StrAt(strrm(m, sub), 1) = [k \in DOMAIN rest |-> s[rest[k]]]
      /\ split.nb = Cardinality(cut) + 1 /\ Len(split.words) = split.nb
      /\ FoldLeft(LAMBDA t, w : t \o sub \o w, Head(split.words), Tail(split.words)) = s

(***************************************************************************)
(* For a text searched for that does not begin with a newline, lstrstr is  *)
(* the number of newlines from the second character up to the occurrence   *)
(* behind the skipped ones, and getline the line around it, provided that  *)
(* this line has a newline on both sides; otherwise it leaves the text.    *)
(***************************************************************************)
LinesFound(s, sub, skip) ==
  LET m == Append(s, NUL)
      hits == SetToSortSeq(Matches(s, sub), <)
      r == hits[skip + 1]
      line == getline(m, sub, skip)
  IN  IF skip >= Len(hits) THEN lstrstr(m, sub, skip) = -1 /\ line = <<"null">>
      ELSE /\ lstrstr(m, sub, skip) = Cardinality({ i \in 2 .. r : s[i] = NL })
           /\ \/ \A i \in 1 .. r - 1 : s[i] # NL
              \/ \A i \in r .. Len(s) : s[i] # NL
              \/ \E a \in 2 .. r, b \in r .. Len(s) :
                   /\ s[a - 1] = NL /\ s[b] = NL /\ \A i \in a .. b - 1 : s[i] # NL
                   /\ line = SubSeq(s, a, b - 1)

(***************************************************************************)
(* printi prints every int, the smallest included, in full and in intlen   *)
(* characters, and string2int reads its digits back, those of the smallest *)
(* int as itself.  int2string writes behind out for negative numbers of as *)
(* many digits as the largest int, and for no others; what it returns      *)
(* begins with the text, and ends there just if a NUL happened to follow.  *)
(***************************************************************************)
NumbersPrint(n, stack) ==
  LET copy == int2string(n, stack)
      text == printi(n)
      digits == IF n < 0 THEN Tail(text) ELSE text
  IN  /\ n < 0 => Head(text) = MINUS
      /\ digits # << >> /\ \A i \in DOMAIN digits : digits[i] \in 48 .. 57
      /\ Head(digits) # 48 \/ n = 0
      /\ Value(digits) = IF n < 0 THEN -n ELSE n
      /\ string2int(digits) = IF n < 0 THEN Negate(n) ELSE n
      /\ Len(text) = intlen(n)
      /\ copy.to = "wild" <=> n < 0 /\ Len(digits) = Len(printi(IntMax))
      /\ copy.to = "heap" =>
           /\ SubSeq(copy.text, 1, Len(text)) = text
           /\ copy.text = text <=> stack[Len(text) + 1] = NUL

(***************************************************************************)
(* memmove copies overlapping ranges in both directions.  memcmp tells     *)
(* ranges apart that differ before their last byte, and no others.  Called *)
(* with its arguments in the other order it has the opposite sign, except  *)
(* for bytes 128 apart, where it is -128 both times.                       *)
(***************************************************************************)
BuffersExact(m, q, p, n) ==
  LET old == [i \in 1 .. n |-> m[p + i - 1]]
      moved == memmove(m, q, p, n)
  IN  /\ moved = Write(m, q, old)
      /\ memcmp(m, q, p, n) # 0 <=> ~arraycmp([i \in 1 .. n |-> m[q + i - 1]], old, n - 1)
      /\ memcmp(m, q, p, n) + memcmp(m, p, q, n) \in {0, -256}
=============================================================================
