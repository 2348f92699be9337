-------------------------------- MODULE Text --------------------------------
(***************************************************************************)
(* The functions of TC_Common on strings, as operators on sequences of     *)
(* character codes, and two strings that grow, for which their properties  *)
(* hold.                                                                   *)
(***************************************************************************)
EXTENDS Integers, Sequences, SequencesExt

CONSTANTS
  TextChars, PatChars,   (* the characters of the two strings              *)
  MaxText, MaxPat        (* bounds on their lengths                        *)

VARIABLES text, pat

Dot == 46
Star == 42
Newline == 10
Rubout == 127
-----------------------------------------------------------------------------
\* The strings between separators, of which a run makes empty ones.
sepstr(s, sep, withEmpty) ==
  LET from[pos \in 1 .. Len(s) + 1] ==
        LET pos1 == SelectInSubSeq(s, pos, Len(s), LAMBDA c : Contains(sep, c))
            piece == SubSeq(s, pos, IF pos1 = 0 THEN Len(s) ELSE pos1 - 1)
            kept == IF withEmpty \/ piece # <<>> THEN <<piece>> ELSE <<>>
        IN  IF pos1 = 0 THEN kept ELSE kept \o from[pos1 + 1]
  IN  from[1]

\* Off one end: the string s once, or all characters of s (bChar).
trimleft(str, s, bChar) ==
  LET rest == {k \in 1 .. Len(str) : ~Contains(s, str[k])}
  IN  IF bChar
      THEN SubSeq(str, IF rest = {} THEN Len(str) + 1
                       ELSE CHOOSE k \in rest : \A m \in rest : k <= m, Len(str))
      ELSE IF IsPrefix(s, str) THEN SubSeq(str, Len(s) + 1, Len(str)) ELSE str

trimright(str, s, bChar) ==
  LET rest == {k \in 1 .. Len(str) : ~Contains(s, str[k])}
  IN  IF bChar
      THEN SubSeq(str, 1, IF rest = {} THEN 0
                          ELSE CHOOSE k \in rest : \A m \in rest : m <= k)
      ELSE IF IsSuffix(s, str) THEN SubSeq(str, 1, Len(str) - Len(s)) ELSE str

trim(str, s, bChar) == trimright(trimleft(str, s, bChar), s, bChar)

\* The occurrences of src from the left, that do not overlap.
replace(str, src, dest) ==
  LET At(pos) == IsPrefix(src, SubSeq(str, pos, Len(str)))
      from[pos \in 1 .. Len(str) + Len(src)] ==
        IF pos > Len(str) THEN <<>>
        ELSE IF At(pos) THEN dest \o from[pos + Len(src)]
        ELSE <<str[pos]>> \o from[pos + 1]
  IN  IF src = <<>> THEN str ELSE from[1]

\* The version for a map: its pairs in the order of the keys, each on what
\* the last one made.  (An empty key is found for ever.)
replaceAll(str, pairs) ==
  FoldLeft(LAMBDA tmp, p : replace(tmp, p[1], p[2]), str, pairs)
-----------------------------------------------------------------------------
\* c_b2s, and x2c, the value of two digits as a char.
Hex(d) == IF d < 10 THEN 48 + d ELSE 87 + d
b2s(byte) == <<Hex(byte \div 16), Hex(byte % 16)>>
Digit(c) == IF c >= 97 THEN c - 87 ELSE IF c >= 65 THEN c - 55 ELSE c - 48
x2c(str, i) ==
  IF i >= Len(str) THEN 0 ELSE (Digit(str[i]) * 16 + Digit(str[i + 1])) % 256

bin2str(bytes, sep, lines) ==
  LET line(i) == b2s(bytes[i]) \o sep
        \o (IF lines # 0 /\ i % lines = 0 THEN <<Newline>> ELSE <<>>)
  IN  FlattenSeq([i \in 1 .. Len(bytes) |-> line(i)])

\* Mutant: the end of a line is not passed over.
WidthNoLines(sep, lines, n) == 2 + Len(sep)

\* How far the n-th byte reaches: its digits, the separator, a line's end.
Width(sep, lines, n) ==
  2 + Len(sep) + (IF lines # 0 /\ n % lines = 0 THEN 1 ELSE 0)

str2bin(str, sep, lines) ==
  LET from[i \in 1 .. Len(str) + 1, n \in 1 .. Len(str) + 1] ==
        IF i > Len(str) THEN <<>>
        ELSE LET next == i + Width(sep, lines, n)
             IN  <<x2c(str, i)>>
                   \o (IF next > Len(str) THEN <<>> ELSE from[next, n + 1])
  IN  from[1, 1]
-----------------------------------------------------------------------------
\* Mutant: a star may stand for nothing.
StarMayStart(s, i) == TRUE
StarStarts(s, i) == s[i] # Dot

\* matchPeriod of a string and a pattern, whose star takes all up to a dot.
matchPattern(s, p) ==
  LET stop(i) == LET dot == SelectInSubSeq(s, i, Len(s), LAMBDA c : c = Dot)
                 IN  IF dot = 0 THEN Len(s) + 1 ELSE dot
      at[i \in 1 .. Len(s) + 1, j \in 1 .. Len(p) + 1] ==
        IF i > Len(s) \/ j > Len(p) THEN i > Len(s) /\ j > Len(p)
        ELSE IF p[j] = Star THEN StarStarts(s, i) /\ at[stop(i), j + 1]
        ELSE s[i] = p[j] /\ at[i + 1, j + 1]
  IN  /\ s # <<>>
      /\ p = <<>> \/ (IF Contains(p, Star) THEN at[1, 1] ELSE s = p)
-----------------------------------------------------------------------------
TextInit == text = <<>> /\ pat = <<>>

TextNext ==
  \/ /\ Len(text) < MaxText /\ UNCHANGED pat
     /\ \E c \in TextChars : text' = Append(text, c)
  \/ /\ Len(pat) < MaxPat /\ UNCHANGED text
     /\ \E c \in PatChars : pat' = Append(pat, c)

TextSpec == TextInit /\ [][TextNext]_<<text, pat>>
-----------------------------------------------------------------------------
\* What was split, replaced, trimmed or written as digits can be put back.
\* common.h:1082: the strings between separators and the separators make up
\* the string, whose empty strings are left out on demand.  common.cpp:670,
\* 713: bytes return from digits, whatever the separator and the lines.
\* common.cpp:750, 770: a replacement by a new character can be undone, in one
\* map if that character sorts after pat, as Rubout does after all of PatChars.
\* common.cpp:325: what is trimmed is characters of s, and all of them.
TextPutBack ==
  /\ LET fields == sepstr(text, pat, TRUE)
         seps == SelectSeq(text, LAMBDA c : Contains(pat, c))
     IN  /\ Len(fields) = Len(seps) + 1
         /\ text = FlattenSeq([k \in 1 .. Len(fields) |->
              fields[k] \o (IF k <= Len(seps) THEN <<seps[k]>> ELSE <<>>)])
         /\ sepstr(text, pat, FALSE) = SelectSeq(fields, LAMBDA f : f # <<>>)
  /\ \A lines \in 0 .. 3 : str2bin(bin2str(text, pat, lines), pat, lines) = text
  /\ pat # <<>> =>
       replaceAll(text, << <<pat, <<Rubout>>>>, <<<<Rubout>>, pat>> >>) = text
  /\ LET core == trim(text, pat, TRUE)
         others == {k \in DOMAIN text : ~Contains(pat, text[k])}
     IN  /\ others # {} => ~Contains(pat, Head(core)) /\ ~Contains(pat, Last(core))
         /\ SelectSeq(core, LAMBDA c : ~Contains(pat, c))
              = SelectSeq(text, LAMBDA c : ~Contains(pat, c))
         /\ \E k \in 0 .. Len(text) : IsPrefix(core, SubSeq(text, k + 1, Len(text)))

\* Whether s is p with every star a string that is not empty and without dot.
Stands(s, p) ==
  LET at[i \in 1 .. Len(s) + 1, j \in 1 .. Len(p) + 1] ==
        IF j > Len(p) THEN i > Len(s)
        ELSE IF p[j] = Star
        THEN \E k \in i + 1 .. Len(s) + 1 :
               (\A m \in i .. k - 1 : s[m] # Dot) /\ at[k, j + 1]
        ELSE i <= Len(s) /\ s[i] = p[j] /\ at[i + 1, j + 1]
  IN  at[1, 1]

\* common.h:648-658: a string that matches is the pattern with strings for
\* its stars; and each such string matches if a star ends its part of the
\* pattern.  (There is no way back: of "*a", the star takes the a as well.)
MatchesStand ==
  (text # <<>> /\ pat # <<>>) =>
    /\ matchPattern(text, pat) => Stands(text, pat)
    /\ Stands(text, pat)
         /\ (\A j \in 1 .. Len(pat) - 1 : pat[j] = Star => pat[j + 1] = Dot)
       => matchPattern(text, pat)
=============================================================================
