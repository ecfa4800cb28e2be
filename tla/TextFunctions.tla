--------------------------- MODULE TextFunctions ---------------------------
(***************************************************************************)
(* What the string functions of as2js/output/binary.cpp compute, memory    *)
(* aside: the loops over characters of strings_compare(), shift(), at(),   *)
(* index_of(), replace() and the others, as functions of texts.  A text is *)
(* a sequence of character codes; the characters are those of one byte, so *)
(* the positions of the code, which it counts in UTF-8 characters, are the *)
(* positions of the sequence less one.                                     *)
(***************************************************************************)
EXTENDS Integers, Sequences, SequencesExt, FiniteSetsExt

Space == 32
Dollar == 36

Least(m, n) == IF m < n THEN m ELSE n
Prefix(s, n) == SubSeq(s, 1, n)
From(s, n) == SubSeq(s, n + 1, Len(s))
Repeat(s, n) == FlattenSeq([i \in 1..n |-> s])

(***************************************************************************)
(* strings_compare(): the two texts in UTF-16, compared with memcmp() over *)
(* as many BYTES as the shorter has code units, hence over the first half  *)
(* of its units; then by length.                                           *)
(***************************************************************************)
Compare(s, t) ==
    LET compared == (Least(Len(s), Len(t)) + 1) \div 2
        differ   == {i \in 1..compared : s[i] # t[i]}
        order    == IF differ = {} THEN Len(s) - Len(t) ELSE s[Min(differ)] - t[Min(differ)]
    IN  CASE order < 0 -> -1
          [] order = 0 -> 0
          [] order > 0 -> 1

MinMaxOf(s, t, minmax) == IF Compare(s, t) * minmax < 0 THEN t ELSE s

ConcatOf(texts) == FlattenSeq(texts)

UnconcatOf(s, t) ==
    IF Len(s) >= Len(t) /\ From(s, Len(s) - Len(t)) = t THEN Prefix(s, Len(s) - Len(t)) ELSE s

(***************************************************************************)
(* strings_shift(): a negative count turns the operator around; a rotation *)
(* is by the count modulo the length, a shift left by its low six bits.    *)
(***************************************************************************)
Opposite == [rotate_left |-> "rotate_right", rotate_right |-> "rotate_left",
             shift_left  |-> "shift_right",  shift_right  |-> "shift_left",
             shift_right_unsigned |-> "shift_left"]

RotateOf(s, n) == From(s, n) \o Prefix(s, n)

ShiftOf(s, count, op) ==
    LET turned == IF count < 0 THEN Opposite[op] ELSE op
        n      == IF count < 0 THEN -count ELSE count
        by     == n % Len(s)
    IN  CASE turned = "rotate_left"  -> RotateOf(s, by)
          [] turned = "rotate_right" -> RotateOf(s, IF by > 0 THEN Len(s) - by ELSE by)
          [] turned = "shift_left"   -> s \o Repeat(<<Space>>, n % 64)
          [] OTHER                   -> IF n < Len(s) THEN Prefix(s, Len(s) - n) ELSE <<>>

Upper(c) == IF c \in 97..122 THEN c - 32 ELSE c
Lower(c) == IF c \in 65..90 THEN c + 32 ELSE c
Flip(c) == IF c \in 65..90 \cup 97..122 THEN IF c < 97 THEN c + 32 ELSE c - 32 ELSE c

FlipCaseOf(s) == [i \in 1..Len(s) |-> Flip(s[i])]
ToUppercaseOf(s) == [i \in 1..Len(s) |-> Upper(s[i])]
ToLowercaseOf(s) == [i \in 1..Len(s) |-> Lower(s[i])]

MultiplyOf(s, n) == Repeat(s, n)

(* strings_at() and strings_char_at(): NoChar past either end.             *)
NoChar == <<>>
AtOf(s, index) ==
    LET i == IF index >= 0 THEN index + 1 ELSE Len(s) + index + 1
    IN  IF i \in 1..Len(s) THEN <<s[i]>> ELSE NoChar
CharAtOf(s, pos) == IF pos \in 0..Len(s) - 1 THEN <<s[pos + 1]>> ELSE NoChar

(***************************************************************************)
(* strings_substr() takes a start and an end, and slice() passes them on;  *)
(* substring() makes neither negative, and puts the smaller first.         *)
(***************************************************************************)
SubstrOf(s, start, end) ==
    IF start > end \/ start < 0 \/ end < 0 THEN <<>>
    ELSE SubSeq(s, Least(start, Len(s)) + 1, Least(end, Len(s)))

NotBelow0(n) == IF n < 0 THEN 0 ELSE n

(***************************************************************************)
(* A needle found at position i, counted from 0.                           *)
(***************************************************************************)
MatchesAt(s, needle, i) == IsPrefix(needle, From(s, i))

(***************************************************************************)
(* strings_replace_apply(): at each position where the text is the one     *)
(* searched, the replacement with its $ patterns; replaceAll() goes on     *)
(* with the NEXT character, and nothing copies the characters past the     *)
(* last position tried.                                                    *)
(***************************************************************************)
Pattern(s, search, idx, c) ==
    CASE c = Dollar -> <<Dollar>>
      [] c = 38     -> search                               \* $&
      [] c = 96     -> Prefix(s, idx)                       \* $`
      [] c = 39     -> From(s, idx + Len(search))           \* $'

Expansion(s, search, replace, idx) ==
    LET expand[j \in 1..Len(replace) + 2] ==
            CASE j > Len(replace)              -> <<>>
              [] j <= Len(replace) /\ replace[j] # Dollar
                                               -> <<replace[j]>> \o expand[j + 1]
              [] j = Len(replace) /\ replace[j] = Dollar
                                               -> <<Dollar>>
              [] j < Len(replace) /\ replace[j] = Dollar
                  /\ replace[j + 1] \in {Dollar, 38, 96, 39}
                                               -> Pattern(s, search, idx, replace[j + 1]) \o expand[j + 2]
              [] OTHER                         -> <<Dollar>> \o expand[j + 1]
    IN  expand[1]

ReplaceOf(s, search, replace, forAll) ==
    LET all  == forAll /\ search # <<>>
        last == Len(s) - Len(search)
        copy[idx \in 0..Len(s) + 1] ==
            CASE idx > last -> <<>>
              [] idx <= last /\ ~MatchesAt(s, search, idx) -> <<s[idx + 1]>> \o copy[idx + 1]
              [] OTHER -> Expansion(s, search, replace, idx)
                          \o (IF all THEN copy[idx + 1] ELSE From(s, idx + Len(search)))
    IN  copy[0]

(* strings_trim(): spaces are held back until a character follows them, and *)
(* those of the start dropped.                                             *)
IsWhiteSpace(c) == c \in {9, 10, 11, 12, 13, Space}

TrimOf(s, trimStart, trimEnd) ==
    LET seen  == {i \in 1..Len(s) : ~IsWhiteSpace(s[i])}
        first == IF trimStart THEN Min(seen) ELSE 1
        last  == IF trimEnd THEN Max(seen) ELSE Len(s)
    IN  IF seen = {} THEN IF trimStart \/ trimEnd THEN <<>> ELSE s ELSE SubSeq(s, first, last)

=============================================================================
