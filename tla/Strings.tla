------------------------------ MODULE Strings ------------------------------
(***************************************************************************)
(* The strings of a running script: the memory the strings_*() functions   *)
(* of as2js/output/binary.cpp work on, and what each does to it, with the  *)
(* order of its frees, allocations and copies.  What they compute on texts *)
(* is in TextFunctions.                                                    *)
(*                                                                         *)
(* A string variable is a binary_variable: a name, a size, one word of     *)
(* data and a flag ALLOCATED.  A text that fits in the word is kept in it; *)
(* a longer one is at an address: a buffer of the heap, which the variable *)
(* owns when it is ALLOCATED, or a literal of the file.                    *)
(***************************************************************************)
EXTENDS Integers, Sequences, FiniteSets, TextFunctions

CONSTANTS Word,     \* sizeof(f_data)
          Buffers,  \* the addresses malloc() may return
          Literals, \* the long texts of the file, by address
          Null      \* no address

ASSUME WordAssumption == Word \in Nat \ {0}
ASSUME AddressAssumption == /\ Null \notin Buffers \cup DOMAIN Literals
                            /\ Buffers \cap DOMAIN Literals = {}
ASSUME LiteralAssumption == \A a \in DOMAIN Literals :
                                Literals[a] \in Seq(Nat) /\ Len(Literals[a]) > Word

(***************************************************************************)
(* The memory m: m.var, the variables; m.live, the buffers allocated;      *)
(* m.heap, what they hold; m.fault, the first thing the allocator or the   *)
(* processor refuses.                                                      *)
(***************************************************************************)
EmptyString(name) == [name |-> name, size |-> 0, at |-> Null, bytes |-> <<>>, allocated |-> FALSE]

IsInline(x) == x.size <= Word

Available(m) == Buffers \ m.live

(* A buffer that was freed reads as the empty text.                        *)
Text(m, v) ==
    LET x == m.var[v] IN
    CASE IsInline(x)                      -> Prefix(x.bytes, x.size)
      [] ~IsInline(x) /\ x.at \in Buffers -> m.heap[x.at]
      [] OTHER                            -> Literals[x.at]

Malloc(m) == CHOOSE b \in Available(m) : TRUE

Fault(m, what) == [m EXCEPT !.fault = IF @ = "none" THEN what ELSE @]

Release(m, b) == IF b \in m.live
                 THEN [m EXCEPT !.live = @ \ {b}, !.heap[b] = <<>>]
                 ELSE Fault(m, "free")

(* d, which owns nothing, takes a text: in its word or in a new buffer.    *)
SetInline(m, d, text) ==
    [m EXCEPT !.var[d] = [@ EXCEPT !.size = Len(text), !.at = Null, !.bytes = text]]

SetBuffer(m, d, b, text) ==
    [m EXCEPT !.live = @ \union {b}, !.heap[b] = text,
              !.var[d] = [@ EXCEPT !.size = Len(text), !.at = b, !.bytes = <<>>, !.allocated = TRUE]]

Set(m, d, text) ==
    IF Len(text) <= Word THEN SetInline(m, d, text) ELSE SetBuffer(m, d, Malloc(m), text)

(* Only an allocated string is emptied.                                    *)
StringsFree(m, v) ==
    IF m.var[v].allocated
    THEN [Release(m, m.var[v].at) EXCEPT !.var[v] = EmptyString(@.name)]
    ELSE m

(* A text which is not allocated is shared, inline or as a literal.        *)
StringsCopy(m, d, s) ==
    LET f == StringsFree(m, d)
        x == f.var[s]
    IN  CASE d = s                    -> m
          [] d # s /\ ~x.allocated    -> [f EXCEPT !.var[d] = [x EXCEPT !.name = f.var[d].name]]
          [] OTHER                    -> Set(f, d, Text(f, s))

(***************************************************************************)
(* Every result below goes to a d which is none of the sources: the code   *)
(* generated for an operation gives it a temporary variable or %result.    *)
(* The branches for a d which is a source are not modelled.                *)
(***************************************************************************)
(* Mutant: the result is stored over the previous one.                     *)
StoreOver(m, d, text) == Set(m, d, text)

Store(m, d, text) == Set(StringsFree(m, d), d, text)

(* strings_concat() copies the whole variable, its name included, when one *)
(* side is empty and the other owns nothing.                               *)
StringsConcat(m, d, s1, s2) ==
    LET f  == StringsFree(m, d)
        x1 == f.var[s1]
        x2 == f.var[s2]
    IN  CASE x1.size = 0 /\ x2.size = 0                   -> [f EXCEPT !.var[d] = EmptyString(@.name)]
          [] x1.size # 0 /\ ~x1.allocated /\ x2.size = 0  -> [f EXCEPT !.var[d] = x1]
          [] x2.size # 0 /\ ~x2.allocated /\ x1.size = 0  -> [f EXCEPT !.var[d] = x2]
          [] OTHER -> Set(f, d, ConcatOf(<<Text(f, s1), Text(f, s2)>>))

TextsOf(m, params) == [i \in DOMAIN params |-> Text(m, params[i])]

(* The buffer is allocated before d is freed, whatever the size.           *)
StringsConcatParams(m, d, s, params) ==
    LET text  == ConcatOf(TextsOf(m, <<s>> \o params))
        b     == Malloc(m)
        freed == StringsFree([m EXCEPT !.live = @ \union {b}, !.heap[b] = text], d)
    IN  IF Len(text) <= Word THEN SetInline(Release(freed, b), d, text)
        ELSE SetBuffer(freed, d, b, text)

StringsUnconcat(m, d, s1, s2) ==
    IF m.var[s1].size = 0 THEN StringsFree(m, d)
    ELSE Store(m, d, UnconcatOf(Text(m, s1), Text(m, s2)))

StringsShift(m, d, s, count, op) ==
    LET text == ShiftOf(Text(m, s), count, op)
    IN  IF m.var[s].size = 0 \/ text = <<>> THEN StringsFree(m, d) ELSE Store(m, d, text)

StringsFlipCase(m, d, s) == Store(m, d, FlipCaseOf(Text(m, s)))

(* A negative count throws.                                                *)
StringsMultiply(m, d, s, n) ==
    IF n < 0 THEN Fault(m, "incompatible_data") ELSE Store(m, d, MultiplyOf(Text(m, s), n))

StringsMinMax(m, d, s1, s2, minmax) ==
    StringsCopy(m, d, IF Compare(Text(m, s1), Text(m, s2)) * minmax < 0 THEN s2 ELSE s1)

(* An empty string and a position past either end only free d.             *)
StringsAt(m, d, s, index) ==
    LET c == AtOf(Text(m, s), index)
    IN  IF c = NoChar THEN StringsFree(m, d) ELSE Store(m, d, c)

(* A result longer than a word is written through the f_data of d, which   *)
(* has just been freed.                                                    *)
StringsSubstr(m, d, s, start, end) ==
    LET text == SubstrOf(Text(m, s), start, end)
    IN  IF m.var[s].size = 0 \/ start > end \/ start < 0 \/ end < 0 THEN StringsFree(m, d)
        ELSE IF Len(text) <= Word THEN SetInline(StringsFree(m, d), d, text)
        ELSE Fault(StringsFree(m, d), "write")

StringsSlice(m, d, s, start, end) == StringsSubstr(m, d, s, start, end)

StringsSubstring(m, d, s, from, to) ==
    LET start == NotBelow0(from)
        end   == NotBelow0(to)
    IN  IF end < start THEN StringsSubstr(m, d, s, end, start) ELSE StringsSubstr(m, d, s, start, end)

StringsCharAt(m, d, s, pos) ==
    LET c == CharAtOf(Text(m, s), pos)
    IN  IF c = NoChar THEN Fault(m, "out_of_range") ELSE Store(m, d, c)

StringsReplaceApply(m, d, s, search, replace, all) ==
    Store(m, d, ReplaceOf(Text(m, s), Text(m, search), Text(m, replace), all))
StringsReplace(m, d, s, search, replace) == StringsReplaceApply(m, d, s, search, replace, FALSE)
StringsReplaceAll(m, d, s, search, replace) == StringsReplaceApply(m, d, s, search, replace, TRUE)

StringsToLowercase(m, d, s) == Store(m, d, ToLowercaseOf(Text(m, s)))
StringsToUppercase(m, d, s) == Store(m, d, ToUppercaseOf(Text(m, s)))
(* Mutant: the source is trimmed in place, then copied.                    *)
StringsTrimInPlace(m, d, s, trimStart, trimEnd) ==
    StringsCopy(Store(m, s, TrimOf(Text(m, s), trimStart, trimEnd)), d, s)

StringsTrim(m, d, s, trimStart, trimEnd) == Store(m, d, TrimOf(Text(m, s), trimStart, trimEnd))
=============================================================================
