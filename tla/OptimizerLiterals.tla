-------------------------- MODULE OptimizerLiterals --------------------------
(***************************************************************************)
(* The literals of a program, their conversions and comparisons, and the   *)
(* functions the optimizer replaces an operator on literals by its result  *)
(* with.                                                                   *)
(*                                                                         *)
(* A literal is [t |-> its type, c |-> the class of a double, n |-> a      *)
(* number, s |-> a text].  A text is a sequence of pieces, in which a      *)
(* number written in decimal is one piece.  A double is an integer, an     *)
(* infinity or not a number; its fractions and the sign of its zero are    *)
(* left out.                                                               *)
(***************************************************************************)
EXTENDS Integers, Sequences, FiniteSetsExt, SequencesExt

CONSTANT Width   \* the bits of a 32 bit integer

ASSUME WidthAssumption == Width \in Nat \ {0}

Literal(type) == [t |-> type, c |-> "", n |-> 0, s |-> <<>>]

IntegerOf(n) == [Literal("INTEGER") EXCEPT !.n = n]

Text(s) == [Literal("STRING") EXCEPT !.s = s]

Bool(b) == Literal(IF b THEN "TRUE" ELSE "FALSE")

Undefined == Literal("UNDEFINED")

AnyLiteral == {"FALSE", "FLOATING_POINT", "INTEGER", "NULL", "STRING", "TRUE", "UNDEFINED"}
-----------------------------------------------------------------------------
(* The doubles, as the processor adds, multiplies and divides them.        *)
Finite(n) == [Literal("FLOATING_POINT") EXCEPT !.c = "finite", !.n = n]

NotANumber == [Literal("FLOATING_POINT") EXCEPT !.c = "nan"]

Infinity(sign) == [Literal("FLOATING_POINT") EXCEPT !.c = "infinite", !.n = sign]

IsNaN(x) == x.c = "nan"

Sign(n) == IF n > 0 THEN 1 ELSE IF n < 0 THEN -1 ELSE 0

AbsoluteValue(n) == IF n < 0 THEN -n ELSE n

Quotient(a, b) == Sign(a) * Sign(b) * (AbsoluteValue(a) \div AbsoluteValue(b))

Remainder(a, b) == a - b * Quotient(a, b)

Power(a, n) == IF n = 0 THEN 1 ELSE a ^ n

Negative(x) == [x EXCEPT !.n = -x.n]

Sum2(x, y) ==
    CASE IsNaN(x) \/ IsNaN(y)                        -> NotANumber
      [] x.c = "infinite" /\ y.c = "infinite" /\ x # y -> NotANumber
      [] x.c = "infinite"                            -> x
      [] y.c = "infinite"                            -> y
      [] OTHER                                       -> Finite(x.n + y.n)

Product2(x, y) ==
    CASE IsNaN(x) \/ IsNaN(y)                  -> NotANumber
      [] "infinite" \notin {x.c, y.c}          -> Finite(x.n * y.n)
      [] x.n = 0 \/ y.n = 0                    -> NotANumber
      [] OTHER                                 -> Infinity(Sign(x.n) * Sign(y.n))

Quotient2(x, y) ==
    CASE IsNaN(x) \/ IsNaN(y)                        -> NotANumber
      [] x.c = "infinite" /\ y.c = "infinite"        -> NotANumber
      [] x.c = "infinite"                            -> Infinity(IF y.n < 0 THEN -x.n ELSE x.n)
      [] y.c = "infinite"                            -> Finite(0)
      [] y.n = 0 /\ x.n = 0                          -> NotANumber
      [] y.n = 0                                     -> Infinity(Sign(x.n))
      [] OTHER                                       -> Finite(Quotient(x.n, y.n))

Remainder2(x, y) ==
    CASE IsNaN(x) \/ IsNaN(y) \/ x.c = "infinite"    -> NotANumber
      [] y.c = "infinite"                            -> x
      [] y.n = 0                                     -> NotANumber
      [] OTHER                                       -> Finite(Remainder(x.n, y.n))

Power2(x, y) ==
    CASE IsNaN(x) \/ IsNaN(y)  -> NotANumber
      [] y.n < 0               -> Quotient2(Finite(1), Finite(Power(x.n, -y.n)))
      [] OTHER                 -> Finite(Power(x.n, y.n))

OrderOfNumbers(m, n) == IF m < n THEN "less" ELSE IF m > n THEN "greater" ELSE "equal"

Size(x) == IF x.c = "infinite" THEN x.n * 1000 ELSE x.n

Order2(x, y) == IF IsNaN(x) \/ IsNaN(y) THEN "unordered" ELSE OrderOfNumbers(Size(x), Size(y))
-----------------------------------------------------------------------------
(* The texts.                                                              *)
Numerals == [piece \in {ToString(n) : n \in -20..20} |->
                CHOOSE n \in -20..20 : ToString(n) = piece]

IsNumeral(piece) == piece \in DOMAIN Numerals

(* The other pieces, in the order of their characters.                     *)
Words == <<" ", "Infinity", "NaN", "a", "b", "false", "null", "true", "undefined">>

Rank(piece) == IF IsNumeral(piece) THEN Numerals[piece] - 100 ELSE CHOOSE i \in DOMAIN Words : Words[i] = piece

TextOrder(s, t) ==
    LET common == {i \in 1..Len(s) : i <= Len(t) /\ s[i] # t[i]}
    IN  CASE s = t        -> "equal"
          [] common = {}  -> OrderOfNumbers(Len(s), Len(t))
          [] OTHER        -> LET i == CHOOSE j \in common : \A k \in common : j <= k
                             IN  OrderOfNumbers(Rank(s[i]), Rank(t[i]))

NumberOfText(s) ==
    CASE s = <<>>                           -> Finite(0)
      [] Len(s) = 1 /\ IsNumeral(s[1])      -> Finite(Numerals[s[1]])
      [] OTHER                              -> NotANumber

(* simplify(): no spaces around, one between two words, the number a text  *)
(* starts with alone, and 0 for nothing.                                   *)
Simplify(s) ==
    LET words == SelectSeq(s, LAMBDA piece : piece # " ")
        inside == {i \in DOMAIN s : s[i] = " " /\ i > 1 /\ s[i - 1] # " "
                                    /\ (\E j \in 1..i : s[j] # " ") /\ \E j \in i..Len(s) : s[j] # " "}
    IN  CASE words = <<>>          -> <<"0">>
          [] IsNumeral(words[1])   -> <<words[1]>>
          [] OTHER -> FoldLeft(LAMBDA r, i : IF s[i] # " " \/ i \in inside THEN Append(r, s[i]) ELSE r,
                               <<>>, [i \in DOMAIN s |-> i])
-----------------------------------------------------------------------------
(* The conversions of a literal; the optimizer never asks for another.     *)
ToBooleanTypeOnly(a) ==
    CASE a.t \in {"TRUE", "FALSE"}     -> a.t
      [] a.t \in {"NULL", "UNDEFINED"} -> "FALSE"
      [] a.t = "INTEGER"               -> Bool(a.n # 0).t
      [] a.t = "FLOATING_POINT"        -> Bool(a.n # 0 /\ ~IsNaN(a)).t
      [] a.t = "STRING"                -> Bool(a.s # <<>>).t
      [] OTHER                         -> "UNDEFINED"

IsTrue(a) == ToBooleanTypeOnly(a) = "TRUE"

ToFloatingPoint(a) ==
    CASE a.t = "FLOATING_POINT"      -> a
      [] a.t = "INTEGER"             -> Finite(a.n)
      [] a.t = "TRUE"                -> Finite(1)
      [] a.t \in {"NULL", "FALSE"}   -> Finite(0)
      [] a.t = "STRING"              -> NumberOfText(a.s)
      [] a.t = "UNDEFINED"           -> NotANumber

ToInteger(a) ==
    CASE a.t = "INTEGER"                            -> a
      [] a.t = "FLOATING_POINT" /\ a.c # "finite"   -> IntegerOf(0)
      [] a.t = "FLOATING_POINT"                     -> IntegerOf(a.n)
      [] a.t = "TRUE"                               -> IntegerOf(1)
      [] a.t = "STRING"                             -> IntegerOf(NumberOfText(a.s).n)
      [] OTHER                                      -> IntegerOf(0)

ToNumber(a) ==
    CASE a.t \in {"INTEGER", "FLOATING_POINT"}  -> a
      [] a.t = "TRUE"                           -> IntegerOf(1)
      [] a.t \in {"NULL", "FALSE"}              -> IntegerOf(0)
      [] a.t = "UNDEFINED"                      -> NotANumber
      [] a.t = "STRING"                         -> NumberOfText(a.s)

TextOf(a) ==
    CASE a.t = "STRING"                       -> a.s
      [] a.t = "UNDEFINED"                    -> <<"undefined">>
      [] a.t = "NULL"                         -> <<"null">>
      [] a.t = "TRUE"                         -> <<"true">>
      [] a.t = "FALSE"                        -> <<"false">>
      [] a.c = "nan"                          -> <<"NaN">>
      [] a.c = "infinite"                     -> <<IF a.n < 0 THEN "-Infinity" ELSE "Infinity">>
      [] OTHER                                -> <<ToString(a.n)>>

(* node::compare(); nearly_equal() compares integers here.                 *)
Compare(a, b, mode) ==
    CASE a.t \in {"TRUE", "FALSE"} /\ b.t \in {"TRUE", "FALSE"} ->
             OrderOfNumbers(ToNumber(a).n, ToNumber(b).n)
      [] a.t = b.t /\ a.t = "STRING"           -> TextOrder(a.s, b.s)
      [] a.t = b.t /\ a.t = "FLOATING_POINT"   -> Order2(a, b)
      [] a.t = b.t /\ a.t = "INTEGER"          -> OrderOfNumbers(a.n, b.n)
      [] a.t = b.t                             -> "equal"
      [] mode = "strict"                       -> "unordered"
      [] {a.t, b.t} = {"NULL", "UNDEFINED"}    -> "equal"
      [] OTHER                                 -> Order2(ToFloatingPoint(a), ToFloatingPoint(b))
-----------------------------------------------------------------------------
(* An integer cut to 32 bits, as a set of bits and as a signed integer.    *)
Low(n) == n % 2^Width

Bits(n) == {i \in 0..Width - 1 : (Low(n) \div 2^i) % 2 = 1}

OfBits(B) == MapThenSumSet(LAMBDA i : 2^i, B)

Signed(n) == IF Low(n) >= 2^(Width - 1) THEN Low(n) - 2^Width ELSE Low(n)

Amount(b) == ToInteger(b).n % Width

IntegersOnly(a, b) == a.t = "INTEGER" /\ b.t = "INTEGER"

(* The functions, from a literal or two to a literal.                      *)
ADD(a, b) == IF IntegersOnly(a, b) THEN IntegerOf(a.n + b.n)
             ELSE Sum2(ToFloatingPoint(a), ToFloatingPoint(b))

SUBTRACT(a, b) == IF IntegersOnly(a, b) THEN IntegerOf(a.n - b.n)
                  ELSE Sum2(ToFloatingPoint(a), Negative(ToFloatingPoint(b)))

MULTIPLY(a, b) == IF IntegersOnly(a, b) THEN IntegerOf(a.n * b.n)
                  ELSE Product2(ToFloatingPoint(a), ToFloatingPoint(b))

DIVIDE(a, b) ==
    CASE IntegersOnly(a, b) /\ b.n = 0  -> Infinity(IF a.n < 0 THEN -1 ELSE 1)
      [] IntegersOnly(a, b)             -> IntegerOf(Quotient(a.n, b.n))
      [] OTHER                          -> Quotient2(ToFloatingPoint(a), ToFloatingPoint(b))

MODULO(a, b) ==
    CASE IntegersOnly(a, b) /\ b.n = 0  -> NotANumber
      [] IntegersOnly(a, b)             -> IntegerOf(Remainder(a.n, b.n))
      [] OTHER                          -> Remainder2(ToFloatingPoint(a), ToFloatingPoint(b))

POWER(a, b) == Power2(ToFloatingPoint(a), ToFloatingPoint(b))

NEGATE(a) == IF a.t = "INTEGER" THEN IntegerOf(-a.n) ELSE Negative(ToFloatingPoint(a))

CONCATENATE(a, b) == Text(TextOf(a) \o TextOf(b))

BITWISE_AND(a, b) == IntegerOf(OfBits(Bits(ToInteger(a).n) \intersect Bits(ToInteger(b).n)))

BITWISE_OR(a, b) == IntegerOf(OfBits(Bits(ToInteger(a).n) \union Bits(ToInteger(b).n)))

BITWISE_XOR(a, b) == LET x == Bits(ToInteger(a).n)
                         y == Bits(ToInteger(b).n)
                     IN  IntegerOf(OfBits((x \ y) \union (y \ x)))

BITWISE_NOT(a) == IntegerOf(OfBits((0..Width - 1) \ Bits(ToInteger(a).n)))

SHIFT_LEFT(a, b) == IntegerOf(Low(ToInteger(a).n * 2^Amount(b)))

SHIFT_RIGHT(a, b) == IntegerOf(Signed(ToInteger(a).n) \div 2^Amount(b))

SHIFT_RIGHT_UNSIGNED(a, b) == IntegerOf(Low(ToInteger(a).n) \div 2^Amount(b))

ROTATE_LEFT(a, b) ==
    LET v == Low(ToInteger(a).n)
    IN  IF Amount(b) = 0 THEN IntegerOf(v)
        ELSE IntegerOf(OfBits(Bits(v * 2^Amount(b)) \union Bits(v \div 2^(Width - Amount(b)))))

ROTATE_RIGHT(a, b) ==
    LET v == Low(ToInteger(a).n)
    IN  IF Amount(b) = 0 THEN IntegerOf(v)
        ELSE IntegerOf(OfBits(Bits(v \div 2^Amount(b)) \union Bits(v * 2^(Width - Amount(b)))))

COMPARE(a, b) ==
    LET order == Compare(a, b, "loose")
    IN  IF order = "unordered" THEN Undefined
        ELSE IntegerOf(CASE order = "less" -> -1 [] order = "equal" -> 0 [] order = "greater" -> 1)

EQUAL(a, b) == Bool(Compare(a, b, "loose") = "equal")

STRICTLY_EQUAL(a, b) == Bool(Compare(a, b, "strict") = "equal")

LESS(a, b) == Bool(Compare(a, b, "loose") = "less")

LESS_EQUAL(a, b) == Bool(Compare(a, b, "loose") \in {"less", "equal"})

SMART_MATCH(a, b) ==
    LET simple(x) == IF x.t = "STRING" THEN Text(Simplify(x.s)) ELSE x
    IN  Bool(Compare(simple(a), simple(b), "smart") = "equal")

LOGICAL_NOT(a) == Bool(~IsTrue(a))

LOGICAL_XOR(a, b) == CASE IsTrue(a) = IsTrue(b) -> Bool(FALSE)
                       [] IsTrue(a)             -> a
                       [] OTHER                 -> b

MAXIMUM(a, b) == CASE IsNaN(a) -> b
                   [] IsNaN(b) -> a
                   [] OTHER    -> IF Compare(a, b, "loose") = "greater" THEN a ELSE b

MINIMUM(a, b) == CASE IsNaN(a) -> b
                   [] IsNaN(b) -> a
                   [] OTHER    -> IF Compare(a, b, "loose") = "less" THEN a ELSE b

(* A regular expression is the piece it looks for, or is not valid (" ").  *)
MATCH(a, b) == CASE b.s = <<" ">>  -> Literal("THROW")
                 [] OTHER          -> Bool(\E i \in DOMAIN a.s : <<a.s[i]>> = b.s)
=============================================================================
