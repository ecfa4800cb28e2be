------------------------------- MODULE Meaning -------------------------------
(***************************************************************************)
(* What a node of a script is worth, and what it stores: the reference the *)
(* generated code is compared with.  An operand is read when the operator  *)
(* reaches it, from left to right; the operands of a double are doubles,   *)
(* and those of a bitwise operator integers, cut as node::to_integer()     *)
(* does; what is stored in a variable has its type.                        *)
(*                                                                         *)
(* Arithmetic has the names of the instructions.  Comparisons, the logical *)
(* operators and the conversions have names of their own, and where the    *)
(* bits of a double decide, the answer is that of floating_point and of    *)
(* node::to_boolean().  known is what was found of the values: the truth   *)
(* of conditions, the bits of doubles.                                     *)
(***************************************************************************)
EXTENDS Flatten, Floats

IntegerMeaning ==
    [ADD |-> "add", SUBTRACT |-> "sub", MULTIPLY |-> "imul", DIVIDE |-> "div", MODULO |-> "mod",
     BITWISE_AND |-> "and", BITWISE_OR |-> "or", BITWISE_XOR |-> "xor", ROTATE_LEFT |-> "rol", ROTATE_RIGHT |-> "ror",
     SHIFT_LEFT |-> "sal", SHIFT_RIGHT |-> "sar", SHIFT_RIGHT_UNSIGNED |-> "shr",
     MAXIMUM |-> "larger", MINIMUM |-> "smaller", POWER |-> "math_ipow",
     NEGATE |-> "neg", BITWISE_NOT |-> "not"]

DoubleMeaning ==
    [ADD |-> "addsd", SUBTRACT |-> "subsd", MULTIPLY |-> "mulsd", DIVIDE |-> "divsd",
     MODULO |-> "math_fmod", MAXIMUM |-> "maxsd", MINIMUM |-> "minsd", POWER |-> "math_pow",
     NEGATE |-> "btc"]

StringMeaning ==
    [ADD |-> "strings_concat", SUBTRACT |-> "strings_unconcat", MULTIPLY |-> "strings_multiply",
     BITWISE_NOT |-> "strings_flip_case"]

Bits == {"BITWISE_AND", "BITWISE_OR", "BITWISE_XOR", "BITWISE_NOT", "ROTATE_LEFT", "ROTATE_RIGHT",
         "SHIFT_LEFT", "SHIFT_RIGHT", "SHIFT_RIGHT_UNSIGNED"}

Shifts == Bits \ {"BITWISE_AND", "BITWISE_OR", "BITWISE_XOR", "BITWISE_NOT"}

(* The comparisons; those of doubles are apart, a NaN being unordered.     *)
Test == [ALMOST_EQUAL |-> "equal", EQUAL |-> "equal", LESS |-> "less", LESS_EQUAL |-> "at most",
         GREATER |-> "greater", GREATER_EQUAL |-> "at least", NOT_EQUAL |-> "different",
         COMPARE |-> "order"]

DoubleTest == [EQUAL |-> "equal doubles", LESS |-> "less doubles", LESS_EQUAL |-> "at most doubles",
               NOT_EQUAL |-> "different doubles"]

(* Of Booleans: no other native class has these operators, BigInt aside.   *)
Logical == [LOGICAL_AND |-> "both", LOGICAL_OR |-> "either", LOGICAL_XOR |-> "one of"]

Truth(true) == IF true THEN <<"true">> ELSE <<"false">>

Mirror == [GREATER |-> "LESS", GREATER_EQUAL |-> "LESS_EQUAL"]

Negated == [INCREMENT |-> FALSE, POST_INCREMENT |-> FALSE, DECREMENT |-> TRUE, POST_DECREMENT |-> TRUE]

(* A value as a double, and as an integer.                                 *)
InDouble(n, v) ==
    CASE n.op = "INTEGER"   -> <<n.name \o ".0">>
      [] n.type = "Integer" -> <<"CVT2D", v>>
      [] OTHER              -> v

InInteger(n, v) ==
    CASE n.op = "FLOATING_POINT" -> <<n.name \o " truncated">>
      [] n.type = "Double"       -> <<"truncated", v>>
      [] OTHER                   -> v

InType(n, v, type) ==
    CASE type = "Double"  -> InDouble(n, v)
      [] type = "Integer" -> InInteger(n, v)
      [] OTHER            -> v

FoldValues(values, base, f(_, _)) == FoldLeft(f, base, values)

CompareMeaning(n, a, b, bits) ==
    LET x == InDouble(n.kids[1], a)
        y == InDouble(n.kids[2], b)
        types == {n.kids[1].type, n.kids[2].type}
    IN  CASE "Double" \in types /\ n.op \in {"ALMOST_EQUAL", "COMPARE"} ->
                 (CASE ~({x, y} \subseteq DOMAIN bits) -> <<n.op, x, y>>
                    [] n.op = "ALMOST_EQUAL" -> Truth(NearlyEqual(bits[x], bits[y]))
                    [] OTHER                 -> <<FloatCompare(bits[x], bits[y])>>)
          [] "Double" \in types /\ n.op \in DOMAIN Mirror  -> <<DoubleTest[Mirror[n.op]], y, x>>
          [] "Double" \in types                            -> <<DoubleTest[n.op], x, y>>
          [] types = {"String"}                            -> <<"strings_compare", a, b, <<n.op>>>>
          [] OTHER                                         -> <<Test[n.op], a, b>>

NotMeaning(kid, v, bits) ==
    CASE kid.type = "String" -> <<"is zero", <<"size", v>>>>
      [] kid.type = "Double" -> IF v \in DOMAIN bits THEN Truth(~IsTrue(bits[v])) ELSE <<"not", v>>
      [] OTHER               -> <<"is zero", v>>

ShiftedBy(n, a, b) == IF n.kids[2].op = "INTEGER" /\ n.kids[2].name = "0" /\ n.op \in Shifts
                      THEN a ELSE <<IntegerMeaning[n.op], a, b>>

(* An operator of one or two operands, without what it stores.             *)
OperatorMeaning(n, v, bits) ==
    LET integers == [i \in DOMAIN v |-> InInteger(n.kids[i], v[i])]
        doubles  == [i \in DOMAIN v |-> InDouble(n.kids[i], v[i])]
        masked   == IF Len(v) = 2 THEN ShiftedBy(n, integers[1], integers[2])
                    ELSE <<"not">> \o integers
        op       == IF Len(v) = 1 /\ n.op = "SUBTRACT" THEN "NEGATE" ELSE n.op
    IN  CASE n.op \in DOMAIN Test                     -> CompareMeaning(n, v[1], v[2], bits)
          [] n.op = "LOGICAL_NOT"                     -> NotMeaning(n.kids[1], v[1], bits)
          [] n.op \in DOMAIN Logical                  -> <<Logical[n.op]>> \o v
          [] n.op = "ADD" /\ Len(v) = 1               -> v[1]
          [] n.op = "ASSIGNMENT"                      -> InType(n.kids[2], v[2], n.type)
          [] n.op \in Bits /\ n.type = "Double"       -> <<"CVT2D", masked>>
          [] n.op \in Bits /\ n.type = "Integer"      -> masked
          [] n.op \in Shifts /\ n.type = "String"     -> <<"strings_shift", v[1], integers[2], <<n.op>>>>
          [] n.op \in {"MAXIMUM", "MINIMUM"} /\ n.type = "String" ->
                 <<"strings_minmax", v[1], v[2], <<n.op>>>>
          [] n.type = "String"                        -> <<StringMeaning[n.op]>> \o v
          [] n.type = "Double"                        -> <<DoubleMeaning[op]>> \o doubles
          [] OTHER                                    -> <<IntegerMeaning[op]>> \o v

StepMeaning(n, v) ==
    LET sign == IF Negated[n.op] THEN "sub" ELSE "add"
    IN  IF n.type = "Double" THEN <<sign \o "sd", v, <<"1.0">>>> ELSE <<sign, v, <<"1">>>>

(* The functions of Math.                                                  *)
MathMeaning(n, v) ==
    LET doubles == [i \in DOMAIN v |-> InDouble(n.kids[i], v[i])]
        square(x) == <<"mulsd", x, x>>
        integer(i) == InInteger(n.kids[i], v[i])
    IN  CASE n.name = "abs" /\ n.kids[1].op \in Literals -> <<"|" \o n.kids[1].name \o "|">>
          [] n.name = "abs"    -> <<IF n.type = "Double" THEN "fabs" ELSE "abs", v[1]>>
          [] n.name = "random" -> <<"math_random">>
          [] n.name = "hypot" /\ Len(v) = 0 -> <<"0.0">>
          [] n.name = "hypot" /\ Len(v) = 1 -> <<"fabs", doubles[1]>>
          [] n.name = "hypot"  -> <<"math_sqrt", FoldValues(Tail(doubles), square(doubles[1]),
                                        LAMBDA sum, x : <<"addsd", sum, square(x)>>)>>
          [] n.name \in {"min", "max"} /\ Len(v) = 0 -> <<MathLists[n.name] \o " of nothing">>
          [] n.name \in {"min", "max"} /\ n.type = "Double" ->
                 FoldValues(Tail(doubles), doubles[1],
                            LAMBDA m, x : <<DoubleMeaning[MathLists[n.name]], m, x>>)
          [] n.name \in {"min", "max"} ->
                 FoldValues(Tail(v), v[1], LAMBDA m, x : <<IntegerMeaning[MathLists[n.name]], m, x>>)
          [] n.name = "imul"   -> <<"CVT2D", <<"imul32", integer(1), integer(2)>>>>
          [] n.name = "pow" /\ n.type = "Integer" -> <<"math_ipow">> \o v
          [] n.name = "clz32"  -> <<"clz32", integer(1)>>
          [] n.name = "sign" /\ n.type = "Integer" -> <<"isign", v[1]>>
          [] OTHER             -> <<"math_" \o n.name>> \o doubles

MethodMeaning ==
    [charAt |-> "strings_char_at", indexOf |-> "strings_index_of", concat |-> "strings_concat_params",
     replace |-> "strings_replace", toUpperCase |-> "strings_to_uppercase", trim |-> "strings_trim"]

CallMeaning(n, v) ==
    LET type == n.kids[1].type
        parameters == <<"array">> \o Tail(v)
    IN  CASE n.name = "valueOf" -> v[1]
          [] n.name = "toString" /\ type = "String"  -> v[1]
          [] n.name = "toString" /\ type = "Boolean" -> <<"booleans_to_string", v[1]>>
          [] n.name = "toString" /\ type = "Integer" -> <<"integers_to_string", v[1], parameters>>
          [] n.name = "toString" /\ type = "Double"  -> <<"floating_points_to_string", v[1], parameters>>
          [] n.name \in {"toUpperCase", "trim"}      -> <<MethodMeaning[n.name], v[1]>>
          [] OTHER                                   -> <<MethodMeaning[n.name], v[1], parameters>>

(* A character, or those of a range.                                       *)
ArrayMeaning(n, v) ==
    LET index == [i \in DOMAIN v \ {1} |-> InInteger(n.kids[i], v[i])]
    IN  IF Len(v) = 2 THEN <<"strings_at", v[1], index[2]>>
        ELSE <<"strings_substr", v[1], index[2], index[3]>>

MemberMeaning(n, v) == IF n.kids[1].op = "CLASS" THEN <<n.type \o "." \o n.name>> ELSE <<"size", v[1]>>
-----------------------------------------------------------------------------
RECURSIVE Evaluate(_, _, _)

(* [v |-> the value, env |-> the variables after it]                       *)
EvaluateAll(kids, env, known) ==
    FoldLeft(LAMBDA r, kid : LET k == Evaluate(kid, r.env, known)
                             IN  [v |-> Append(r.v, k.v), env |-> k.env],
             [v |-> <<>>, env |-> env], kids)

Evaluate(n, env, known) ==
    IF n.op = "CONDITIONAL"
    THEN LET c == Evaluate(n.kids[1], env, known)
             t == <<"test", c.v>>
         IN  Evaluate(n.kids[IF t \in DOMAIN known.truth /\ ~known.truth[t] THEN 3 ELSE 2],
                      c.env, known)
    ELSE LET r == EvaluateAll(n.kids, env, known)
             stored(v) == [r.env EXCEPT ![n.kids[1].name] = v]
         IN  CASE n.op \in Literals \union {"CLASS"} -> [v |-> <<n.name>>, env |-> env]
               [] n.op = "IDENTIFIER"    -> [v |-> env[n.name], env |-> env]
               [] n.op \in DOMAIN Negated ->
                      LET v == StepMeaning(n, r.v[1])
                      IN  [v   |-> IF n.op \in {"INCREMENT", "DECREMENT"} THEN v ELSE r.v[1],
                           env |-> stored(v)]
               [] n.op = "LIST"          -> [v |-> Last(r.v), env |-> r.env]
               [] n.op = "MATH"          -> [v |-> MathMeaning(n, r.v), env |-> r.env]
               [] n.op = "CALL"          -> [v |-> CallMeaning(n, r.v), env |-> r.env]
               [] n.op = "MEMBER"        -> [v |-> MemberMeaning(n, r.v), env |-> r.env]
               [] n.op = "ARRAY"         -> [v |-> ArrayMeaning(n, r.v), env |-> r.env]
               [] OTHER ->
                      LET v == OperatorMeaning(n, r.v, known.bits)
                      IN  [v |-> v, env |-> IF n.assign \/ n.op = "ASSIGNMENT" THEN stored(v) ELSE r.env]

(* A script is worth what its last directive is.                           *)
EvaluateScript(nodes, env, known) ==
    LET r == EvaluateAll(nodes, env, known)
    IN  [v |-> Last(r.v), env |-> r.env]
=============================================================================
