------------------------------ MODULE Generators -----------------------------
(***************************************************************************)
(* binary_assembler: the generate_* function of each operation, and the    *)
(* code around the operations.                                             *)
(***************************************************************************)
EXTENDS Assembler

(* The opcodes.                                                            *)
Code == [ADD |-> "add", SUBTRACT |-> "sub", BITWISE_AND |-> "and", BITWISE_OR |-> "or",
         BITWISE_XOR |-> "xor", LOGICAL_AND |-> "and", LOGICAL_OR |-> "or",
         LOGICAL_XOR |-> "xor", ROTATE_LEFT |-> "rol", ROTATE_RIGHT |-> "ror",
         SHIFT_LEFT |-> "sal", SHIFT_RIGHT |-> "sar", SHIFT_RIGHT_UNSIGNED |-> "shr"]

SseCode == [ADD |-> "addsd", SUBTRACT |-> "subsd", MULTIPLY |-> "mulsd", DIVIDE |-> "divsd",
            MAXIMUM |-> "maxsd", MINIMUM |-> "minsd"]

Convert(reg)  == <<Do("CVT2D", Xmm[reg], <<reg>>)>>

Wide(d) == d.kind = "INTEGER" /\ d.name \in WideIntegers

(* A literal integer is an immediate, or goes through rdx when it is wide; *)
(* a variable has its own instructions; another literal is refused.        *)
IntegerOperand(d, code, variable) ==
    CASE Wide(d)              -> RegMemInteger(d, "rdx", "mov") \o <<Do(code, "rax", <<"rax", "rdx">>)>>
      [] d.kind = "INTEGER"   -> <<Do(code, "rax", <<"rax", d.name>>)>>
      [] d.kind = "VARIABLE"  -> variable
      [] OTHER                -> Throw
-----------------------------------------------------------------------------
GenerateAbsoluteValue(o) ==
    CASE o.lhs.kind \in {"INTEGER", "FLOATING_POINT"} ->
             <<Mov("rax", "|" \o o.lhs.name \o "|")>> \o StoreInteger(o.result, "rax")
      [] o.lhs.kind = "VARIABLE" /\ TypeOf(o.lhs) = "Integer" ->
             RegMemInteger(o.lhs, "rax", "mov") \o <<Do("abs", "rax", <<"rax">>)>>
             \o StoreInteger(o.result, "rax")
      [] o.lhs.kind = "VARIABLE" /\ TypeOf(o.lhs) = "Double" ->
             RegMemFloat(o.lhs, "xmm0", "LOAD") \o <<Do("fabs", "xmm0", <<"xmm0">>)>>
             \o StoreFloat(o.result, "xmm0")
      [] OTHER -> Throw

AdditiveDouble(o) ==
    RegMemFloat(o.lhs, "xmm0", "LOAD") \o RegMemFloat(o.rhs, "xmm0", SseCode[o.op])
    \o StoresFloat(o, "rax")

AdditiveInteger(o) ==
    RegMemInteger(o.lhs, "rax", "mov")
    \o IntegerOperand(o.rhs, Code[o.op], RegMemInteger(o.rhs, "rax", Code[o.op]))
    \o StoresInteger(o, "rax")

GenerateAdditive(o) ==
    CASE o.type = "Double"  -> AdditiveDouble(o)
      [] o.type = "Integer" -> AdditiveInteger(o)
      [] o.type = "String"  ->
             StringOperation(o, IF o.op = "ADD" THEN "strings_concat" ELSE "strings_unconcat",
                             RegMemString(o.rhs, "rdx"), <<"*rdx">>)
      [] OTHER -> Throw
-----------------------------------------------------------------------------
(* The predicate of CMPSD; > and >= swap the operands.                     *)
SsePredicate == [EQUAL |-> "cmpeqsd", SMART_MATCH |-> "cmpeqsd", STRICTLY_EQUAL |-> "cmpeqsd",
                 LESS |-> "cmpltsd", LESS_EQUAL |-> "cmplesd", GREATER |-> "cmpltsd",
                 GREATER_EQUAL |-> "cmplesd", NOT_EQUAL |-> "cmpneqsd",
                 STRICTLY_NOT_EQUAL |-> "cmpneqsd"]

SetCode == [ALMOST_EQUAL |-> "sete", EQUAL |-> "sete", SMART_MATCH |-> "sete",
            STRICTLY_EQUAL |-> "sete", LESS |-> "setl", LESS_EQUAL |-> "setle",
            GREATER |-> "setg", GREATER_EQUAL |-> "setge", NOT_EQUAL |-> "setne",
            STRICTLY_NOT_EQUAL |-> "setne", COMPARE |-> "compare"]

Swapped == {"GREATER", "GREATER_EQUAL"}

(* Within an epsilon, by the sequence which only reads xmm0 and xmm1.      *)
CompareAlmostEqual(o) ==
    RegMemFloat(o.lhs, "xmm0", "LOAD") \o RegMemFloat(o.rhs, "xmm1", "LOAD")
    \o <<Do("almost_equal", "rax", <<"xmm0", "xmm1">>)>> \o StoreInteger(o.result, "rax")

(* The sign of the difference, as its bits compare with zero.              *)
CompareSign(o) ==
    RegMemFloat(o.lhs, "xmm0", "LOAD") \o RegMemFloat(o.rhs, "xmm0", "subsd")
    \o <<Do("sign", "rax", <<"xmm0">>)>> \o StoreInteger(o.result, "rax")

(* The byte that follows the CMPSD is its predicate; one bit of the mask   *)
(* is kept.                                                                *)
CompareDouble(o) ==
    LET first  == IF o.op \in Swapped THEN o.rhs ELSE o.lhs
        second == IF o.op \in Swapped THEN o.lhs ELSE o.rhs
        compared == RegMemFloat(second, "xmm0", "cmpsd")
    IN  RegMemFloat(first, "xmm0", "LOAD")
        \o [i \in DOMAIN compared |->
               IF compared[i].op = "cmpsd" THEN [compared[i] EXCEPT !.op = SsePredicate[o.op]]
               ELSE compared[i]]
        \o <<Mov("rax", "xmm0"), Do("shr63", "rax", <<"rax">>)>> \o StoreInteger(o.result, "rax")

(* rax is cleared, which sets the flags, before the comparison.            *)
CompareInteger(o) ==
    RegMemInteger(o.lhs, "rdx", "mov")
    \o <<Mov("rax", "0"), Mov("flags", "flags of xor")>>
    \o RegMemInteger(o.rhs, "rdx", "cmp")
    \o <<Do(SetCode[o.op], "rax", <<"flags">>)>>
    \o StoreInteger(o.result, "rax")

CompareString(o) ==
    RegMemString(o.lhs, "rdi") \o RegMemString(o.rhs, "rsi") \o <<Mov("rdx", o.op)>>
    \o ExternalFunctionCall("strings_compare", "rax", <<"*rdi", "*rsi", "rdx">>)
    \o StoreInteger(o.result, "rax")

GenerateCompare(o) ==
    LET types == {TypeOf(o.lhs), TypeOf(o.rhs)}
    IN  CASE "Double" \in types /\ o.op = "ALMOST_EQUAL"  -> CompareAlmostEqual(o)
          [] "Double" \in types /\ o.op = "COMPARE"       -> CompareSign(o)
          [] "Double" \in types                           -> CompareDouble(o)
          [] types \cap {"Integer", "Boolean"} # {}       -> CompareInteger(o)
          [] types = {"String"}                           -> CompareString(o)
          [] OTHER                                        -> Throw
-----------------------------------------------------------------------------
ClassFields == [Integer |-> {"MAX_VALUE", "MIN_VALUE"},
                Double  |-> {"MAX_VALUE", "MIN_VALUE", "EPSILON", "NEGATIVE_INFINITY",
                             "POSITIVE_INFINITY"}]

ArrayField(o) ==
    CASE o.rhs.name = "length" /\ TypeOf(o.lhs) = "String" /\ o.type = "Integer" ->
             LoadStringSize(o.lhs, "rax") \o StoreInteger(o.result, "rax")
      [] o.type = TypeOf(o.lhs) /\ o.type \in DOMAIN ClassFields
         /\ o.rhs.name \in ClassFields[o.type] ->
             <<Mov("rax", o.type \o "." \o o.rhs.name)>> \o StoreInteger(o.result, "rax")
      [] OTHER -> Throw

(* The end of a range must have the type of its start; it is only used     *)
(* when this type is Range.                                                *)
ArrayAt(o) ==
    LET end == IF o.params = <<>> THEN NoData ELSE o.params[1]
    IN  CASE end # NoData /\ TypeOf(end) # TypeOf(o.rhs) -> Throw
      [] o.type # "String" -> Throw
      [] TypeOf(o.rhs) \in {"Integer", "Double"} ->
             StringOperation(o, "strings_at", RegMemFloat(o.rhs, "rdx", "CVT2I"), <<"rdx">>)
      [] TypeOf(o.rhs) = "Range" ->
             StringOperation(o, "strings_substr",
                             RegMemFloat(o.rhs, "rdx", "CVT2I") \o RegMemFloat(end, "rcx", "CVT2I"),
                             <<"rdx", "rcx">>)
      [] OTHER -> Throw

GenerateArray(o) == IF o.rhs.kind \in {"IDENTIFIER", "STRING"} THEN ArrayField(o) ELSE ArrayAt(o)

GenerateAssignment(o) ==
    LET rhs == IF o.rhs = NoData THEN o.lhs ELSE o.rhs
    IN  CASE o.type \in Numeric ->
                 RegMemInteger(rhs, "rax", "mov") \o StoreInteger(o.lhs, "rax")
                 \o StoreInteger(o.result, "rax")
          [] o.type = "String" ->
                 RegMemString(rhs, "rsi") \o StoreString(o.lhs, "rsi")
                 \o RegMemString(rhs, "rsi") \o StoreString(o.result, "rsi")
          [] OTHER -> Throw
-----------------------------------------------------------------------------
(* A double is converted to an integer for the operation, then back.       *)
BitwiseDouble(o) ==
    RegMemFloat(o.lhs, "rax", "CVT2I")
    \o (IF o.rhs.kind = "INTEGER" THEN IntegerOperand(o.rhs, Code[o.op], <<>>)
        ELSE RegMemFloat(o.rhs, "rdx", "CVT2I") \o <<Do(Code[o.op], "rax", <<"rax", "rdx">>)>>)
    \o Convert("rax") \o StoresFloat(o, "rax")

BitwiseInteger(o) ==
    RegMemInteger(o.lhs, "rax", "mov")
    \o (IF o.rhs.kind = "FLOATING_POINT"
        THEN RegMemFloat(o.rhs, "rdx", "CVT2I") \o <<Do(Code[o.op], "rax", <<"rax", "rdx">>)>>
        ELSE IntegerOperand(o.rhs, Code[o.op], RegMemInteger(o.rhs, "rax", Code[o.op])))
    \o StoresInteger(o, "rax")

GenerateBitwise(o) == IF o.type = "Double" THEN BitwiseDouble(o) ELSE BitwiseInteger(o)

GenerateBitwiseNot(o) ==
    CASE o.type = "Double"  -> RegMemFloat(o.lhs, "rax", "CVT2I") \o <<Do("not", "rax", <<"rax">>)>>
                               \o Convert("rax") \o StoreFloat(o.result, "rax")
      [] o.type = "Integer" -> RegMemInteger(o.lhs, "rax", "mov") \o <<Do("not", "rax", <<"rax">>)>>
                               \o StoreInteger(o.result, "rax")
      [] o.type = "String"  -> StringOperation(o, "strings_flip_case", <<>>, <<>>)
      [] OTHER -> Throw

(* The left shift of an immediate 0 has no instruction.                    *)
ShiftBy(o) ==
    CASE o.rhs.kind = "INTEGER" /\ o.rhs.name = "0" -> <<>>
      [] o.rhs.kind = "INTEGER" -> <<Do(Code[o.op], "rax", <<"rax", o.rhs.name>>)>>
      [] o.rhs.kind = "VARIABLE" ->
             (IF TypeOf(o.rhs) = "Double" THEN RegMemFloat(o.rhs, "rcx", "CVT2I")
              ELSE RegMemInteger(o.rhs, "rcx", "mov"))
             \o <<Do(Code[o.op], "rax", <<"rax", "rcx">>)>>
      [] OTHER -> Throw

ShiftNumber(o) ==
    IF o.type = "Double"
    THEN RegMemFloat(o.lhs, "rax", "CVT2I") \o ShiftBy(o) \o Convert("rax") \o StoresFloat(o, "rax")
    ELSE RegMemInteger(o.lhs, "rax", "mov") \o ShiftBy(o) \o StoresInteger(o, "rax")

GenerateShift(o) ==
    CASE o.type \in {"Double", "Integer"} -> ShiftNumber(o)
      [] o.type = "String" ->
             StringOperation(o, "strings_shift",
                             RegMemFloat(o.rhs, "rdx", "CVT2I") \o <<Mov("rcx", o.op)>>,
                             <<"rdx", "rcx">>)
      [] OTHER -> Throw

GenerateClz32(o) ==
    RegMemFloat(o.lhs, "rdx", "CVT2I") \o <<Do("clz32", "rax", <<"rdx">>)>>
    \o StoreInteger(o.result, "rax")
-----------------------------------------------------------------------------
GenerateGoto(o)  == <<Instruction("jump", "jmp", o.label, <<>>)>>
GenerateLabel(o) == <<Instruction("label", "label", o.label, <<>>)>>

GenerateIf(o) ==
    (IF o.lhs.kind \in Literals THEN Throw ELSE RegMemInteger(o.lhs, "rax", "test"))
    \o <<Instruction("if", IF o.op = "IF_TRUE" THEN "jne" ELSE "je", o.label, <<"flags">>)>>

GenerateIdentity(o) ==
    CASE o.lhs.kind \in {"INTEGER", "FLOATING_POINT"}
         \/ (o.lhs.kind = "VARIABLE" /\ TypeOf(o.lhs) \in {"Integer", "Double"}) ->
             RegMemInteger(o.lhs, "rax", "mov") \o StoreInteger(o.result, "rax")
      [] o.lhs.kind = "STRING" \/ (o.lhs.kind = "VARIABLE" /\ TypeOf(o.lhs) = "String") ->
             RegMemString(o.lhs, "rsi") \o StoreString(o.result, "rsi")
      [] OTHER -> Throw

GenerateNegate(o) ==
    RegMemInteger(o.lhs, "rax", "mov")
    \o <<Do(IF o.type = "Double" THEN "btc" ELSE "neg", "rax", <<"rax">>)>>
    \o StoreInteger(o.result, "rax")

DivideDouble(o) ==
    RegMemFloat(o.lhs, "xmm0", "LOAD")
    \o (IF o.op = "DIVIDE" THEN RegMemFloat(o.rhs, "xmm0", "divsd")
        ELSE RegMemFloat(o.rhs, "xmm1", "LOAD")
             \o ExternalFunctionCall("math_fmod", "xmm0", <<"xmm0", "xmm1">>))
    \o StoresFloat(o, "xmm0")

(* IDIV leaves the quotient in rax and the remainder in rdx.               *)
DivideInteger(o) ==
    RegMemInteger(o.lhs, "rax", "mov") \o RegMemInteger(o.rhs, "rcx", "mov")
    \o <<Do("mod", "rdx", <<"rax", "rcx">>), Do("div", "rax", <<"rax", "rcx">>)>>
    \o StoresInteger(o, IF o.op = "DIVIDE" THEN "rax" ELSE "rdx")
    \o (IF o.op = "DIVIDE" THEN <<>> ELSE <<Mov("rax", "rdx")>>)

GenerateDivide(o) == IF o.type = "Double" THEN DivideDouble(o) ELSE DivideInteger(o)

Increments == {"INCREMENT", "POST_INCREMENT"}
Posts      == {"POST_INCREMENT", "POST_DECREMENT"}

(* Mutant: the value before is not kept apart.                             *)
IncrementDoubleInPlace(o) ==
    RegMemFloat(o.lhs, "xmm0", "LOAD")
    \o <<Do(IF o.op \in Increments THEN "addsd" ELSE "subsd", "xmm0", <<"xmm0", AsDouble("1")>>)>>
    \o StoreFloat(o.lhs, "xmm0") \o StoreFloat(o.result, "xmm0")

IncrementDouble(o) ==
    LET to == IF o.op \in Posts THEN "xmm1" ELSE "xmm0"
    IN  RegMemFloat(o.lhs, "xmm0", "LOAD")
        \o (IF o.op \in Posts THEN <<Mov("xmm1", "xmm0")>> ELSE <<>>)
        \o <<Do(IF o.op \in Increments THEN "addsd" ELSE "subsd", to, <<to, AsDouble("1")>>)>>
        \o StoreFloat(o.lhs, to) \o StoreFloat(o.result, "xmm0")

(* The variable itself is incremented, before or after it is loaded.       *)
IncrementInteger(o) ==
    LET load == RegMemInteger(o.lhs, "rax", "mov")
        step == <<Do(IF o.op \in Increments THEN "add" ELSE "sub", o.lhs.name, <<o.lhs.name, "1">>)>>
    IN  (IF o.op \in Posts THEN load \o step ELSE step \o load) \o StoreInteger(o.result, "rax")

GenerateIncrement(o) == IF o.type = "Double" THEN IncrementDouble(o) ELSE IncrementInteger(o)

(* The value of the last item.                                             *)
GenerateList(o) ==
    LET d == Last(o.params)
    IN  CASE TypeOf(d) \in {"Integer", "Boolean"} ->
                 RegMemInteger(d, "rax", "mov") \o StoreInteger(o.result, "rax")
          [] TypeOf(d) = "Double" -> RegMemFloat(d, "xmm0", "LOAD") \o StoreFloat(o.result, "xmm0")
          [] TypeOf(d) = "String" -> RegMemString(d, "rsi") \o StoreString(o.result, "rsi")
          [] OTHER -> Throw
-----------------------------------------------------------------------------
(* Both sides are evaluated.                                               *)
GenerateLogical(o) ==
    RegMemInteger(o.lhs, "rax", "mov")
    \o (IF o.rhs.kind = "VARIABLE" THEN RegMemInteger(o.rhs, "rax", Code[o.op]) ELSE Throw)
    \o StoresInteger(o, "rax")

(* The sign of a double is ignored and a NaN becomes a zero.  The          *)
(* comparison is one of integers with a sign.                              *)
NanToZero == <<Do("add", "rdi", <<"rdi", "rdi">>), Mov("r11", "nan_exponent_x2"),
               Do("cmp", "flags", <<"rdi", "r11">>), Do("cmovg", "rdi", <<"rdi", "rax", "flags">>)>>

GenerateLogicalNot(o) ==
    CASE TypeOf(o.lhs) \in Numeric ->
             RegMemInteger(o.lhs, "rdi", "mov") \o <<Mov("rax", "0")>>
             \o (IF TypeOf(o.lhs) = "Double" THEN NanToZero ELSE <<>>)
             \o <<Do("setz", "rax", <<"rdi">>)>> \o StoreInteger(o.result, "rax")
      [] TypeOf(o.lhs) = "String" ->
             LoadStringSize(o.lhs, "rdx") \o <<Mov("rax", "0"), Do("setz", "rax", <<"rdx">>)>>
             \o StoreInteger(o.result, "rax")
      [] OTHER -> Throw

(* Without parameters, the infinity nothing beats.                         *)
Nothing(o) == <<Mov("rax", o.op \o " of nothing")>> \o StoreInteger(o.result, "rax")

Fold(seq, base, f(_, _)) == FoldLeft(f, base, seq)

MinMaxDouble(o, all) ==
    Fold(Tail(all), RegMemFloat(all[1], "xmm0", "LOAD"),
         LAMBDA code, d : code \o RegMemFloat(d, "xmm0", SseCode[o.op]))
    \o StoresFloat(o, "xmm0")

Cmov == [MAXIMUM |-> "cmovl", MINIMUM |-> "cmovg"]

MinMaxInteger(o, all) ==
    Fold(Tail(all), RegMemInteger(all[1], "rax", "mov"),
         LAMBDA code, d : code \o RegMemInteger(d, "rdx", "mov")
                               \o <<Do("cmp", "flags", <<"rax", "rdx">>),
                                    Do(Cmov[o.op], "rax", <<"rax", "rdx", "flags">>)>>)
    \o StoresInteger(o, "rax")

(* As an operator it has two sides, as a function of Math parameters.      *)
GenerateMinMax(o) ==
    LET all == IF o.lhs = NoData THEN o.params ELSE <<o.lhs, o.rhs>>
    IN  CASE o.type = "Double" /\ all = <<>>   -> Nothing(o)
          [] o.type = "Integer" /\ all = <<>>  -> Nothing(o)
          [] o.type = "Double"                 -> MinMaxDouble(o, all)
          [] o.type = "Integer"                -> MinMaxInteger(o, all)
          [] o.type = "String" /\ o.lhs # NoData ->
                 StringOperation(o, "strings_minmax",
                                 RegMemString(o.rhs, "rdx") \o <<Mov("rcx", o.op)>>,
                                 <<"*rdx", "rcx">>)
          [] OTHER -> Throw

Square(reg) == <<Do("mulsd", reg, <<reg, reg>>)>>

GenerateHypot(o) ==
    LET all == o.params
        load(k, reg) == RegMemFloat(all[k], reg, "CVT2D")
    IN  (CASE all = <<>>    -> <<Mov("xmm0", AsDouble("0"))>>
           [] Len(all) = 1  -> load(1, "xmm0") \o <<Do("fabs", "xmm0", <<"xmm0">>)>>
           [] OTHER         -> Fold([k \in 1..(Len(all) - 1) |-> k + 1],
                                    load(1, "xmm0") \o Square("xmm0"),
                                    LAMBDA code, k :
                                        code \o load(k, "xmm1") \o Square("xmm1")
                                        \o <<Do("addsd", "xmm0", <<"xmm0", "xmm1">>)>>)
                               \o ExternalFunctionCall("math_sqrt", "xmm0", <<"xmm0">>))
        \o StoreFloat(o.result, "xmm0")
-----------------------------------------------------------------------------
MultiplyInteger(o) ==
    RegMemInteger(o.lhs, "rax", "mov")
    \o IntegerOperand(o.rhs, "imul", RegMemInteger(o.rhs, "rdx", "mov")
                                     \o <<Do("imul", "rax", <<"rax", "rdx">>)>>)
    \o StoresInteger(o, "rax")

GenerateMultiply(o) ==
    CASE o.type = "Double"  -> RegMemFloat(o.lhs, "xmm0", "LOAD") \o RegMemFloat(o.rhs, "xmm0", "mulsd")
                               \o StoresFloat(o, "xmm0")
      [] o.type = "Integer" -> MultiplyInteger(o)
      [] o.type = "String"  -> StringOperation(o, "strings_multiply",
                                               RegMemInteger(o.rhs, "rdx", "mov"), <<"rdx">>)
      [] OTHER -> Throw

GenerateParam(o) ==
    IF TypeOf(o.lhs) \in Numeric
    THEN RegMemInteger(o.lhs, "rax", "mov") \o SaveReg(o.result, "rax", TypeOf(o.lhs))
    ELSE Throw

GenerateRandom(o) == ExternalFunctionCall("math_random", "xmm0", <<>>) \o StoreFloat(o.result, "xmm0")

MathCode == [FLOOR |-> "math_floor", SQRT |-> "math_sqrt", TRUNC |-> "math_trunc"]

GenerateMathFunction(o) ==
    RegMemFloat(o.lhs, "xmm0", "CVT2D")
    \o ExternalFunctionCall(MathCode[o.op], "xmm0", <<"xmm0">>) \o StoreFloat(o.result, "xmm0")

GeneratePower(o) ==
    IF o.type = "Double"
    THEN RegMemFloat(o.lhs, "xmm0", "LOAD") \o RegMemFloat(o.rhs, "xmm1", "LOAD")
         \o ExternalFunctionCall("math_pow", "xmm0", <<"xmm0", "xmm1">>) \o StoresFloat(o, "xmm0")
    ELSE RegMemInteger(o.lhs, "rdi", "mov") \o RegMemInteger(o.rhs, "rsi", "mov")
         \o ExternalFunctionCall("math_ipow", "rax", <<"rdi", "rsi">>) \o StoresInteger(o, "rax")

GenerateAtan2(o) ==
    RegMemFloat(o.lhs, "xmm0", "LOAD") \o RegMemFloat(o.rhs, "xmm1", "LOAD")
    \o ExternalFunctionCall("math_atan2", "xmm0", <<"xmm0", "xmm1">>) \o StoreFloat(o.result, "xmm0")

(* The conversions truncate while the MXCSR register is changed.           *)
GenerateImul(o) ==
    <<Mov("%mxcsr", "mxcsr"), Mov("rax", "mxcsr"), Mov("mxcsr", "truncate")>>
    \o RegMemFloat(o.lhs, "rax", "CVT2I") \o RegMemFloat(o.rhs, "rcx", "CVT2I")
    \o <<Mov("mxcsr", "%mxcsr"), Do("imul32", "rax", <<"rax", "rcx">>)>>
    \o Convert("rax") \o StoreFloat(o.result, "xmm0")

GenerateSign(o) ==
    IF o.type = "Double"
    THEN RegMemFloat(o.lhs, "xmm0", "LOAD")
         \o ExternalFunctionCall("math_sign", "xmm0", <<"xmm0">>) \o StoreFloat(o.result, "xmm0")
    ELSE RegMemInteger(o.lhs, "rax", "mov") \o <<Do("isign", "rax", <<"rax">>)>>
         \o StoreInteger(o.result, "rax")
-----------------------------------------------------------------------------
(* The parameters are pushed by address in an array, which only lives for  *)
(* the call.                                                               *)
PushParams(o) ==
    LET params == o.params[1]
        array(function, to, from) == PointerToTemporary(params, "rdi")
                                     \o ExternalFunctionCall(function, to, from)
    IN  Fold(Tail(o.params), array("array_initialize", "*rdi", <<>>),
             LAMBDA code, d : code \o PointerToVariable(d, "rsi")
                                   \o array("array_push", "*rdi", <<"*rdi", "rsi">>))

FreeParams(o) == PointerToTemporary(o.params[1], "rdi")
                 \o ExternalFunctionCall("array_free", "*rdi", <<>>)

(* The functions of a string which take the parameters, and those that     *)
(* have none.                                                              *)
StringMethods == [charAt |-> "strings_char_at", charCodeAt |-> "strings_char_code_at",
                  concat |-> "strings_concat_params", indexOf |-> "strings_index_of",
                  lastIndexOf |-> "strings_last_index_of", replace |-> "strings_replace",
                  replaceAll |-> "strings_replace_all", slice |-> "strings_slice",
                  substring |-> "strings_substring"]

StringConversions == [toLowerCase |-> "strings_to_lowercase", toUpperCase |-> "strings_to_uppercase",
                      trim |-> "strings_trim", trimStart |-> "strings_trim_start",
                      trimEnd |-> "strings_trim_end"]

CallString(o) ==
    CASE o.name \in DOMAIN StringMethods ->
             PointerToTemporary(o.params[1], "rdx") \o RegMemString(o.lhs, "rsi")
             \o PointerToVariable(o.result, "rdi")
             \o ExternalFunctionCall(StringMethods[o.name], "*rdi", <<"*rsi", "*rdx">>)
      [] o.name \in DOMAIN StringConversions ->
             RegMemString(o.lhs, "rsi") \o PointerToVariable(o.result, "rdi")
             \o ExternalFunctionCall(StringConversions[o.name], "*rdi", <<"*rsi">>)
      [] o.name \in {"toString", "valueOf"} ->
             RegMemString(o.lhs, "rsi") \o RegMemString(o.result, "rdi")
             \o ExternalFunctionCall("strings_copy", "*rdi", <<"*rsi">>)
      [] OTHER -> Throw

CallBoolean(o) ==
    CASE o.name = "toString" ->
             RegMemInteger(o.lhs, "rsi", "mov") \o RegMemString(o.result, "rdi")
             \o ExternalFunctionCall("booleans_to_string", "*rdi", <<"rsi">>)
      [] o.name = "valueOf" -> RegMemInteger(o.lhs, "rax", "mov") \o StoreInteger(o.result, "rax")
      [] OTHER -> Throw

(* The radix is among the parameters.                                      *)
CallInteger(o) ==
    CASE o.name = "toString" ->
             RegMemInteger(o.lhs, "rsi", "mov") \o RegMemString(o.result, "rdi")
             \o PointerToTemporary(o.params[1], "rdx")
             \o ExternalFunctionCall("integers_to_string", "*rdi", <<"rsi", "*rdx">>)
      [] o.name = "valueOf" -> RegMemInteger(o.lhs, "rax", "mov") \o StoreInteger(o.result, "rax")
      [] OTHER -> Throw

CallDouble(o) ==
    CASE o.name = "toString" ->
             RegMemFloat(o.lhs, "xmm0", "LOAD") \o RegMemString(o.result, "rdi")
             \o PointerToTemporary(o.params[1], "rsi")
             \o ExternalFunctionCall("floating_points_to_string", "*rdi", <<"xmm0", "*rsi">>)
      [] o.name = "valueOf" -> RegMemFloat(o.lhs, "xmm0", "LOAD") \o StoreFloat(o.result, "xmm0")
      [] OTHER -> Throw

GenerateCall(o) ==
    PushParams(o)
    \o (CASE TypeOf(o.lhs) = "String"  -> CallString(o)
          [] TypeOf(o.lhs) = "Boolean" -> CallBoolean(o)
          [] TypeOf(o.lhs) = "Integer" -> CallInteger(o)
          [] TypeOf(o.lhs) = "Double"  -> CallDouble(o)
          [] OTHER                     -> Throw)
    \o FreeParams(o)
-----------------------------------------------------------------------------
GenerateOperation(o) ==
    CASE o.op = "ABSOLUTE_VALUE"                       -> GenerateAbsoluteValue(o)
      [] o.op \in DOMAIN MathCode                      -> GenerateMathFunction(o)
      [] o.op \in {"ADD", "SUBTRACT"}                  -> GenerateAdditive(o)
      [] o.op \in DOMAIN SetCode                       -> GenerateCompare(o)
      [] o.op = "ARRAY"                                -> GenerateArray(o)
      [] o.op = "ASSIGNMENT"                           -> GenerateAssignment(o)
      [] o.op \in {"LOGICAL_AND", "LOGICAL_OR", "LOGICAL_XOR"} -> GenerateLogical(o)
      [] o.op \in {"BITWISE_AND", "BITWISE_OR", "BITWISE_XOR"} -> GenerateBitwise(o)
      [] o.op \in {"DIVIDE", "MODULO"}                 -> GenerateDivide(o)
      [] o.op \in {"MAXIMUM", "MINIMUM"}               -> GenerateMinMax(o)
      [] o.op = "HYPOT"                                -> GenerateHypot(o)
      [] o.op = "MULTIPLY"                             -> GenerateMultiply(o)
      [] o.op = "ATAN2"                                -> GenerateAtan2(o)
      [] o.op = "IMUL"                                 -> GenerateImul(o)
      [] o.op = "SIGN"                                 -> GenerateSign(o)
      [] o.op = "POWER"                                -> GeneratePower(o)
      [] o.op \in {"ROTATE_LEFT", "ROTATE_RIGHT", "SHIFT_LEFT", "SHIFT_RIGHT",
                   "SHIFT_RIGHT_UNSIGNED"}             -> GenerateShift(o)
      [] o.op = "BITWISE_NOT"                          -> GenerateBitwiseNot(o)
      [] o.op = "CALL"                                 -> GenerateCall(o)
      [] o.op = "CLZ32"                                -> GenerateClz32(o)
      [] o.op \in Increments \union {"DECREMENT", "POST_DECREMENT"} -> GenerateIncrement(o)
      [] o.op = "GOTO"                                 -> GenerateGoto(o)
      [] o.op \in {"IF_FALSE", "IF_TRUE"}              -> GenerateIf(o)
      [] o.op = "IDENTITY"                             -> GenerateIdentity(o)
      [] o.op = "LABEL"                                -> GenerateLabel(o)
      [] o.op = "LIST"                                 -> GenerateList(o)
      [] o.op = "LOGICAL_NOT"                          -> GenerateLogicalNot(o)
      [] o.op = "NEGATE"                               -> GenerateNegate(o)
      [] o.op = "PARAM"                                -> GenerateParam(o)
      [] o.op = "RANDOM"                               -> GenerateRandom(o)
      [] OTHER                                         -> Throw

(* Mutant: what PARAM fills is taken for a string.                         *)
AllStringTemporaries(variables) == SetToSeq({d \in variables : IsTemporary(d) /\ d.type = "String"})

(* The strings of the temporaries are initialized before the operations    *)
(* and freed after them.                                                   *)
StringTemporaries(variables) ==
    SetToSeq({d \in variables : IsTemporary(d) /\ ~d.noinit /\ d.type = "String"})

ForEachString(variables, function) ==
    Fold(StringTemporaries(variables), <<>>,
         LAMBDA code, d : code \o PointerToTemporary(d, "rdi")
                               \o ExternalFunctionCall(function, "*rdi", <<>>))

Prologue(variables) == <<Mov("%extern_functions", "rdi")>>
                       \o ForEachString(variables, "strings_initialize")

Epilogue(variables) == ForEachString(variables, "strings_free")
                       \o <<Instruction("return", "ret", "", <<>>)>>
=============================================================================
