------------------------------ MODULE Assembler ------------------------------
(***************************************************************************)
(* binary_assembler: the instructions each operation becomes.              *)
(*                                                                         *)
(* An instruction copies a place to another (mov, lea, a store), computes  *)
(* from places, calls a function of the run-time library, or jumps.  Places *)
(* are registers, variables and temporaries; a name which is none of these *)
(* is a constant.  "*rsi" is what rsi points to.  Where the code throws,   *)
(* the instruction is "throw".                                             *)
(***************************************************************************)
EXTENDS Flatten

CONSTANT WideIntegers   \* the literals that need a 64 bit immediate

(* The constant a literal integer is converted to, and the integer a       *)
(* floating point literal is cut to.                                       *)
AsDouble(literal)  == literal \o ".0"
Truncated(literal) == literal \o " truncated"

Instruction(kind, op, to, from) == [kind |-> kind, op |-> op, to |-> to, from |-> from]

Mov(to, from)      == Instruction("mov", "mov", to, <<from>>)
Lea(to, name)      == Instruction("lea", "lea", to, <<name>>)
Do(op, to, from)   == Instruction("do", op, to, from)
Throw              == <<Instruction("throw", "throw", "", <<>>)>>

(* An operation on a register and another operand.                         *)
Apply(code, reg, place) ==
    CASE code = "mov"  -> <<Mov(reg, place)>>
      [] code = "cmp"  -> <<Do("cmp", "flags", <<reg, place>>)>>
      [] code = "test" -> <<Do("test", "flags", <<place>>)>>
      [] OTHER         -> <<Do(code, reg, <<reg, place>>)>>

(* The registers share their numbers.                                      *)
Xmm == [rax |-> "xmm0", rcx |-> "xmm1", rdx |-> "xmm2", xmm0 |-> "xmm0", xmm1 |-> "xmm1"]
Gp  == [rax |-> "rax", rcx |-> "rcx", rdx |-> "rdx", xmm0 |-> "rax", xmm1 |-> "rcx"]

TypeOf(d) == IF d.kind = "VARIABLE" /\ d.type = "%mxcsr" THEN "Integer" ELSE d.type

Numeric == {"Boolean", "Integer", "Double"}

SizeOf(d) ==
    CASE d.type = "Boolean" /\ ~d.full                        -> 1
      [] d.type \in {"Integer", "Double", "%mxcsr"} /\ ~d.full -> 8
      [] OTHER                                                -> 24
-----------------------------------------------------------------------------
(* Loads and operations on general registers.                              *)
(* Mutant: a byte is only moved or tested.                                 *)
FewEightBitCodes == {"mov", "test"}

EightBitCodes == {"mov", "test", "or", "and", "xor", "cmp"}

(* A literal is only moved, whatever the operation.                        *)
IntegerLiteral(d, reg) == <<Mov(reg, d.name)>>

IntegerTemporary(d, reg, code) ==
    IF SizeOf(d) = 8 \/ (SizeOf(d) = 1 /\ code \in {"mov", "test"}) THEN Apply(code, reg, d.name) ELSE Throw

IntegerExtern(d, reg, code) ==
    IF SizeOf(d) = 8 \/ (SizeOf(d) = 1 /\ code \in EightBitCodes) THEN Apply(code, reg, d.name) ELSE Throw

RegMemInteger(d, reg, code) ==
    CASE d.kind \in {"INTEGER", "FLOATING_POINT"} -> IntegerLiteral(d, reg)
      [] d.kind = "VARIABLE" /\ IsTemporary(d)    -> IntegerTemporary(d, reg, code)
      [] d.kind = "VARIABLE" /\ d.where = "extern" -> IntegerExtern(d, reg, code)
      [] OTHER                                     -> Throw

(* Loads and operations on the SSE registers; CVT2I and CVT2D are loads.   *)
Sse(op, reg, place) ==
    IF op \in {"LOAD", "CVT2I", "CVT2D"} THEN <<Mov(Xmm[reg], place)>>
    ELSE <<Do(op, Xmm[reg], <<Xmm[reg], place>>)>>

SseConstant(d, reg, op) ==
    CASE op = "cmpsd"         -> Throw
      [] d.kind = "INTEGER"   -> IF op = "CVT2I" THEN RegMemInteger(d, Gp[reg], "mov")
                                 ELSE Sse(op, reg, AsDouble(d.name))
      [] OTHER                -> IF op = "CVT2I" THEN <<Mov(Gp[reg], Truncated(d.name))>>
                                 ELSE Sse(op, reg, d.name)

SseBoolean(d, reg, op) ==
    CASE op \in {"LOAD", "CVT2D"} -> <<Mov(Gp[reg], d.name)>>
      [] op = "cmpsd"             -> <<Do("test", "flags", <<d.name>>)>>
      [] OTHER                    -> Throw

(* A temporary is loaded whatever op says of a conversion.  When its offset *)
(* needs 32 bits, the instruction is a MOVSD relative to the instruction   *)
(* pointer.                                                                *)
SseTemporary(d, reg, op) ==
    CASE SizeOf(d) = 1                        -> SseBoolean(d, reg, op)
      [] SizeOf(d) = 8 /\ d.where = "near"    -> Sse(op, reg, d.name)
      [] SizeOf(d) = 8 /\ d.where = "far"     -> <<Mov(Xmm[reg], "garbage")>>
      [] OTHER                                -> Throw

SseExternInteger(d, reg, op) ==
    LET other == IF Xmm[reg] = "xmm0" THEN "xmm1" ELSE "xmm0"
    IN  CASE op \in {"LOAD", "CVT2I"}    -> <<Mov(Gp[reg], d.name)>>
          [] op = "CVT2D"                -> <<Do("CVT2D", Xmm[reg], <<d.name>>)>>
          [] op \in {"maxsd", "minsd"}   -> <<Do("CVT2D", other, <<d.name>>),
                                              Do(op, Xmm[reg], <<Xmm[reg], other>>)>>
          [] OTHER                       -> Throw

(* The conversion rounds the way the MXCSR register says.                  *)
SseExternDouble(d, reg, op) ==
    IF op = "CVT2I" THEN <<Do("CVT2I", Gp[reg], <<d.name, "mxcsr">>)>> ELSE Sse(op, reg, d.name)

RegMemFloat(d, reg, op) ==
    CASE d.kind \in {"INTEGER", "FLOATING_POINT"}      -> SseConstant(d, reg, op)
      [] IsTemporary(d)                                -> SseTemporary(d, reg, op)
      [] d.where = "extern" /\ d.type = "Boolean"      -> SseBoolean(d, reg, op)
      [] d.where = "extern" /\ d.type = "Integer"      -> SseExternInteger(d, reg, op)
      [] d.where = "extern" /\ d.type = "Double"       -> SseExternDouble(d, reg, op)
      [] OTHER                                         -> Throw

RegMemString(d, reg) ==
    IF d.kind = "STRING" \/ (d.kind = "VARIABLE" /\ d.where # "private" /\ d.type = "String")
    THEN <<Lea(reg, d.name)>> ELSE Throw

LoadStringSize(d, reg) ==
    IF d.where # "private" /\ d.kind = "VARIABLE" THEN <<Do("size", reg, <<d.name>>)>> ELSE Throw

PointerToTemporary(d, reg) == <<Lea(reg, d.name)>>

PointerToVariable(d, reg) ==
    CASE d.kind = "STRING"                           -> RegMemString(d, reg)
      [] d.kind = "VARIABLE" /\ IsTemporary(d)       -> PointerToTemporary(d, reg)
      [] d.kind = "VARIABLE" /\ d.where = "extern"   -> <<Lea(reg, d.name)>>
      [] OTHER                                       -> Throw

(* The pointer to the table of functions is loaded first.                  *)
ExternalFunctionCall(function, to, from) ==
    <<Mov("rax", "%extern_functions"), Instruction("call", function, to, from)>>
-----------------------------------------------------------------------------
(* Stores.                                                                 *)
SaveReg(d, reg, type) ==
    IF type \in Numeric THEN <<Mov("rcx", "0"), Do("variable", d.name, <<reg>>)>> ELSE Throw

StoreInTemporary(d, reg) ==
    CASE SizeOf(d) \in {1, 8}  -> <<Mov(d.name, reg)>>
      [] d.full                -> SaveReg(d, reg, TypeOf(d))
      [] OTHER                 -> Throw

StoreInteger(d, reg) ==
    CASE d.kind # "VARIABLE"    -> Throw
      [] IsTemporary(d)         -> StoreInTemporary(d, reg)
      [] d.where = "extern"     -> <<Mov(d.name, reg)>>
      [] OTHER                  -> Throw

StoreFloat(d, reg) ==
    CASE d.kind = "VARIABLE" /\ IsTemporary(d) /\ d.type = "Double" -> <<Mov(d.name, Xmm[reg])>>
      [] d.kind = "VARIABLE" /\ d.where = "extern"                  -> <<Mov(d.name, Xmm[reg])>>
      [] OTHER                                                      -> Throw

StringsCopy(d) == <<Lea("rdi", d.name)>> \o ExternalFunctionCall("strings_copy", "*rdi", <<"*rsi">>)

StoreString(d, reg) ==
    CASE d.kind = "VARIABLE" /\ IsTemporary(d) /\ d.type = "String" -> StringsCopy(d)
      [] d.kind = "VARIABLE" /\ d.where = "extern"                  -> StringsCopy(d)
      [] OTHER                                                      -> Throw

(* An operator that assigns stores in its left side before its result.     *)
StoresInteger(o, reg) == (IF o.assign THEN StoreInteger(o.lhs, reg) ELSE <<>>) \o StoreInteger(o.result, reg)
StoresFloat(o, reg) == (IF o.assign THEN StoreFloat(o.lhs, reg) ELSE <<>>) \o StoreFloat(o.result, reg)
StoresString(o) == IF o.assign THEN RegMemString(o.result, "rsi") \o StoreString(o.lhs, "rsi") ELSE <<>>

(* What makes a string from a string and another operand.                  *)
StringOperation(o, function, rhs, from) ==
    RegMemString(o.lhs, "rsi") \o rhs \o RegMemString(o.result, "rdi")
    \o ExternalFunctionCall(function, "*rdi", <<"*rsi">> \o from) \o StoresString(o)
=============================================================================
