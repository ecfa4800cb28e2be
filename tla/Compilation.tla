----------------------------- MODULE Compilation -----------------------------
(***************************************************************************)
(* A script goes through flatten_nodes and binary_assembler, and the       *)
(* processor runs what they make of it.                                    *)
(*                                                                         *)
(* A value is the term that computes it: <<"add", <<"i">>, <<"1">>>> is    *)
(* what i held at first plus one.  A condition is true or false, which the *)
(* first test of its term decides, and the bits of a double are chosen     *)
(* when an instruction depends on them.                                    *)
(***************************************************************************)
EXTENDS Generators, Meaning

CONSTANTS Scripts,    \* sequences of nodes
          Variables,  \* the data of the variables the scripts declare
          DoubleBits, \* the bits a double may have, see Floats
          LiteralBits \* the bits of the literals, by term

VARIABLES script,   \* [nodes |-> ..., where |-> where its temporaries are]
          phase,
          flat,     \* flatten_nodes
          next,     \* the operation to generate
          code,     \* the instructions
          pc,
          memory,   \* the registers, the variables and the temporaries
          truth,    \* the conditions that were tested
          bits,     \* the doubles whose bits were inspected
          inspected \* by which instruction, with which doubles

vars == <<script, phase, flat, next, code, pc, memory, truth, bits, inspected>>

Registers == {"rax", "rcx", "rdx", "rsi", "rdi", "r11", "xmm0", "xmm1", "xmm2", "flags"}

Garbage == <<"garbage">>

Init ==
    /\ script \in [nodes : Scripts, where : {"near", "far"}]
    /\ phase = "flatten"
    /\ flat = NewFlat(Variables, script.where)
    /\ next = 1 /\ code = <<>> /\ pc = 0 /\ memory = <<>> /\ truth = <<>>
    /\ bits = LiteralBits /\ inspected = {}
-----------------------------------------------------------------------------
FlattenScript ==
    /\ phase = "flatten"
    /\ LET s == DirectiveList(flat, script.nodes)
       IN  /\ flat' = IF s.operations = <<>> THEN [s EXCEPT !.refused = TRUE] ELSE Run(s)
           /\ phase' = IF flat'.refused THEN "refused" ELSE "generate"
    /\ code' = Prologue(flat'.variables)
    /\ UNCHANGED <<script, next, pc, memory, truth, bits, inspected>>

Refuses(instructions) == \E i \in DOMAIN instructions : instructions[i].kind = "throw"

Generate ==
    /\ phase = "generate" /\ next <= Len(flat.operations)
    /\ LET new == GenerateOperation(flat.operations[next])
       IN  /\ phase' = IF Refuses(new) THEN "refused" ELSE phase
           /\ code' = code \o new
    /\ next' = next + 1
    /\ UNCHANGED <<script, flat, pc, memory, truth, bits, inspected>>

(* The run-time gives the table of its functions in rdi.                   *)
StartMemory ==
    LET names == {d.name : d \in flat.variables} \union {"%extern_functions"}
        externs == {d.name : d \in {v \in flat.variables : v.where # "near" /\ v.where # "far"}}
    IN  [p \in names \union Registers \union {"mxcsr"} |->
            CASE p = "rdi"                           -> <<"functions">>
              [] p = "mxcsr"                         -> <<"nearest">>
              [] p \in externs                       -> <<p>>
              [] OTHER                               -> Garbage]

Start ==
    /\ phase = "generate" /\ next > Len(flat.operations)
    /\ code' = code \o Epilogue(flat.variables)
    /\ phase' = "run" /\ pc' = 1 /\ memory' = StartMemory
    /\ UNCHANGED <<script, flat, next, truth, bits, inspected>>
-----------------------------------------------------------------------------
Pointed == [x \in {"*rdi", "*rsi", "*rdx"} |->
               CASE x = "*rdi" -> "rdi" [] x = "*rsi" -> "rsi" [] x = "*rdx" -> "rdx"]

IsNumericTemporary(name) ==
    \E d \in flat.variables : d.name = name /\ IsTemporary(d) /\ d.type \in Numeric

(* What the library finds at an address: a temporary of eight bytes is not *)
(* a variable; one of twenty-four is when it was saved as such.            *)
Content(pointer) ==
    IF pointer[1] # "&" THEN Garbage
    ELSE LET name == pointer[2][1]
         IN  CASE name \notin DOMAIN memory       -> <<name>>
               [] memory[name][1] = "variable"   -> memory[name][2]
               [] IsNumericTemporary(name)       -> Garbage
               [] OTHER                          -> memory[name]

(* The items of an array are addresses.                                    *)
Items(value) ==
    IF value[1] # "array" THEN value
    ELSE [i \in DOMAIN value |-> IF i = 1 THEN "array" ELSE Content(value[i])]

Value(place) ==
    CASE place \in DOMAIN Pointed -> Items(Content(memory[Pointed[place]]))
      [] place \in DOMAIN memory  -> memory[place]
      [] OTHER                    -> <<place>>

Values(places) == [i \in DOMAIN places |-> Value(places[i])]

Now == code[pc]

Running == phase = "run"

To(place) == IF place \in DOMAIN Pointed THEN memory[Pointed[place]][2][1] ELSE place

Move ==
    /\ Running /\ Now.kind = "mov"
    /\ memory' = [memory EXCEPT ![Now.to] = Value(Now.from[1])]
    /\ pc' = pc + 1
    /\ UNCHANGED <<script, phase, flat, next, code, truth, bits, inspected>>

LoadAddress ==
    /\ Running /\ Now.kind = "lea"
    /\ memory' = [memory EXCEPT ![Now.to] = <<"&", <<Now.from[1]>>>>]
    /\ pc' = pc + 1
    /\ UNCHANGED <<script, phase, flat, next, code, truth, bits, inspected>>

(* The doubles whose bits decide what an instruction computes: those of an *)
(* almost equal, of a difference whose sign is taken, and the one compared *)
(* with the smallest NaN.                                                  *)
AgainstNan(flags) == flags[1] = "cmp" /\ flags[3] = <<"nan_exponent_x2">>

Inspected(op, v) ==
    LET doubles == CASE op = "almost_equal"              -> v
                     [] op = "sign" /\ v[1][1] = "subsd" -> Tail(v[1])
                     [] op = "cmovg" /\ AgainstNan(v[3]) -> <<v[1][2]>>
                     [] OTHER                            -> <<>>
    IN  IF Garbage \in Range(doubles) THEN <<>> ELSE doubles

Flagged == [sete |-> "equal", setne |-> "different", setl |-> "less", setle |-> "at most",
            setg |-> "greater", setge |-> "at least", compare |-> "order"]

Masks == [cmpeqsd |-> "equal doubles", cmpltsd |-> "less doubles", cmplesd |-> "at most doubles",
          cmpneqsd |-> "different doubles"]

BitsOfBooleans == [and |-> "both", or |-> "either", xor |-> "one of"]

(* The terms that are 0 or 1.                                              *)
IsBoolean(v) ==
    \/ v[1] \in Range(Flagged) \union Range(Masks) \union Range(BitsOfBooleans)
                \union {"is zero", "strings_compare", "true", "false"}
    \/ \E d \in Variables : d.type = "Boolean" /\ v = <<d.name>>

(* What an instruction computes from values, b being the bits known.       *)
Computed(op, v, b) ==
    LET doubles == Inspected(op, v)
        p == b[doubles[1]]
        q == b[doubles[2]]
    IN
    CASE op = "almost_equal" /\ doubles # <<>> -> Truth(AlmostEqualSequence(p, q))
      [] op = "sign" /\ doubles # <<>>         -> <<SignOfDifference(p, q)>>
      [] op = "cmovg" /\ doubles # <<>>        ->
             IF Signed(Doubled(p)) > Signed(NanExponentX2) THEN v[2] ELSE v[1]
      [] op \in {"cmovl", "cmovg"} /\ v[3] = <<"cmp", v[1], v[2]>> ->
             <<IF op = "cmovl" THEN "larger" ELSE "smaller", v[1], v[2]>>
      [] op = "setz" /\ v[1] = <<"0">> -> Truth(TRUE)
      [] op = "setz" /\ v[1][1] = "add" /\ v[1][2] = v[1][3] /\ v[1][2] \in DOMAIN b ->
             Truth(Doubled(b[v[1][2]]) = 0)
      [] op = "setz"                                           -> <<"is zero", v[1]>>
      [] op \in DOMAIN Flagged /\ v[1][1] = "cmp"              -> <<Flagged[op], v[1][2], v[1][3]>>
      [] op = "shr63" /\ v[1][1] \in DOMAIN Masks              -> <<Masks[v[1][1]], v[1][2], v[1][3]>>
      [] op \in DOMAIN BitsOfBooleans /\ \A x \in Range(v) : IsBoolean(x) -> <<BitsOfBooleans[op]>> \o v
      [] op = "CVT2I"                                          ->
             <<IF v[2] = <<"truncate">> THEN "truncated" ELSE "rounded", v[1]>>
      [] OTHER                                                 -> <<op>> \o v

Compute ==
    /\ Running /\ Now.kind = "do"
    /\ LET v       == Values(Now.from)
           doubles == Inspected(Now.op, v)
       IN  /\ \E found \in [Range(doubles) \ DOMAIN bits -> DoubleBits] :
                 /\ bits' = bits @@ found
                 /\ memory' = [memory EXCEPT ![Now.to] = Computed(Now.op, v, bits')]
           /\ inspected' = IF doubles = <<>> THEN inspected
                           ELSE inspected \union {[by |-> Now.op, of |-> doubles]}
    /\ pc' = pc + 1
    /\ UNCHANGED <<script, phase, flat, next, code, truth>>

(* The functions of the library, which may change these registers.         *)
Returned(function, from) ==
    CASE function = "strings_initialize"             -> <<"">>
      [] function \in {"strings_free", "array_free"} -> Garbage
      [] function = "strings_copy"                   -> Value(from[1])
      [] function = "array_initialize"               -> <<"array">>
      [] function = "array_push"                     -> Append(Content(memory["rdi"]), memory["rsi"])
      [] OTHER                                       -> <<function>> \o Values(from)

CallFunction ==
    /\ Running /\ Now.kind = "call"
    /\ LET to       == To(Now.to)
           returned == Returned(Now.op, Now.from)
       IN  memory' = [p \in DOMAIN memory |-> CASE p = to           -> returned
                                                [] p \in Registers -> Garbage
                                                [] OTHER           -> memory[p]]
    /\ pc' = pc + 1
    /\ UNCHANGED <<script, phase, flat, next, code, truth, bits, inspected>>

LabelAt(label) == CHOOSE i \in DOMAIN code : code[i].kind = "label" /\ code[i].to = label

Jump ==
    /\ Running /\ Now.kind = "jump"
    /\ pc' = LabelAt(Now.to)
    /\ UNCHANGED <<script, phase, flat, next, code, memory, truth, bits, inspected>>

PassLabel ==
    /\ Running /\ Now.kind = "label"
    /\ pc' = pc + 1
    /\ UNCHANGED <<script, phase, flat, next, code, memory, truth, bits, inspected>>

(* A condition keeps the truth its first test finds.                       *)
Branch ==
    /\ Running /\ Now.kind = "if"
    /\ LET tested == memory["flags"]
       IN  \E true \in IF tested \in DOMAIN truth THEN {truth[tested]} ELSE BOOLEAN :
              /\ truth' = (tested :> true) @@ truth
              /\ pc' = IF true <=> Now.op = "jne" THEN LabelAt(Now.to) ELSE pc + 1
    /\ UNCHANGED <<script, phase, flat, next, code, memory, bits, inspected>>

Return ==
    /\ Running /\ Now.kind = "return"
    /\ phase' = "done"
    /\ UNCHANGED <<script, flat, next, code, pc, memory, truth, bits, inspected>>

Next == \/ FlattenScript \/ Generate \/ Start
        \/ Move \/ LoadAddress \/ Compute \/ CallFunction \/ Jump \/ PassLabel \/ Branch \/ Return

Spec == Init /\ [][Next]_vars
-----------------------------------------------------------------------------
(* What the assembler is known to get wrong, by operation.                 *)

(* An integer is compared with a literal: the literal is moved in the      *)
(* register which holds the integer.                                       *)
ComparesWithLiteral(o) ==
    /\ o.op \in DOMAIN SetCode /\ o.rhs.kind = "INTEGER"
    /\ TypeOf(o.lhs) \in {"Integer", "Boolean"}

(* The operands read through the SSE registers to have an integer, and     *)
(* those read to have a double.                                            *)
IntegerReads(o) ==
    CASE o.op \in Shifts    -> (IF o.type = "Double" THEN {o.lhs} ELSE {})
                               \union (IF o.type = "String" \/ TypeOf(o.rhs) = "Double" THEN {o.rhs} ELSE {})
      [] o.op \in Bits      -> IF o.type = "Double" THEN {o.lhs, o.rhs} ELSE {}
      [] o.op = "ARRAY"     -> IF o.rhs.kind = "IDENTIFIER" THEN {} ELSE {o.rhs}
      [] o.op = "CLZ32"     -> {o.lhs}
      [] o.op = "IMUL"      -> {o.lhs, o.rhs}
      [] OTHER              -> {}

DoubleReads(o) ==
    CASE o.op \in DOMAIN SetCode -> IF "Double" \in {TypeOf(o.lhs), TypeOf(o.rhs)} THEN {o.lhs, o.rhs} ELSE {}
      [] o.op = "CALL"           -> IF TypeOf(o.lhs) = "Double" THEN {o.lhs} ELSE {}
      [] o.op = "LIST"           -> IF o.type = "Double" THEN {Last(o.params)} ELSE {}
      [] o.op \in {"ASSIGNMENT", "IDENTITY", "NEGATE", "PARAM", "ARRAY"} \/ IntegerReads(o) # {} -> {}
      [] OTHER                   -> IF o.type = "Double" THEN {o.lhs, o.rhs} \union Range(o.params) ELSE {}

(* The operand which is loaded before the others, without a conversion.    *)
Loaded(o) ==
    IF o.op = "HYPOT" \/ o.op \in DOMAIN MathCode THEN NoData
    ELSE IF o.lhs = NoData /\ o.params # <<>> THEN o.params[1] ELSE o.lhs

InTemporary(d, types) == IsTemporary(d) /\ ~d.full /\ d.type \in types

(* A temporary is never converted, and never read when it is far.          *)
Misreads(o) ==
    \/ \E d \in IntegerReads(o) : InTemporary(d, {"Integer", "Double"})
    \/ \E d \in DoubleReads(o) : InTemporary(d, {"Integer"})
                                 \/ (InTemporary(d, {"Double"}) /\ d.where = "far")
    \/ Loaded(o) \in DoubleReads(o) /\ Loaded(o).where = "extern" /\ Loaded(o).type = "Integer"

(* A parameter of eight bytes is not a variable.                           *)
PassesRawValue(o) == o.op = "CALL" /\ \E d \in Range(Tail(o.params)) : InTemporary(d, {"Integer", "Double"})

(* A double variable is rounded to an integer, where a literal and         *)
(* imul() cut it.                                                          *)
RoundsOperand(o) ==
    o.op # "IMUL" /\ \E d \in IntegerReads(o) : d.where = "extern" /\ d.type = "Double"

(* A number is stored in a variable of the other type as it is.            *)
StoresRawNumber(o) ==
    /\ o.op = "ASSIGNMENT" /\ o.rhs # NoData
    /\ {o.type, TypeOf(o.rhs)} = {"Integer", "Double"}

(* The range of a string is taken for its start.                           *)
IgnoresRange(o) == o.op = "ARRAY" /\ o.params # <<>>

(* A variable is changed by a later operand of the operator that reads it. *)
Changes(n, name) == (n.op \in DOMAIN Negated \/ n.assign \/ n.op = "ASSIGNMENT") /\ n.kids[1].name = name

ReadsVariable(n) == IF n.op = "LIST" THEN Last(n.kids) ELSE n

ReadsLate(n) ==
    /\ n.op # "LIST"
    /\ \E i, j \in DOMAIN n.kids :
           LET v == ReadsVariable(n.kids[i])
           IN  i < j /\ v.op = "IDENTIFIER" /\ Changes(n.kids[j], v.name)

(* The last directive has no value of its own: it is a variable, or a list *)
(* which ends with one.  The result is the one of another operation, or    *)
(* the variable itself is taken for the result.                            *)
LosesResult(n) == ReadsVariable(n).op = "IDENTIFIER"

(* The signed comparison takes the doubles from 0.0 to 2.0, whatever their *)
(* sign, for NaNs: ! finds them false.                                     *)
NegatesSmall(p) == ~IsZero(p) /\ ~IsInfinite(p) /\ Absolute(p) < Two

(* <=> finds an order where there is none, and one between an infinity and *)
(* itself, and between -0.0 and 0.0.                                       *)
OrdersEqual(p, q) == IsNaN(p) \/ IsNaN(q) \/ (IsInfinite(p) /\ p = q) \/ (p = SignBit /\ q = 0)

(* Two nearly equal doubles without a common bit, as those just below 2.0  *)
(* and 2.0, are taken for one which is zero; the quotient of infinities    *)
(* for one below the epsilon.                                              *)
MissesNearlyEqual(p, q) ==
    /\ ~IsNaN(p) /\ ~IsNaN(q) /\ Number(p) # Number(q)
    /\ IF ShareBits(p, q) THEN IsInfinite(p) \/ IsInfinite(q) ELSE NearlyEqual(p, q)

MistakesBits(x) ==
    CASE x.by = "cmovg" -> NegatesSmall(bits[x.of[1]])
      [] x.by = "sign"  -> OrdersEqual(bits[x.of[1]], bits[x.of[2]])
      [] OTHER          -> MissesNearlyEqual(bits[x.of[1]], bits[x.of[2]])

WrongOperation ==
    \/ \E o \in Range(flat.operations) : \/ ComparesWithLiteral(o) \/ Misreads(o) \/ PassesRawValue(o)
                                         \/ RoundsOperand(o) \/ StoresRawNumber(o) \/ IgnoresRange(o)
    \/ \E n \in Range(script.nodes) : ReadsLate(n)
    \/ LosesResult(Last(script.nodes))

Miscompiled == WrongOperation \/ \E x \in inspected : MistakesBits(x)

(* What it refuses: the comparison with a literal double, a shift by one,  *)
(* the right side of && and || when it is computed, a literal as one case  *)
(* of a conditional, a Range as an index, and a script that ends with a    *)
(* conditional or has no operation.                                        *)
RefusesOperation(o) ==
    \/ /\ o.op \in DOMAIN SsePredicate /\ "Double" \in {TypeOf(o.lhs), TypeOf(o.rhs)}
       /\ (IF o.op \in Swapped THEN o.lhs ELSE o.rhs).kind \in Literals
    \/ o.op \in Shifts /\ o.rhs.kind = "FLOATING_POINT"
    \/ o.op \in {"LOGICAL_AND", "LOGICAL_OR", "LOGICAL_XOR"} /\ o.rhs.where # "extern"
    \/ o.op = "ASSIGNMENT" /\ o.lhs.kind \in Literals
    \/ o.op = "ARRAY" /\ TypeOf(o.rhs) = "Range"

Unsupported ==
    \/ flat.operations = <<>>
    \/ \E n \in Range(script.nodes) : n.op \in NotYetImplemented
    \/ Last(flat.operations).op = "LABEL"
    \/ \E o \in Range(flat.operations) : RefusesOperation(o)
-----------------------------------------------------------------------------
(* A script leaves in its result and in its variables what its nodes mean, *)
(* for every value of the variables and whatever the registers and the     *)
(* temporaries its operations share, except for the operations listed      *)
(* above.  Those do go wrong, but that a test of the bits may find the     *)
(* same of another double.                                                 *)
Meant == EvaluateScript(script.nodes, [n \in {d.name : d \in Variables} |-> <<n>>],
                        [truth |-> truth, bits |-> bits])

Obtained == /\ memory["%result"] = Meant.v
            /\ \A d \in Variables : d.name \in DOMAIN memory /\ memory[d.name] = Meant.env[d.name]

Computes ==
    phase = "done" => \/ Obtained <=> ~Miscompiled
                      \/ WrongOperation /\ inspected # {}

(* Nothing else is refused.                                                *)
CompilesAll == (phase = "refused" => Unsupported) /\ (phase = "done" => ~Unsupported)

OwnedNames == {d.name : d \in {v \in flat.variables : IsTemporary(v) /\ v.type \in {"String", "Array"}}}

(* A temporary string is initialized once, before any function writes it,  *)
(* and freed once; a function which frees is never given a number.         *)
StringsOwned ==
    /\ Running /\ Now.kind = "call" /\ Now.to = "*rdi" =>
           LET to == To("*rdi")
           IN  CASE Now.op = "strings_initialize" -> memory[to] = Garbage
                 [] Now.op = "strings_free"       -> memory[to][1] \notin {"garbage", "variable"}
                 [] Now.op = "array_initialize"   -> memory[to] = Garbage
                 [] OTHER                         -> to \in OwnedNames => memory[to] # Garbage
    /\ phase = "done" => \A d \in flat.variables :
           d.name \in OwnedNames => memory[d.name][1] \in {"garbage", "variable"}
=============================================================================
