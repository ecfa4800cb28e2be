--------------------------- MODULE MCCompilation ---------------------------
(***************************************************************************)
(* Scripts of one directive, or two: every operator on variables, literals *)
(* and the results of other operators.                                     *)
(***************************************************************************)
EXTENDS Compilation

N(op, type, name, kids) == [op |-> op, type |-> type, name |-> name, assign |-> FALSE, kids |-> kids]
Leaf(op, type, name) == N(op, type, name, <<>>)
Var(type, name) == Leaf("IDENTIFIER", type, name)
Stored(n) == [n EXCEPT !.assign = TRUE]

I == Var("Integer", "i")
J == Var("Integer", "j")
X == Var("Double", "x")
Y == Var("Double", "y")
S == Var("String", "s")
T == Var("String", "t")
B == Var("Boolean", "b")
C == Var("Boolean", "c")
R == Var("Range", "r")
One  == Leaf("INTEGER", "Integer", "1")
Big  == Leaf("INTEGER", "Integer", "big")
Literal == Leaf("FLOATING_POINT", "Double", "1.75")
Word == Leaf("STRING", "String", "word")

MCVariables == {Data("VARIABLE", v.type, v.name, "extern", FALSE, FALSE) : v \in {I, J, X, Y, S, T, B, C, R}}

(* Zeros, a tiny number, 1.0, 1.75, numbers around 2.0, an infinity and    *)
(* NaNs, of both signs.                                                    *)
MCDoubleBits == {0, 32, 3, 12, 15, 16, 48, 28, 60, 29, 61}

MCLiteralBits == (<<"1.0">> :> 12) @@ (<<"1.75">> :> 15)

Op(ops, type, left, right) == {N(op, type, "", <<l, r>>) : op \in ops, l \in left, r \in right}
Op1(ops, type, kids) == {N(op, type, "", <<k>>) : op \in ops, k \in kids}
Math(name, type, kids) == N("MATH", type, name, kids)
Call(name, type, kids) == N("CALL", type, name, kids)

Arithmetic == {"ADD", "SUBTRACT", "MULTIPLY", "DIVIDE", "MODULO", "MAXIMUM", "MINIMUM", "POWER"}
ShiftOps == {"SHIFT_LEFT", "ROTATE_RIGHT"}
Compares == {"ALMOST_EQUAL", "COMPARE", "EQUAL", "LESS", "LESS_EQUAL", "GREATER", "GREATER_EQUAL", "NOT_EQUAL"}
Steps == {"INCREMENT", "POST_DECREMENT"}
CompareType(op) == IF op = "COMPARE" THEN "Integer" ELSE "Boolean"

(* One operator.                                                           *)
Integers(l, r) == Op(Arithmetic \union {"BITWISE_AND", "BITWISE_XOR"} \union ShiftOps, "Integer", l, r)
Doubles(l, r)  == Op(Arithmetic \union {"BITWISE_OR"} \union ShiftOps, "Double", l, r)
Comparisons(l, r) == UNION {Op({op}, CompareType(op), l, r) : op \in Compares}

SmallInteger == {N("ADD", "Integer", "", <<I, One>>), N("POST_INCREMENT", "Integer", "", <<J>>)}
SmallDouble  == {N("MULTIPLY", "Double", "", <<X, Literal>>)}
SmallString  == {N("ADD", "String", "", <<S, Word>>)}
SmallBoolean == {N("LESS", "Boolean", "", <<I, J>>)}
DoubleBoolean == {N("LESS", "Boolean", "", <<X, Y>>)}

IntegerOps == Integers({I} \union SmallInteger, {J, One, Big} \union SmallInteger)
DoubleOps  == Doubles({X} \union SmallDouble, {Y, One, Literal} \union SmallDouble)
CompareOps == Comparisons({I} \union SmallInteger, {J, One} \union SmallInteger)
              \union Comparisons({X} \union SmallDouble, {Y, One, Literal} \union SmallDouble)
              \union Comparisons({S} \union SmallString, {T, Word})

(* What stores in its left side, or in its operand.                        *)
Assignments ==
    {Stored(n) : n \in Op({"ADD", "MULTIPLY", "DIVIDE", "MODULO", "BITWISE_AND", "POWER", "MAXIMUM",
                           "SHIFT_LEFT"}, "Integer", {I}, {J} \union SmallInteger)
                  \union Op({"ADD", "MULTIPLY", "DIVIDE", "MODULO", "BITWISE_OR", "POWER", "MINIMUM",
                             "ROTATE_RIGHT"}, "Double", {X}, {Y, Literal} \union SmallDouble)
                  \union Op({"ADD"}, "String", {S}, {T, Word} \union SmallString)
                  \union Op({"LOGICAL_AND", "LOGICAL_XOR"}, "Boolean", {B}, {C})}
    \union Op({"ASSIGNMENT"}, "Integer", {I}, {J, Big} \union SmallInteger)
    \union Op({"ASSIGNMENT"}, "Double", {X}, {Y, Literal} \union SmallDouble)
    \union Op({"ASSIGNMENT"}, "String", {S}, {T, Word} \union SmallString)
    \union Op({"ASSIGNMENT"}, "Boolean", {B}, {C} \union SmallBoolean)

Unaries ==
    Op1(Increments \union {"DECREMENT", "POST_DECREMENT"}, "Integer", {I})
    \union Op1(Increments \union {"DECREMENT", "POST_DECREMENT"}, "Double", {X})
    \union Op1({"ADD", "SUBTRACT", "BITWISE_NOT"}, "Integer", {I} \union SmallInteger)
    \union Op1({"ADD", "SUBTRACT", "BITWISE_NOT"}, "Double", {X} \union SmallDouble)
    \union Op1({"ADD", "BITWISE_NOT"}, "String", {S} \union SmallString)
    \union Op1({"LOGICAL_NOT"}, "Boolean", {B, I, X, S} \union SmallBoolean \union SmallInteger
                                                        \union SmallDouble \union SmallString)

Strings ==
    Op({"ADD", "SUBTRACT", "MAXIMUM"}, "String", {S} \union SmallString, {T, Word} \union SmallString)
    \union Op({"MULTIPLY", "SHIFT_LEFT", "ROTATE_RIGHT", "ARRAY"}, "String", {S}, {I, One} \union SmallInteger)
    \union Op({"ARRAY"}, "String", {S} \union SmallString, {X} \union SmallDouble)
    \union {N("MEMBER", "Integer", "length", <<n>>) : n \in {S} \union SmallString}

Logicals ==
    Op({"LOGICAL_AND", "LOGICAL_OR", "LOGICAL_XOR"}, "Boolean", {B} \union SmallBoolean \union DoubleBoolean,
       {C} \union SmallBoolean)

Constants == {N("MEMBER", type, "MAX_VALUE", <<Leaf("CLASS", type, type)>>) : type \in {"Integer", "Double"}}

MathCalls ==
    {Math("abs", "Integer", <<n>>) : n \in {I} \union SmallInteger}
    \union {Math("abs", "Double", <<n>>) : n \in {X, Literal} \union SmallDouble}
    \union {Math("sign", "Integer", <<n>>) : n \in {I} \union SmallInteger}
    \union {Math(f, "Double", <<n>>) : f \in {"floor", "sqrt"}, n \in {X, I, Literal, One} \union SmallDouble \union SmallInteger}
    \union {Math("sign", "Double", <<n>>) : n \in {X, Literal} \union SmallDouble}
    \union {Math("clz32", "Integer", <<n>>) : n \in {X, I, Literal} \union SmallDouble}
    \union {Math("random", "Double", <<>>)}
    \union {Math(f, "Double", k) : f \in {"min", "hypot"},
                                   k \in {<<>>, <<X>>, <<X, Y>>, <<X, I>>, <<I, X>>, <<X, Literal, Y>>, <<X, One>>}
                                         \union {<<n, Y>> : n \in SmallDouble} \union {<<X, n>> : n \in SmallInteger}}
    \union {Math("max", "Integer", k) : k \in {<<>>, <<I>>, <<I, J>>, <<I, One, J>>} \union {<<n, J>> : n \in SmallInteger}}
    \union {Math("pow", "Integer", <<n, J>>) : n \in {I} \union SmallInteger}
    \union {Math(f, "Double", <<n, m>>) : f \in {"atan2", "pow", "imul"}, n \in {X, Literal} \union SmallDouble, m \in {Y} \union SmallDouble}
    \union {Math("imul", "Double", <<I, J>>), Math("atan2", "Double", <<I, X>>)}

Calls ==
    {Call(f, "String", <<S, p>>) : f \in {"charAt"}, p \in {I, One} \union SmallInteger \union
                     {N("MEMBER", "Integer", "length", <<S>>), Math("abs", "Integer", <<I>>)}}
    \union {Call("indexOf", "Integer", <<S, p>>) : p \in {T, Word} \union SmallString}
    \union {Call("replace", "String", <<n, T, Word>>) : n \in {S} \union SmallString}
    \union {Call("concat", "String", <<S>>), Call("concat", "String", <<S, T, S>>), Call("trim", "String", <<S>>),
            Call("toString", "String", <<S>>), Call("valueOf", "Integer", <<I>>), Call("valueOf", "Double", <<X>>),
            Call("valueOf", "Boolean", <<B>>)}
    \union {Call("toString", "String", <<n>>) : n \in {B, I, X} \union SmallBoolean \union SmallInteger \union SmallDouble}
    \union {Call("toString", "String", <<I, J>>), Call("toString", "String", <<I, One>>),
            Call("toString", "String", <<X, I>>)}

Choose(type, c, a, b) == N("CONDITIONAL", type, "", <<c, a, b>>)

Conditionals ==
    {Choose("Integer", c, a, b) : c \in {B} \union SmallBoolean, a \in {I} \union SmallInteger, b \in {J, One}}
    \union {Choose("String", B, S, n) : n \in {T} \union SmallString}
    \union {Choose("Double", B, X, n) : n \in {Y} \union SmallDouble}

Lists ==
    {N("LIST", n.type, "", <<m, n>>) : m \in SmallInteger \union {I}, n \in {J, X, S, One} \union SmallInteger \union SmallDouble \union SmallString}

Expressions == IntegerOps \union DoubleOps \union CompareOps \union Assignments \union Unaries
               \union Strings \union Logicals \union Constants \union MathCalls \union Calls \union Lists
               \union Conditionals

(* Operators on what has a jump, stores, calls or chooses.                 *)
DeepIntegers == {Choose("Integer", B, I, J), Choose("Integer", B, CHOOSE n \in SmallInteger : n.op = "ADD", J),
                 Stored(N("ADD", "Integer", "", <<J, One>>)), Call("indexOf", "Integer", <<S, T>>),
                 Math("max", "Integer", <<I, J>>), N("LIST", "Integer", "", <<X, J>>),
                 N("MEMBER", "Integer", "length", <<S>>), N("SUBTRACT", "Integer", "", <<J>>)}
DeepDoubles  == {Choose("Double", C, X, Y), Stored(N("MULTIPLY", "Double", "", <<Y, Literal>>)), Math("floor", "Double", <<X>>),
                 Math("imul", "Double", <<X, Y>>), N("LIST", "Double", "", <<I, Y>>),
                 N("POST_INCREMENT", "Double", "", <<Y>>)}
DeepStrings  == {Choose("String", B, S, T), Stored(N("ADD", "String", "", <<T, Word>>)), Call("trim", "String", <<S>>),
                 Call("charAt", "String", <<T, One>>), N("LIST", "String", "", <<I, T>>),
                 Call("toString", "String", <<I, One>>), N("ARRAY", "String", "", <<S, One>>)}

DeepOps == Op({"ADD", "DIVIDE", "BITWISE_XOR", "SHIFT_LEFT", "POWER"}, "Integer", {I} \union DeepIntegers, DeepIntegers)
           \union Op({"SUBTRACT", "MODULO", "BITWISE_OR", "MINIMUM"}, "Double", {X} \union DeepDoubles, DeepDoubles)
           \union Op({"ADD", "MAXIMUM"}, "String", {S} \union DeepStrings, DeepStrings)
           \union Comparisons({J} \union DeepIntegers, DeepIntegers)
           \union Comparisons(DeepDoubles, {X} \union DeepDoubles)
           \union Comparisons({S} \union DeepStrings, DeepStrings)

(* Two directives.                                                         *)
Pairs == {<<m, n>> : m \in Assignments, n \in Unaries \union DeepIntegers \union DeepDoubles \union DeepStrings}
         \union {<<c, n>> : c \in Conditionals, n \in DeepStrings \union Constants}

MCScripts == {<<n>> : n \in Expressions \union DeepOps} \union Pairs
   \union {<<N("ADD", "Integer", "", <<I, N("POST_INCREMENT", "Integer", "", <<I>>)>>)>>}
   \union {<<N("NEW", "Object", "", <<>>)>>, <<I>>, <<>>}
   \union {<<N("ASSIGNMENT", v.type, "", <<v, n>>)>> : v \in {I, X}, n \in {I, X, One, Literal}}
   \union {<<N("ARRAY", "String", "", k)>> : k \in {<<S, R>>, <<S, R, R>>, <<S, I, J>>}}
   \union {<<c, J>> : c \in Conditionals \union Unaries}
=============================================================================
