----------------------------- MODULE MCOptimizer -----------------------------
(* The trees every rule of the optimizer is tried on.                      *)
EXTENDS Optimized

N(type, kids) == [lit |-> Literal(type), kids |-> kids]

L(a) == [lit |-> a, kids |-> <<>>]

Named(type, name) == L([Literal(type) EXCEPT !.s = <<name>>])

x == Named("IDENTIFIER", "x")
y == Named("IDENTIFIER", "y")
f == Named("CALL", "f")
g == Named("CALL", "g")

(* The heap of a tree, under the holder.                                   *)
RECURSIVE Place(_, _, _)
Place(h, tree, up) ==
    LET n == Len(h) + 1
        kid(r, k) == [r EXCEPT !.h = Place(r.h, k, n), !.kids = Append(@, Len(r.h) + 1)]
        r == FoldLeft(kid, [h |-> Append(h, [lit |-> tree.lit, kids |-> <<>>, up |-> up]), kids |-> <<>>],
                      tree.kids)
    IN  [r.h EXCEPT ![n].kids = r.kids]

Heap(tree) == Place(<<[lit |-> Literal("PROGRAM"), kids |-> <<2>>, up |-> 0]>>, tree, 1)

AllOnes == L(IntegerOf(2^Width - 1))
Minus == L(IntegerOf(-1))
Zero == L(IntegerOf(0))
True == L(Bool(TRUE))
False == L(Bool(FALSE))
NaN == L(NotANumber)

Constants == {Minus, Zero, L(IntegerOf(3)), L(IntegerOf(6)), L(Finite(1)), NaN, L(Text(<<>>)), L(Text(<<"a">>)),
              L(Text(<<"2">>)), True, False, L(Literal("NULL")), L(Undefined)}

BinaryTypes ==
    {"SUBTRACT", "MULTIPLY", "DIVIDE", "MODULO", "POWER", "BITWISE_AND", "BITWISE_OR", "BITWISE_XOR",
     "SHIFT_LEFT", "SHIFT_RIGHT", "SHIFT_RIGHT_UNSIGNED", "ROTATE_LEFT", "ROTATE_RIGHT", "EQUAL",
     "NOT_EQUAL", "STRICTLY_EQUAL", "STRICTLY_NOT_EQUAL", "LESS", "LESS_EQUAL", "GREATER",
     "GREATER_EQUAL", "COMPARE", "SMART_MATCH", "LOGICAL_AND", "LOGICAL_OR", "LOGICAL_XOR", "MAXIMUM",
     "MINIMUM", "ADD"}

Spaced == {L(Text(<<" ", "a">>)), L(Text(<<"a", " ", " ", "b", " ">>)), L(Text(<<"2", " ", "a">>)), L(Text(<<" ">>))}

Folding ==
    {N(op, <<a, b>>) : op \in BinaryTypes, a \in Constants, b \in Constants}
    \union {N("SMART_MATCH", <<a, b>>) : a \in Spaced, b \in Constants \union Spaced}
    \union {N(op, <<a, L([Literal("REGULAR_EXPRESSION") EXCEPT !.s = <<r>>])>>) :
               op \in {"MATCH", "NOT_MATCH"}, a \in Constants, r \in {"a", " "}}

(* With a variable or a call on a side; a double that is not in the range  *)
(* of an unsigned integer is not converted to one.                         *)
Unknowns == {x, f, N("ADD", <<x, f>>)}

Mixed ==
    {N(op, s) : op \in {"SUBTRACT", "MULTIPLY", "DIVIDE", "MODULO", "POWER", "BITWISE_AND", "BITWISE_XOR",
                        "LOGICAL_AND", "LOGICAL_OR"},
                s \in {<<a, b>> : a \in Unknowns, b \in {AllOnes, Zero, NaN, L(Finite(0))}}
                      \union {<<b, a>> : a \in Unknowns, b \in {AllOnes, Zero, NaN, L(Finite(0))}}}

UnaryTypes == {"LOGICAL_NOT", "BITWISE_NOT", "SUBTRACT", "ADD"}

Chains ==
    {N(op1, <<N(op2, <<N(op3, <<a>>)>>)>>) : op1, op2, op3 \in UnaryTypes, a \in {x, f, Zero, True}}

Nested ==
    {N(op1, <<N(op2, <<a, b>>), c>>) :
        op1, op2 \in {"ADD", "SUBTRACT", "MULTIPLY", "BITWISE_AND", "BITWISE_XOR", "SHIFT_LEFT", "LESS"},
        a \in {x, Minus}, b \in {AllOnes, Zero}, c \in {x, Minus}}

Assigned ==
    {N("ASSIGNMENT", <<x, a>>) : a \in {x, y, f}}
    \union {N(op, <<x, a>>) : op \in DOMAIN Assignments, a \in {NaN, Zero, y}}

Conditions == {True, Zero, y, N("LOGICAL_NOT", <<y>>), N("LOGICAL_NOT", <<N("LOGICAL_NOT", <<y>>)>>), f}

Logic ==
    {N("LOGICAL_OR", <<N("LOGICAL_AND", <<a, b>>), c>>) : a, b, c \in {x, f, True, Zero}}
    \union {N("CONDITIONAL", <<c, a, b>>) : c \in Conditions, a, b \in {x, g}}

List(s) == N("DIRECTIVE_LIST", s)

Bodies == {List(<<g>>), List(<<N("BREAK", <<>>)>>), List(<<List(<<g, f>>)>>),
           List(<<N("IF", <<False, List(<<g>>)>>), f>>), List(<<N("ASSIGNMENT", <<y, Zero>>)>>)}

Loops ==
    {N("WHILE", <<c, b>>) : c \in Conditions, b \in Bodies}
    \union {N("DO", <<b, c>>) : c \in Conditions, b \in Bodies}
    \union {N("FOR", <<f, c, g, b>>) : c \in Conditions, b \in Bodies}

Blocks ==
    {N("IF", <<c, a>>) : c \in Conditions, a \in Bodies}
    \union {N("IF", <<c, a, b>>) : c \in Conditions, a \in Bodies, b \in Bodies}
    \union {List(<<a, b>>) : a \in Bodies, b \in Bodies \union Loops}

MCTrees ==
    {Heap(t) : t \in Folding \union Mixed \union Chains \union Nested \union Assigned \union Logic
                     \union Loops \union Blocks}

LogicTrees == {Heap(t) : t \in Logic}

(* What x, y, f and g are worth.                                           *)
MCEnvironments ==
    {(<<"x">> :> a) @@ (<<"y">> :> b) @@ (<<"f">> :> c) @@ (<<"g">> :> IntegerOf(2)) :
        a \in {IntegerOf(0), IntegerOf(2), Text(<<"a">>), Undefined},
        b \in {IntegerOf(0), Bool(TRUE)}, c \in {IntegerOf(0), Finite(1)}}
=============================================================================
