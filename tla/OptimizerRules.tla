--------------------------- MODULE OptimizerRules ---------------------------
(***************************************************************************)
(* The tables of the optimizer.  A rule is a tree to match and functions   *)
(* to apply to the nodes it matched, which are numbered from 0 in the      *)
(* order of the pattern.                                                   *)
(*                                                                         *)
(* A pattern is [types |-> the types a node may have, any of them when     *)
(* empty, value |-> a condition on its value, kids |-> the patterns of its *)
(* children, leaf |-> its children do not matter].                         *)
(***************************************************************************)
EXTENDS Sequences

Numbers == {"INTEGER", "FLOATING_POINT"}

AnyLiteralTypes == Numbers \union {"FALSE", "NULL", "STRING", "TRUE", "UNDEFINED"}

TrueLiterals == Numbers \union {"STRING", "TRUE"}

FalseLiterals == Numbers \union {"FALSE", "NULL", "STRING", "UNDEFINED"}

ArithmeticAssignmentsExceptAdd ==
    {"ASSIGNMENT_DIVIDE", "ASSIGNMENT_MODULO", "ASSIGNMENT_MULTIPLY", "ASSIGNMENT_POWER",
     "ASSIGNMENT_SUBTRACT"}

MinmaxAssignments == {"ASSIGNMENT_MAXIMUM", "ASSIGNMENT_MINIMUM"}

BitwiseAssignments ==
    {"ASSIGNMENT_BITWISE_AND", "ASSIGNMENT_BITWISE_OR", "ASSIGNMENT_BITWISE_XOR",
     "ASSIGNMENT_ROTATE_LEFT", "ASSIGNMENT_ROTATE_RIGHT", "ASSIGNMENT_SHIFT_LEFT",
     "ASSIGNMENT_SHIFT_RIGHT", "ASSIGNMENT_SHIFT_RIGHT_UNSIGNED"}

Tree(types, kids) == [types |-> types, value |-> "", kids |-> kids, leaf |-> FALSE]

With(types, value) == [types |-> types, value |-> value, kids |-> <<>>, leaf |-> TRUE]

Is(types) == With(types, "")

Anything == Is({})

ALiteral == Is(AnyLiteralTypes)

ANumber == Is(Numbers)

NaNValue == With({"FLOATING_POINT"}, "nan")

TrueValue == With(TrueLiterals, "true")

FalseValue == With(FalseLiterals, "false")

Max32bit == With(Numbers, "max32bit")

(* One function: what it reads and writes are indexes of matched nodes.    *)
Do(f, i) == [f |-> f, i |-> i, type |-> ""]

SetNodeType(type) == [f |-> "SET_NODE_TYPE", i |-> <<0>>, type |-> type]

Rule(name, match, optimize) == [name |-> name, match |-> match, optimize |-> optimize]

Unary(type, a) == Tree({type}, <<a>>)

Binary(type, a, b) == Tree({type}, <<a, b>>)

Not(a) == Unary("LOGICAL_NOT", a)

(* The rules that compute an operator on two literals, and that keep a     *)
(* part of the tree.                                                       *)
Computed(name, match, f) == Rule(name, match, <<Do(f, <<1, 2, 0>>)>>)

Moved(name, match, from, to) == Rule(name, match, <<Do("MOVE", <<from, to>>)>>)
-----------------------------------------------------------------------------
(* The trees the tables match.                                             *)
MatchPositive == Unary("ADD", ALiteral)
MatchNegate == Unary("SUBTRACT", ALiteral)
MatchAPlusB == Binary("ADD", ANumber, ANumber)
MatchAMinusB == Binary("SUBTRACT", ANumber, ANumber)
MatchZeroMinusA == Binary("SUBTRACT", With(Numbers, "zero"), Anything)
MatchConcatenateAny == Binary("ADD", Is({"STRING"}), ALiteral)
MatchAnyConcatenate == Binary("ADD", ALiteral, Is({"STRING"}))

MatchAEqualA == Binary("ASSIGNMENT", Is({"IDENTIFIER"}), With({"IDENTIFIER"}, "identifier 1"))
MatchArithmeticEqualNaN == Tree(ArithmeticAssignmentsExceptAdd, <<Is({"IDENTIFIER"}), NaNValue>>)
MatchMinmaxEqualNaN == Tree(MinmaxAssignments, <<Is({"IDENTIFIER"}), NaNValue>>)
MatchBitwiseEqualNaN == Tree(BitwiseAssignments, <<Is({"IDENTIFIER"}), NaNValue>>)

MatchBitwiseNot == Unary("BITWISE_NOT", ALiteral)
MatchBitwiseNotNotNot == Unary("BITWISE_NOT", Unary("BITWISE_NOT", Unary("BITWISE_NOT", Anything)))
MatchAAndB == Binary("BITWISE_AND", ANumber, ANumber)
MatchAAndMax32bit == Binary("BITWISE_AND", Anything, Max32bit)
MatchMax32bitAndA == Binary("BITWISE_AND", Max32bit, Anything)
MatchAOrB == Binary("BITWISE_OR", ANumber, ANumber)
MatchAXorB == Binary("BITWISE_XOR", ANumber, ANumber)
MatchAXorMax32bit == Binary("BITWISE_XOR", Anything, Max32bit)
MatchMax32bitXorA == Binary("BITWISE_XOR", Max32bit, Anything)
MatchShiftLeft == Binary("SHIFT_LEFT", ANumber, ANumber)
MatchShiftRight == Binary("SHIFT_RIGHT", ANumber, ANumber)
MatchShiftRightUnsigned == Binary("SHIFT_RIGHT_UNSIGNED", ANumber, ANumber)
MatchRotateLeft == Binary("ROTATE_LEFT", ANumber, ANumber)
MatchRotateRight == Binary("ROTATE_RIGHT", ANumber, ANumber)

MatchCompare == Binary("COMPARE", ALiteral, ALiteral)

MatchTrueCondition == Tree({"CONDITIONAL"}, <<TrueValue, Anything, Anything>>)
MatchFalseCondition == Tree({"CONDITIONAL"}, <<FalseValue, Anything, Anything>>)
MatchMinimum == Binary("MINIMUM", ALiteral, ALiteral)
MatchMaximum == Binary("MAXIMUM", ALiteral, ALiteral)

MatchEqual == Binary("EQUAL", ALiteral, ALiteral)
MatchStrictlyEqual == Binary("STRICTLY_EQUAL", ALiteral, ALiteral)
MatchNotEqual == Binary("NOT_EQUAL", ALiteral, ALiteral)
MatchStrictlyNotEqual == Binary("STRICTLY_NOT_EQUAL", ALiteral, ALiteral)
MatchSmartMatch == Binary("SMART_MATCH", ALiteral, ALiteral)

MatchNotLiteral == Not(ALiteral)
MatchNotNotNot == Not(Not(Not(Anything)))
MatchTrueAndA == Binary("LOGICAL_AND", TrueValue, Anything)
MatchFalseAndA == Binary("LOGICAL_AND", FalseValue, Anything)
MatchAAndBOrC == Binary("LOGICAL_OR", Binary("LOGICAL_AND", Anything, Anything), Anything)
MatchTrueOrA == Binary("LOGICAL_OR", TrueValue, Anything)
MatchFalseOrA == Binary("LOGICAL_OR", FalseValue, Anything)
MatchLogicalXor == Binary("LOGICAL_XOR", ALiteral, ALiteral)
MatchIfNotNot == Tree({"IF", "WHILE"}, <<Not(Not(Anything)), Anything>>)
MatchIfNotElse == Tree({"IF"}, <<Not(Anything), Anything, Anything>>)
MatchForNotNot == Tree({"FOR"}, <<Anything, Not(Not(Anything)), Anything, Anything>>)
MatchConditionalNotNot == Tree({"CONDITIONAL"}, <<Not(Not(Anything)), Anything, Anything>>)

MatchAMatchB == Binary("MATCH", ALiteral, Is({"REGULAR_EXPRESSION"}))
MatchANotMatchB == Binary("NOT_MATCH", ALiteral, Is({"REGULAR_EXPRESSION"}))

(* An operator on two literals, and with NaN on its right and on its left. *)
NaNMatches(type) == <<Binary(type, ALiteral, ALiteral), Binary(type, With({}, "no side effects"), NaNValue),
                      Binary(type, NaNValue, With({}, "no side effects"))>>
MultiplyMatches == NaNMatches("MULTIPLY")
DivideMatches == NaNMatches("DIVIDE")
ModuloMatches == NaNMatches("MODULO")
PowerMatches == NaNMatches("POWER")

MatchLess == Binary("LESS", ALiteral, ALiteral)
MatchLessEqual == Binary("LESS_EQUAL", ALiteral, ALiteral)
MatchGreater == Binary("GREATER", ALiteral, ALiteral)
MatchGreaterEqual == Binary("GREATER_EQUAL", ALiteral, ALiteral)

MatchIfTrue == Tree({"IF"}, <<TrueValue, Anything>>)
MatchIfFalse == Tree({"IF"}, <<FalseValue, Anything>>)
MatchIfTrueElse == Tree({"IF"}, <<TrueValue, Anything, Anything>>)
MatchIfFalseElse == Tree({"IF"}, <<FalseValue, Anything, Anything>>)
MatchWhileTrue == Tree({"WHILE"}, <<TrueValue, Anything>>)
MatchWhileFalse == Tree({"WHILE"}, <<FalseValue, Anything>>)
MatchDoWhileTrue == Tree({"DO"}, <<Anything, TrueValue>>)
MatchDoWhileFalse == Tree({"DO"}, <<Anything, FalseValue>>)
MatchListOfList == Tree({"DIRECTIVE_LIST"}, <<Is({"DIRECTIVE_LIST"})>>)
-----------------------------------------------------------------------------
(* What each match is replaced with.                                       *)
ToOrZero(i) == <<Do("TO_INTEGER", <<i>>), Do("SET_INTEGER", <<i, 0>>), SetNodeType("BITWISE_OR")>>

XorToNot(i) == <<SetNodeType("BITWISE_NOT"), Do("REMOVE", <<i>>)>>

ToAssignmentAndSet == <<SetNodeType("ASSIGNMENT"), Do("TO_INTEGER", <<2>>), Do("SET_INTEGER", <<2, 0>>)>>

SwapBranches == <<Do("SWAP", <<3, 4>>), Do("MOVE", <<2, 1>>)>>

AdditiveTable ==
    <<Rule("+a", MatchPositive, <<Do("TO_NUMBER", <<1>>), Do("MOVE", <<1, 0>>)>>),
      Rule("-a", MatchNegate, <<Do("NEGATE", <<1, 0>>)>>),
      Computed("a+b", MatchAPlusB, "ADD"),
      Computed("a-b", MatchAMinusB, "SUBTRACT"),
      Moved("0-a", MatchZeroMinusA, 2, 1),
      Computed("string+b", MatchConcatenateAny, "CONCATENATE"),
      Computed("a+string", MatchAnyConcatenate, "CONCATENATE")>>

AssignmentsTable ==
    <<Moved("a=a", MatchAEqualA, 1, 0),
      Rule("a*=NaN", MatchArithmeticEqualNaN, <<SetNodeType("ASSIGNMENT")>>),
      Moved("a<?=NaN", MatchMinmaxEqualNaN, 1, 0),
      Rule("a&=NaN", MatchBitwiseEqualNaN, ToAssignmentAndSet)>>

BitwiseLogicRules ==
    <<Rule("~a", MatchBitwiseNot, <<Do("BITWISE_NOT", <<1, 0>>)>>),
      Moved("~~~a", MatchBitwiseNotNotNot, 3, 1),
      Computed("a&b", MatchAAndB, "BITWISE_AND"),
      Rule("a&max", MatchAAndMax32bit, ToOrZero(2)),
      Rule("max&a", MatchMax32bitAndA, ToOrZero(1)),
      Computed("a|b", MatchAOrB, "BITWISE_OR"),
      Computed("a^b", MatchAXorB, "BITWISE_XOR"),
      Rule("a^max", MatchAXorMax32bit, XorToNot(2)),
      Rule("max^a", MatchMax32bitXorA, XorToNot(1))>>

BitwiseShiftRules ==
    <<Computed("a<<b", MatchShiftLeft, "SHIFT_LEFT"),
      Computed("a>>b", MatchShiftRight, "SHIFT_RIGHT"),
      Computed("a>>>b", MatchShiftRightUnsigned, "SHIFT_RIGHT_UNSIGNED"),
      Computed("a<%b", MatchRotateLeft, "ROTATE_LEFT"),
      Computed("a>%b", MatchRotateRight, "ROTATE_RIGHT")>>

BitwiseTable == BitwiseLogicRules \o BitwiseShiftRules

CompareTable == <<Computed("a<=>b", MatchCompare, "COMPARE")>>

ConditionalTable ==
    <<Moved("true?a:b", MatchTrueCondition, 2, 0),
      Moved("false?a:b", MatchFalseCondition, 3, 0),
      Computed("a<?b", MatchMinimum, "MINIMUM"),
      Computed("a>?b", MatchMaximum, "MAXIMUM")>>

Inverted(name, match, f) == Rule(name, match, <<Do(f, <<2, 1, 0>>), Do("LOGICAL_NOT", <<0, 0>>)>>)

(* A mutant: the operands in their order.                                  *)
Unswapped(name, match, f) == Rule(name, match, <<Do(f, <<1, 2, 0>>)>>)

Swapped(name, match, f) == Rule(name, match, <<Do(f, <<2, 1, 0>>)>>)

EqualityTable ==
    <<Swapped("a==b", MatchEqual, "EQUAL"),
      Swapped("a===b", MatchStrictlyEqual, "STRICTLY_EQUAL"),
      Inverted("a!=b", MatchNotEqual, "EQUAL"),
      Inverted("a!==b", MatchStrictlyNotEqual, "STRICTLY_EQUAL"),
      Swapped("a~~b", MatchSmartMatch, "SMART_MATCH")>>

LogicalOperatorRules ==
    <<Rule("!a", MatchNotLiteral, <<Do("LOGICAL_NOT", <<1, 0>>)>>),
      Moved("!!!a", MatchNotNotNot, 2, 0),
      Moved("true&&a", MatchTrueAndA, 2, 0),
      Moved("false&&a", MatchFalseAndA, 1, 0),
      Rule("a&&b||c", MatchAAndBOrC, <<Do("TO_CONDITIONAL", <<2, 3, 4, 0>>)>>),
      Moved("true||a", MatchTrueOrA, 1, 0),
      Moved("false||a", MatchFalseOrA, 2, 0),
      Computed("a^^b", MatchLogicalXor, "LOGICAL_XOR")>>

LogicalStatementRules ==
    <<Moved("if(!!a)", MatchIfNotNot, 3, 1),
      Rule("if(!a) else", MatchIfNotElse, SwapBranches),
      Moved("for(;!!a;)", MatchForNotNot, 4, 2),
      Moved("!!a?b:c", MatchConditionalNotNot, 3, 1)>>

LogicalTable == LogicalOperatorRules \o LogicalStatementRules

MatchTable ==
    <<Computed("a~=b", MatchAMatchB, "MATCH"),
      Rule("a~!b", MatchANotMatchB, <<Do("MATCH", <<1, 2, 0>>), Do("LOGICAL_NOT", <<0, 0>>)>>)>>

WithNaN(type, matches) ==
    <<Computed(type, matches[1], type),
      Moved("a " \o type \o " NaN", matches[2], 2, 0),
      Moved("NaN " \o type \o " a", matches[3], 1, 0)>>

MultiplyRules == WithNaN("MULTIPLY", MultiplyMatches)

DivideRules == WithNaN("DIVIDE", DivideMatches)

ModuloRules == WithNaN("MODULO", ModuloMatches)

PowerRules == WithNaN("POWER", PowerMatches)

MultiplicativeTable == MultiplyRules \o DivideRules \o ModuloRules \o PowerRules

RelationalTable ==
    <<Computed("a<b", MatchLess, "LESS"),
      Computed("a<=b", MatchLessEqual, "LESS_EQUAL"),
      Swapped("a>b", MatchGreater, "LESS"),
      Swapped("a>=b", MatchGreaterEqual, "LESS_EQUAL")>>

IfRules ==
    <<Moved("if(true) a", MatchIfTrue, 2, 0),
      Rule("if(false) a", MatchIfFalse, <<Do("REMOVE", <<0>>)>>),
      Moved("if(true) a else b", MatchIfTrueElse, 2, 0),
      Moved("if(false) a else b", MatchIfFalseElse, 3, 0)>>

LoopRules ==
    <<Rule("while(true)", MatchWhileTrue, <<Do("WHILE_TRUE_TO_FOREVER", <<2, 0>>)>>),
      Rule("while(false)", MatchWhileFalse, <<Do("REMOVE", <<0>>)>>),
      Rule("do while(true)", MatchDoWhileTrue, <<Do("WHILE_TRUE_TO_FOREVER", <<1, 0>>)>>),
      Moved("do while(false)", MatchDoWhileFalse, 1, 0)>>

BlockRules == <<Moved("{{a}}", MatchListOfList, 1, 0)>>

StatementsTable == IfRules \o LoopRules \o BlockRules

(* The rules, in the order in which they are tried.                        *)
Rules ==
    AdditiveTable \o AssignmentsTable \o BitwiseTable \o CompareTable \o ConditionalTable
    \o EqualityTable \o LogicalTable \o MatchTable \o MultiplicativeTable \o RelationalTable
    \o StatementsTable
=============================================================================
