------------------------------ MODULE Optimized ------------------------------
(***************************************************************************)
(* What a tree computes, whatever the optimizer makes of it: the reference *)
(* the optimizer is compared with.  It runs the nodes from left to right   *)
(* in an environment, and records the calls, since a call is what the rest *)
(* of the program sees.                                                    *)
(***************************************************************************)
EXTENDS Optimizer

CONSTANTS Environments,   \* what the variables and the functions are worth
          Turns           \* the turns after which a loop is said to go on forever
-----------------------------------------------------------------------------
(* An operator on two values, from what it means and not from its rule.    *)
Double(a) == a.t \notin {"INTEGER", "TRUE", "FALSE", "NULL"}

Exact(x, a, b) == IF a.t = "INTEGER" /\ b.t = "INTEGER" /\ x.c = "finite" THEN IntegerOf(x.n) ELSE x

OnDoubles(a, b, op(_, _)) == Exact(op(ToFloatingPoint(a), ToFloatingPoint(b)), a, b)

Difference2(x, y) == Sum2(x, Negative(y))

(* The integers divide by zero as doubles do, but for 0 / 0.               *)
Divided(a, b) == IF IntegersOnly(a, b) /\ a.n = 0 /\ b.n = 0 THEN Infinity(1) ELSE OnDoubles(a, b, Quotient2)

Word(a) == Low(ToInteger(a).n)

Bit(a, i) == i \in 0..Width - 1 /\ (Word(a) \div 2^i) % 2 = 1

(* The word whose bit i is in(i).                                          *)
WordOf(in(_)) == IntegerOf(MapThenSumSet(LAMBDA i : IF in(i) THEN 2^i ELSE 0, 0..Width - 1))

Turned(a, n) == WordOf(LAMBDA i : Bit(a, (i + n) % Width))

Ordered(a, b) == Compare(a, b, "loose")

Meant(op, a, b) ==
    CASE op = "ADD" /\ "STRING" \in {a.t, b.t} -> Text(TextOf(a) \o TextOf(b))
      [] op = "ADD"                  -> OnDoubles(a, b, Sum2)
      [] op = "SUBTRACT"             -> OnDoubles(a, b, Difference2)
      [] op = "MULTIPLY"             -> OnDoubles(a, b, Product2)
      [] op = "DIVIDE"               -> Divided(a, b)
      [] op = "MODULO"               -> OnDoubles(a, b, Remainder2)
      [] op = "POWER"                -> Power2(ToFloatingPoint(a), ToFloatingPoint(b))
      [] op = "BITWISE_AND"          -> WordOf(LAMBDA i : Bit(a, i) /\ Bit(b, i))
      [] op = "BITWISE_OR"           -> WordOf(LAMBDA i : Bit(a, i) \/ Bit(b, i))
      [] op = "BITWISE_XOR"          -> WordOf(LAMBDA i : Bit(a, i) # Bit(b, i))
      [] op = "SHIFT_LEFT"           -> WordOf(LAMBDA i : Bit(a, i - Amount(b)))
      [] op = "SHIFT_RIGHT"          -> IntegerOf(Signed(WordOf(LAMBDA i :
                                            Bit(a, IF i + Amount(b) < Width THEN i + Amount(b) ELSE Width - 1)).n))
      [] op = "SHIFT_RIGHT_UNSIGNED" -> WordOf(LAMBDA i : Bit(a, i + Amount(b)))
      [] op = "ROTATE_LEFT"          -> Turned(a, Width - Amount(b))
      [] op = "ROTATE_RIGHT"         -> Turned(a, Amount(b))
      [] op = "EQUAL"                -> Bool(Ordered(a, b) = "equal")
      [] op = "NOT_EQUAL"            -> Bool(Ordered(a, b) # "equal")
      [] op = "STRICTLY_EQUAL"       -> Bool(a.t = b.t /\ Ordered(a, b) = "equal")
      [] op = "STRICTLY_NOT_EQUAL"   -> Bool(a.t # b.t \/ Ordered(a, b) # "equal")
      [] op = "LESS"                 -> Bool(Ordered(a, b) = "less")
      [] op = "GREATER"              -> Bool(Ordered(a, b) = "greater")
      [] op = "LESS_EQUAL"           -> Bool(Ordered(a, b) \in {"less", "equal"})
      [] op = "GREATER_EQUAL"        -> Bool(Ordered(a, b) \in {"greater", "equal"})
      [] op = "COMPARE"              -> COMPARE(a, b)
      [] op = "SMART_MATCH"          -> SMART_MATCH(b, a)
      [] op = "MATCH"                -> MATCH(a, b)
      [] op = "NOT_MATCH"            -> LOGICAL_NOT(MATCH(a, b))
      [] op = "LOGICAL_XOR"          -> IF IsTrue(a) = IsTrue(b) THEN Bool(FALSE) ELSE IF IsTrue(a) THEN a ELSE b
      [] op = "MAXIMUM"              -> CASE IsNaN(a) -> b [] IsNaN(b) -> a
                                          [] OTHER -> IF Ordered(a, b) = "greater" THEN a ELSE b
      [] op = "MINIMUM"              -> CASE IsNaN(a) -> b [] IsNaN(b) -> a
                                          [] OTHER -> IF Ordered(a, b) = "less" THEN a ELSE b

Meant1(op, a) ==
    CASE op = "ADD"         -> ToNumber(a)
      [] op = "SUBTRACT"    -> IF a.t = "INTEGER" THEN IntegerOf(-a.n) ELSE Negative(ToFloatingPoint(a))
      [] op = "BITWISE_NOT" -> WordOf(LAMBDA i : ~Bit(a, i))
      [] op = "LOGICAL_NOT" -> Bool(~IsTrue(a))

Assignments == [ASSIGNMENT_SUBTRACT |-> "SUBTRACT", ASSIGNMENT_MULTIPLY |-> "MULTIPLY",
                ASSIGNMENT_DIVIDE |-> "DIVIDE", ASSIGNMENT_MODULO |-> "MODULO",
                ASSIGNMENT_POWER |-> "POWER", ASSIGNMENT_BITWISE_AND |-> "BITWISE_AND",
                ASSIGNMENT_BITWISE_OR |-> "BITWISE_OR", ASSIGNMENT_BITWISE_XOR |-> "BITWISE_XOR",
                ASSIGNMENT_SHIFT_LEFT |-> "SHIFT_LEFT", ASSIGNMENT_MAXIMUM |-> "MAXIMUM",
                ASSIGNMENT_MINIMUM |-> "MINIMUM", ASSIGNMENT_ADD |-> "ADD"]
-----------------------------------------------------------------------------
(* A run is [env |-> the variables, calls |-> the functions called, end |-> *)
(* "next" when the next node runs, "break", "throw" or "forever", value].  *)
RECURSIVE Run(_, _, _), RunAll(_, _, _), Loop(_, _, _, _, _)

Then(r, next(_)) == IF r.end = "next" THEN next(r) ELSE r

(* A sequence of nodes: the values they are worth.                         *)
RunAll(h, nodes, r) ==
    FoldLeft(LAMBDA all, n : IF all.end # "next" THEN all
                             ELSE LET one == Run(h, n, all)
                                  IN  [one EXCEPT !.values = Append(all.values, one.value)],
             [r EXCEPT !.values = <<>>], nodes)

(* A loop whose condition is node c, 0 for none; body and step run.        *)
Loop(h, c, nodes, r, turn) ==
    LET test == IF c = 0 \/ Type(h, c) = "EMPTY" THEN [r EXCEPT !.value = Bool(TRUE)] ELSE Run(h, c, r)
    IN  CASE test.end # "next"     -> test
          [] ~IsTrue(test.value)   -> test
          [] turn = Turns          -> [test EXCEPT !.end = "forever"]
          [] OTHER -> LET body == RunAll(h, nodes, test)
                      IN  CASE body.end = "break" -> [body EXCEPT !.end = "next"]
                            [] body.end = "next"  -> Loop(h, c, nodes, body, turn + 1)
                            [] OTHER              -> body

Run(h, n, r) ==
    LET kids == h[n].kids
        op == Type(h, n)
        name == h[n].lit.s
        Worth(x, v) == [x EXCEPT !.value = v]
        first == Run(h, kids[1], r)
        all == RunAll(h, kids, r)
        v == all.values
        stored(x, value) == [x EXCEPT !.env[h[kids[1]].lit.s] = value, !.value = value]
        choose(i, j) == Then(first, LAMBDA x : IF IsTrue(x.value) THEN Run(h, kids[i], x)
                                               ELSE IF j \in DOMAIN kids THEN Run(h, kids[j], x) ELSE x)
    IN  CASE op \in AnyLiteral \union {"REGULAR_EXPRESSION"} -> Worth(r, h[n].lit)
          [] op \in {"EMPTY", "UNKNOWN"}  -> Worth(r, Undefined)
          [] op = "IDENTIFIER"            -> Worth(r, r.env[name])
          [] op = "CALL"                  -> [r EXCEPT !.calls = Append(@, name), !.value = r.env[name]]
          [] op = "BREAK"                 -> [r EXCEPT !.end = "break"]
          [] op = "THROW"                 -> [r EXCEPT !.end = "throw"]
          [] op = "ASSIGNMENT"            -> Then(Run(h, kids[2], r), LAMBDA x : stored(x, x.value))
          [] op \in DOMAIN Assignments    -> Then(all, LAMBDA x : stored(x, Meant(Assignments[op], v[1], v[2])))
          [] op = "LOGICAL_AND" -> Then(first, LAMBDA x : IF IsTrue(x.value) THEN Run(h, kids[2], x) ELSE x)
          [] op = "LOGICAL_OR"  -> Then(first, LAMBDA x : IF IsTrue(x.value) THEN x ELSE Run(h, kids[2], x))
          [] op \in {"CONDITIONAL", "IF"} -> choose(2, 3)
          [] op = "WHILE"                 -> Loop(h, kids[1], <<kids[2]>>, r, 0)
          [] op = "FOR"                   -> Then(first, LAMBDA x : Loop(h, kids[2], <<kids[4], kids[3]>>, x, 0))
          [] op = "DO"                    ->
                 LET body == Run(h, kids[1], r)
                 IN  IF body.end = "break" THEN [body EXCEPT !.end = "next"]
                     ELSE Then(body, LAMBDA x : Loop(h, kids[2], <<kids[1]>>, x, 1))
          [] op = "DIRECTIVE_LIST"        -> all
          [] Len(kids) = 1                -> Then(all, LAMBDA x : Worth(x, Meant1(op, v[1])))
          [] OTHER -> Then(all, LAMBDA x : LET w == Meant(op, v[1], v[2])
                                           IN  IF w.t = "THROW" THEN [x EXCEPT !.end = "throw"] ELSE Worth(x, w))

Statements == {"DIRECTIVE_LIST", "IF", "WHILE", "DO", "FOR", "UNKNOWN", "EMPTY", "BREAK"}

(* A number is the same whether it is held as an integer or as a double.   *)
Same(a) == IF a.t = "INTEGER" THEN Finite(a.n) ELSE a

Outcome(h, env) ==
    LET r == Run(h, Top(h), [env |-> env, calls |-> <<>>, end |-> "next", value |-> Undefined, values |-> <<>>])
    IN  [calls |-> r.calls, end |-> r.end,
         env   |-> [x \in DOMAIN r.env |-> Same(r.env[x])],
         value |-> IF Type(given, Top(given)) \in Statements \/ r.end # "next" THEN Undefined
                   ELSE Same(r.value)]
-----------------------------------------------------------------------------
BitwiseNaN == {"ASSIGNMENT_BITWISE_OR", "ASSIGNMENT_BITWISE_XOR", "ASSIGNMENT_SHIFT_LEFT"}

Types(h) == {Type(h, n) : n \in Below(h, Holder)}

(* The rules that do not keep what a tree computes: a && b || c is not     *)
(* a ? b : c when a is true and b false; only a &= NaN is zero; a loop     *)
(* that runs once may have been left by a break.                           *)
Changing ==
    \/ "a&&b||c" \in applied
    \/ "a&=NaN" \in applied /\ Types(given) \intersect BitwiseNaN # {}
    \/ "do while(false)" \in applied /\ "BREAK" \in Types(given)

(* Whatever rules were applied so far, the tree computes what the program  *)
(* computed, with the same calls in the same order                         *)
(* (optimizer.cpp:72-75: what is removed has no effect in the output).     *)
SameOutcome ==
    phase = "internal error" \/ Changing
    \/ \A env \in Environments : Outcome(heap, env) = Outcome(given, env)

(* The same of every rule, as the code says of the optimizer: "The         *)
(* optimize() function tries to remove all possible expressions and        *)
(* statements which will have no effect in the final output"               *)
(* (optimizer.cpp:72-73).                                                  *)
NoEffectInOutput ==
    phase = "internal error" \/ \A env \in Environments : Outcome(heap, env) = Outcome(given, env)

(* A node has one parent, which has it once, and the nodes under           *)
(* optimization are those of a path, whatever was moved or swapped.        *)
TreeKept ==
    phase # "internal error" =>
    /\ \A n \in Below(heap, Holder) : \A i \in DOMAIN heap[n].kids :
           heap[heap[n].kids[i]].up = n /\ \A j \in DOMAIN heap[n].kids : heap[n].kids[i] = heap[n].kids[j] => i = j
    /\ \A i \in DOMAIN stack : /\ stack[i].n \in Below(heap, Holder)
                               /\ i > 1 => heap[stack[i].n].up = stack[i - 1].n

(* No rule is left to apply to any node when the optimizer returns, so     *)
(* that optimizing again changes nothing (optimizer_tables.cpp:227-262),   *)
(* but for a block whose only child is a block, once clean_tree() removed  *)
(* the unknown nodes of the first.                                         *)
NothingLeft ==
    stack = <<>> =>
        \A n \in Below(heap, Top(heap)) : \A k \in DOMAIN Rules :
            Matching(heap, n, k).ok => phase = "done" /\ Rules[k].name = "{{a}}"

(* The rewriting ends: no rule undoes another (optimizer_tables.cpp:227).  *)
Returns == <>(phase # "optimize")
=============================================================================
