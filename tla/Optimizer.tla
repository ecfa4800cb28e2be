------------------------------ MODULE Optimizer ------------------------------
(***************************************************************************)
(* optimizer::optimize(): the children of a node first, then every rule of *)
(* every table on the node, as long as a pass over the tables changes      *)
(* something; at last the nodes that became unknown are removed.           *)
(*                                                                         *)
(* A node is [lit |-> its type and value, kids |-> its children, up |-> its *)
(* parent, 0 without].  Node 1 is the parent of the tree, node 2 the tree  *)
(* as it was given.                                                        *)
(***************************************************************************)
EXTENDS OptimizerLiterals, OptimizerRules

CONSTANT Trees   \* heaps to optimize: sequences of nodes

VARIABLES given,    \* the heap at first
          heap,
          stack,    \* the nodes under optimization: [n, next, max, at, again]
          applied,  \* the names of the rules that were applied
          phase

vars == <<given, heap, stack, applied, phase>>

Type(h, n) == h[n].lit.t

Holder == 1
Given == 2
Top(h) == h[Holder].kids[1]
-----------------------------------------------------------------------------
(* The tree: set_parent(), set_child() and replace_with().                 *)
Detach(h, n) == IF h[n].up = 0 THEN h
                ELSE [h EXCEPT ![h[n].up].kids = Remove(@, n), ![n].up = 0]

InsertChild(h, p, i, n) ==
    LET d == Detach(h, n)
    IN  [d EXCEPT ![p].kids = InsertAt(@, i, n), ![n].up = p]

AppendChild(h, p, n) ==
    LET d == Detach(h, n)
    IN  [d EXCEPT ![p].kids = Append(@, n), ![n].up = p]

SetChild(h, p, i, n) == InsertChild(Detach(h, h[p].kids[i]), p, i, n)

Offset(h, n) == CHOOSE i \in DOMAIN h[h[n].up].kids : h[h[n].up].kids[i] = n

(* A mutant: the new node keeps the parent it had.                         *)
PutInPlace(h, n, new) == [h EXCEPT ![h[n].up].kids[Offset(h, n)] = new]

ReplaceWith(h, n, new) == SetChild(h, h[n].up, Offset(h, n), new)

NewNode(h, type) == Append(h, [lit |-> Literal(type), kids |-> <<>>, up |-> 0])
-----------------------------------------------------------------------------
SideEffects ==
    ArithmeticAssignmentsExceptAdd \union MinmaxAssignments \union BitwiseAssignments
    \union {"ASSIGNMENT", "ASSIGNMENT_ADD", "ASSIGNMENT_LOGICAL_AND", "ASSIGNMENT_LOGICAL_OR",
            "ASSIGNMENT_LOGICAL_XOR", "CALL", "DECREMENT", "DELETE", "INCREMENT", "NEW",
            "POST_DECREMENT", "POST_INCREMENT"}

RECURSIVE HasSideEffects(_, _)
HasSideEffects(h, n) ==
    \/ Type(h, n) \in SideEffects
    \/ \E i \in DOMAIN h[n].kids : HasSideEffects(h, h[n].kids[i])

(* The low 32 bits of a number are all set; the processor converts what an *)
(* integer does not hold to a number without them.                         *)
AllBits(a) == a.c \in {"", "finite"} /\ Low(a.n) = 2^Width - 1

MatchValue(h, n, value, found) ==
    LET a == h[n].lit
    IN  CASE value = ""                -> TRUE
          [] value = "no side effects" -> ~HasSideEffects(h, n)
          [] value = "identifier 1"    -> a.s = h[found[2]].lit.s
          [] value = "max32bit"        -> AllBits(a)
          [] value = "nan"             -> IsNaN(a)
          [] value = "zero"            -> a.n = 0 /\ ~IsNaN(a)
          [] value = "true"            -> ToBooleanTypeOnly(a) = "TRUE"
          [] value = "false"           -> ToBooleanTypeOnly(a) = "FALSE"

MatchNode(h, n, p, found) ==
    /\ p.types = {} \/ Type(h, n) \in p.types
    /\ MatchValue(h, n, p.value, found)

(* [ok |-> does the pattern match, found |-> the nodes matched so far]     *)
RECURSIVE MatchTree(_, _, _, _)
MatchTree(h, n, p, found) ==
    LET kids == h[n].kids
        start == [ok |-> MatchNode(h, n, p, found), found |-> Append(found, n)]
        kid(r, i) == IF r.ok THEN MatchTree(h, kids[i], p.kids[i], r.found) ELSE r
    IN  IF ~start.ok \/ p.leaf THEN start
        ELSE IF Len(kids) # Len(p.kids) THEN [start EXCEPT !.ok = FALSE]
        ELSE FoldLeft(kid, start, [i \in DOMAIN kids |-> i])
-----------------------------------------------------------------------------
(* The functions of a rule change s, which is [h |-> the heap, found |->   *)
(* the matched nodes, refused |-> an internal error was thrown].           *)
At(s, i) == s.found[i + 1]

Replaced(s, dst, n) == [s EXCEPT !.h = ReplaceWith(s.h, At(s, dst), n), !.found[dst + 1] = n]

Compute1(f, a) == CASE f = "NEGATE"      -> NEGATE(a)
                    [] f = "BITWISE_NOT" -> BITWISE_NOT(a)
                    [] f = "LOGICAL_NOT" -> LOGICAL_NOT(a)

Compute2(f, a, b) ==
    CASE f = "ADD"                  -> ADD(a, b)
      [] f = "SUBTRACT"             -> SUBTRACT(a, b)
      [] f = "MULTIPLY"             -> MULTIPLY(a, b)
      [] f = "DIVIDE"               -> DIVIDE(a, b)
      [] f = "MODULO"               -> MODULO(a, b)
      [] f = "POWER"                -> POWER(a, b)
      [] f = "CONCATENATE"          -> CONCATENATE(a, b)
      [] f = "BITWISE_AND"          -> BITWISE_AND(a, b)
      [] f = "BITWISE_OR"           -> BITWISE_OR(a, b)
      [] f = "BITWISE_XOR"          -> BITWISE_XOR(a, b)
      [] f = "SHIFT_LEFT"           -> SHIFT_LEFT(a, b)
      [] f = "SHIFT_RIGHT"          -> SHIFT_RIGHT(a, b)
      [] f = "SHIFT_RIGHT_UNSIGNED" -> SHIFT_RIGHT_UNSIGNED(a, b)
      [] f = "ROTATE_LEFT"          -> ROTATE_LEFT(a, b)
      [] f = "ROTATE_RIGHT"         -> ROTATE_RIGHT(a, b)
      [] f = "COMPARE"              -> COMPARE(a, b)
      [] f = "EQUAL"                -> EQUAL(a, b)
      [] f = "STRICTLY_EQUAL"       -> STRICTLY_EQUAL(a, b)
      [] f = "LESS"                 -> LESS(a, b)
      [] f = "LESS_EQUAL"           -> LESS_EQUAL(a, b)
      [] f = "SMART_MATCH"          -> SMART_MATCH(a, b)
      [] f = "LOGICAL_XOR"          -> LOGICAL_XOR(a, b)
      [] f = "MAXIMUM"              -> MAXIMUM(a, b)
      [] f = "MINIMUM"              -> MINIMUM(a, b)
      [] f = "MATCH"                -> MATCH(a, b)

(* A conversion to a Boolean of what is not a literal throws, and so does  *)
(* the string of what is not one, which MATCH asks for.                    *)
Throws(f, a) == CASE f = "LOGICAL_NOT" -> a.t \notin AnyLiteral
                  [] f = "MATCH"       -> a.t # "STRING"
                  [] OTHER             -> FALSE

(* The result takes the place of the first operand, then of the operator.  *)
ApplyComputation(s, f, i) ==
    LET n == At(s, i[1])
        a == s.h[n].lit
        result == IF Len(i) = 2 THEN Compute1(f, a) ELSE Compute2(f, a, s.h[At(s, i[2])].lit)
    IN  IF Throws(f, a) THEN [s EXCEPT !.refused = TRUE]
        ELSE Replaced([s EXCEPT !.h[n].lit = result], Last(i), n)

(* A mutant: only the array of matched nodes changes.                      *)
MoveInArray(s, i) == [s EXCEPT !.found[i[2] + 1] = At(s, i[1])]

MOVE(s, i) == Replaced(s, i[2], At(s, i[1]))

REMOVE(s, i) ==
    IF i[1] = 0 THEN [s EXCEPT !.h[At(s, 0)].lit = Literal("UNKNOWN")]
    ELSE [s EXCEPT !.h = Detach(s.h, At(s, i[1]))]

SET_INTEGER(s, i) == [s EXCEPT !.h[At(s, i[1])].lit = IntegerOf(i[2])]

SET_NODE_TYPE(s, type) ==
    LET h == NewNode(s.h, type)
        new == Len(h)
    IN  Replaced([s EXCEPT !.h = FoldLeft(LAMBDA g, n : AppendChild(g, new, n), h, h[At(s, 0)].kids)],
                 0, new)

SWAP(s, i) ==
    LET n1 == At(s, i[1])
        n2 == At(s, i[2])
        p == s.h[n1].up
        o1 == Offset(s.h, n1)
        o2 == Offset(s.h, n2)
        e1 == Len(s.h) + 1
        emptied == SetChild(SetChild(NewNode(NewNode(s.h, "EMPTY"), "EMPTY"), p, o1, e1), p, o2, e1 + 1)
    IN  [s EXCEPT !.h = SetChild(SetChild(emptied, p, o1, n2), p, o2, n1),
                  !.found = [@ EXCEPT ![i[1] + 1] = n2, ![i[2] + 1] = n1]]

TO_CONDITIONAL(s, i) ==
    LET h == NewNode(s.h, "CONDITIONAL")
        new == Len(h)
        filled == FoldLeft(LAMBDA g, j : AppendChild(g, new, At(s, i[j])), h, <<1, 2, 3>>)
    IN  Replaced([s EXCEPT !.h = filled], i[4], new)

TO_INTEGER(s, i) == [s EXCEPT !.h[At(s, i[1])].lit = ToInteger(@)]

TO_NUMBER(s, i) == [s EXCEPT !.h[At(s, i[1])].lit = ToNumber(@)]

WHILE_TRUE_TO_FOREVER(s, i) ==
    LET statements == At(s, i[1])
        new == Len(s.h) + 1
        made == Replaced([s EXCEPT !.h = NewNode(s.h, "FOR")], i[2], new)
        empty(g, j) == AppendChild(NewNode(g, "EMPTY"), new, Len(g) + 1)
    IN  [made EXCEPT !.h = AppendChild(FoldLeft(empty, made.h, <<1, 2, 3>>), new, statements)]

ApplyOneFunction(s, o) ==
    IF s.refused THEN s
    ELSE CASE o.f = "MOVE"                  -> MOVE(s, o.i)
           [] o.f = "REMOVE"                -> REMOVE(s, o.i)
           [] o.f = "SET_INTEGER"           -> SET_INTEGER(s, o.i)
           [] o.f = "SET_NODE_TYPE"         -> SET_NODE_TYPE(s, o.type)
           [] o.f = "SWAP"                  -> SWAP(s, o.i)
           [] o.f = "TO_CONDITIONAL"        -> TO_CONDITIONAL(s, o.i)
           [] o.f = "TO_INTEGER"            -> TO_INTEGER(s, o.i)
           [] o.f = "TO_NUMBER"             -> TO_NUMBER(s, o.i)
           [] o.f = "WHILE_TRUE_TO_FOREVER" -> WHILE_TRUE_TO_FOREVER(s, o.i)
           [] OTHER                         -> ApplyComputation(s, o.f, o.i)

ApplyFunctions(s, optimize) == FoldLeft(ApplyOneFunction, s, optimize)
-----------------------------------------------------------------------------
Frame(h, n) == [n |-> n, next |-> 0, max |-> Len(h[n].kids), at |-> 1, again |-> FALSE]

Enter(h, frames, n) == IF Type(h, n) = "UNKNOWN" THEN frames ELSE Append(frames, Frame(h, n))

Init ==
    /\ given \in Trees
    /\ heap = given
    /\ stack = Enter(given, <<>>, Given)
    /\ applied = {}
    /\ phase = "optimize"

Current == stack[Len(stack)]

(* The next child of the node.                                             *)
OptimizeChild ==
    /\ phase = "optimize" /\ stack # <<>>
    /\ Current.next < Current.max
    /\ stack' = Enter(heap, [stack EXCEPT ![Len(stack)].next = @ + 1],
                      heap[Current.n].kids[Current.next + 1])
    /\ UNCHANGED <<given, heap, applied, phase>>

Matching(h, n, k) == MatchTree(h, n, Rules[k].match, <<>>)

(* The rules that match, from the place the pass has reached.              *)
Candidates == {k \in Current.at..Len(Rules) : Matching(heap, Current.n, k).ok}

(* apply_optimization() on the first rule that matches.                    *)
ApplyOptimization ==
    /\ phase = "optimize" /\ stack # <<>>
    /\ Current.next = Current.max
    /\ Candidates # {}
    /\ LET k == Min(Candidates)
           n == Current.n
           s == ApplyFunctions([h |-> heap, found |-> Matching(heap, n, k).found, refused |-> FALSE],
                               Rules[k].optimize)
       IN  /\ heap' = s.h
           /\ applied' = applied \union {Rules[k].name}
           /\ phase' = IF s.refused THEN "internal error" ELSE phase
           /\ stack' = IF s.refused THEN stack
                       ELSE [stack EXCEPT ![Len(stack)] =
                               [@ EXCEPT !.n = s.h[heap[n].up].kids[Offset(heap, n)],
                                         !.at = k + 1, !.again = TRUE]]
    /\ UNCHANGED given

(* A mutant: one pass over the tables.                                     *)
SinglePass ==
    /\ phase = "optimize" /\ stack # <<>>
    /\ Current.next = Current.max
    /\ Candidates = {}
    /\ stack' = Front(stack)
    /\ UNCHANGED <<given, heap, applied, phase>>

(* The end of the tables: another pass when this one changed something.    *)
EndPass ==
    /\ phase = "optimize" /\ stack # <<>>
    /\ Current.next = Current.max
    /\ Candidates = {}
    /\ stack' = IF Current.again THEN [stack EXCEPT ![Len(stack)] = [@ EXCEPT !.at = 1, !.again = FALSE]]
                ELSE Front(stack)
    /\ UNCHANGED <<given, heap, applied, phase>>

(* clean_tree(), on the node optimize() was given, which may have been     *)
(* replaced.                                                               *)
RECURSIVE Below(_, _)
Below(h, n) == {n} \union UNION {Below(h, h[n].kids[i]) : i \in DOMAIN h[n].kids}

CleanTree ==
    /\ phase = "optimize" /\ stack = <<>>
    /\ heap' = [n \in DOMAIN heap |->
                   IF n \in Below(heap, Given)
                   THEN [heap[n] EXCEPT !.kids = SelectSeq(@, LAMBDA k : Type(heap, k) # "UNKNOWN")]
                   ELSE heap[n]]
    /\ phase' = "done"
    /\ UNCHANGED <<given, stack, applied>>

Next == OptimizeChild \/ ApplyOptimization \/ EndPass \/ CleanTree

(* The optimizer runs in the thread of the compiler until it returns: weak  *)
(* fairness of Next, which is enabled in phase "optimize" and in no other, *)
(* written out for TLC, to which ENABLED Next is a long computation.       *)
Fairness == []<>(phase # "optimize") \/ []<><<Next>>_vars

Spec == Init /\ [][Next]_vars /\ Fairness
=============================================================================
