------------------------------- MODULE Flatten -------------------------------
(***************************************************************************)
(* flatten_nodes: the tree of an expression becomes a list of operations   *)
(* between data.                                                           *)
(*                                                                         *)
(* A node is a record: op, the name of its type without NODE_; type, the   *)
(* class of its value; name, of an identifier, a literal, a member or a    *)
(* function; assign, TRUE of the operators which also store in their left  *)
(* side (NODE_ASSIGNMENT_ADD is ADD with assign); kids.  A call of Math is *)
(* a MATH node, one of a member a CALL node whose first kid is the object. *)
(***************************************************************************)
EXTENDS Integers, Sequences, SequencesExt, TLC

(* The data of an operation; "near" and "far" are the temporaries, by the  *)
(* size of their offset in the frame.                                      *)
Data(kind, type, name, where, full, noinit) ==
    [kind |-> kind, type |-> type, name |-> name, where |-> where,
     full |-> full, noinit |-> noinit]

NoData == Data("NONE", "", "", "none", FALSE, FALSE)

IsTemporary(d) == d.where \in {"near", "far"}

Literals == {"BOOLEAN", "INTEGER", "FLOATING_POINT", "STRING"}

Binary == {"ALMOST_EQUAL", "ASSIGNMENT", "BITWISE_AND", "BITWISE_OR", "BITWISE_XOR",
           "COMPARE", "DIVIDE", "EQUAL", "GREATER", "GREATER_EQUAL", "LESS", "LESS_EQUAL",
           "LOGICAL_AND", "LOGICAL_OR", "LOGICAL_XOR", "MAXIMUM", "MINIMUM", "MODULO",
           "MULTIPLY", "NOT_EQUAL", "POWER", "ROTATE_LEFT", "ROTATE_RIGHT", "SHIFT_LEFT",
           "SHIFT_RIGHT", "SHIFT_RIGHT_UNSIGNED", "SMART_MATCH", "STRICTLY_EQUAL",
           "STRICTLY_NOT_EQUAL"}

Unary == {"BITWISE_NOT", "DECREMENT", "INCREMENT", "LOGICAL_NOT", "POST_DECREMENT",
          "POST_INCREMENT"}

(* ADD and SUBTRACT of one kid are other operations.                       *)
UnaryForm == [ADD |-> "IDENTITY", SUBTRACT |-> "NEGATE"]

MathLists == [hypot |-> "HYPOT", min |-> "MINIMUM", max |-> "MAXIMUM"]

MathPairs == [atan2 |-> "ATAN2", imul |-> "IMUL", pow |-> "POWER"]

MathFunctions == [clz32 |-> "CLZ32", floor |-> "FLOOR", sign |-> "SIGN", sqrt |-> "SQRT",
                  trunc |-> "TRUNC"]

(* What flatten_nodes knows: f_variables, f_operations, the counters of    *)
(* the temporaries and of the labels, and where the temporaries will be.   *)
NewFlat(declared, where) ==
    [variables |-> declared, operations |-> <<>>, temps |-> 0, labels |-> 0,
     where |-> where, refused |-> FALSE]

Operation(op, n) ==
    [op |-> op, type |-> n.type, name |-> n.name, assign |-> n.assign, lhs |-> NoData,
     rhs |-> NoData, result |-> NoData, params |-> <<>>, label |-> ""]

Push(s, operation) == [s EXCEPT !.operations = Append(@, operation)]

Temporary(s, type, full) ==
    Data("VARIABLE", type, "%temp" \o ToString(s.temps + 1), s.where, full, FALSE)

WithTemporary(s, d) == [s EXCEPT !.temps = @ + 1, !.variables = @ \union {d}]

LabelOf(s, k) == ".L" \o ToString(s.labels + k)
-----------------------------------------------------------------------------
RECURSIVE NodeToOperation(_, _, _)

(* The kids from left to right: their data and the state after the last.   *)
NodesToOperations(s, kids, full) ==
    FoldLeft(LAMBDA r, kid : LET k == NodeToOperation(r.s, kid, full)
                             IN  [s |-> k.s, of |-> Append(r.of, k.of)],
             [s |-> s, of |-> <<>>], kids)

(* The operators: the temporary is numbered before the kids are visited.   *)
OperatorToOperation(s, n, op, full) ==
    LET d    == Temporary(s, n.type, full)
        kids == NodesToOperations(WithTemporary(s, d), n.kids, FALSE)
        side(k) == IF k <= Len(n.kids) THEN kids.of[k] ELSE NoData
    IN  [s  |-> Push(kids.s, [Operation(op, n) EXCEPT !.lhs = side(1), !.rhs = side(2),
                                                      !.result = d]),
         of |-> d]

(* An array may be given the end of a range, as a parameter.               *)
ArrayToOperation(s, n) ==
    LET d    == Temporary(s, n.type, FALSE)
        kids == NodesToOperations(WithTemporary(s, d), n.kids, FALSE)
    IN  [s  |-> Push(kids.s, [Operation("ARRAY", n) EXCEPT
                                 !.lhs = kids.of[1], !.rhs = kids.of[2], !.result = d,
                                 !.params = SubSeq(kids.of, 3, Len(kids.of))]),
         of |-> d]

(* The field of a class is read from the class; the name of the field is   *)
(* not a variable.                                                         *)
MemberToOperation(s, n) ==
    LET d      == Temporary(s, n.type, FALSE)
        t      == WithTemporary(s, d)
        object == n.kids[1]
        lhs    == IF object.op = "CLASS"
                  THEN [s |-> t, of |-> Data("IDENTIFIER", object.type, object.name, "class",
                                             FALSE, FALSE)]
                  ELSE NodeToOperation(t, object, FALSE)
    IN  [s  |-> Push(lhs.s, [Operation("ARRAY", n) EXCEPT
                                !.lhs = lhs.of, !.result = d,
                                !.rhs = Data("IDENTIFIER", "", n.name, "field", FALSE, FALSE)]),
         of |-> d]

(* Each case stores its value on its own left side: generate_assignment()  *)
(* is given no right side.                                                 *)
ConditionalToOperation(s, n, full) ==
    LET after     == LabelOf(s, 1)
        falseCase == LabelOf(s, 2)
        d         == Temporary(s, n.kids[2].type, full)
        t         == WithTemporary([s EXCEPT !.labels = @ + 2], d)
        cond      == NodeToOperation(t, n.kids[1], FALSE)
        at(op, label)  == [Operation(op, n) EXCEPT !.label = label]
        store(lhs)     == [Operation("ASSIGNMENT", n) EXCEPT !.type = d.type, !.lhs = lhs,
                                                             !.result = d]
        yes  == NodeToOperation(Push(cond.s, [at("IF_FALSE", falseCase) EXCEPT !.lhs = cond.of]),
                                n.kids[2], FALSE)
        past == Push(Push(Push(yes.s, store(yes.of)), at("GOTO", after)), at("LABEL", falseCase))
        no   == NodeToOperation(past, n.kids[3], FALSE)
    IN  [s |-> Push(Push(no.s, store(no.of)), at("LABEL", after)), of |-> d]
-----------------------------------------------------------------------------
AbsToOperation(s, n) == OperatorToOperation(s, n, "ABSOLUTE_VALUE", FALSE)

(* Any number of parameters.                                               *)
MathListToOperation(s, n) ==
    LET d    == Temporary(s, n.type, FALSE)
        kids == NodesToOperations(WithTemporary(s, d), n.kids, FALSE)
    IN  [s  |-> Push(kids.s, [Operation(MathLists[n.name], n) EXCEPT !.params = kids.of,
                                                                     !.result = d]),
         of |-> d]

RandomToOperation(s, n) == OperatorToOperation(s, n, "RANDOM", FALSE)

Mxcsr(s) == Data("VARIABLE", "%mxcsr", "%mxcsr", s.where, FALSE, FALSE)

(* imul() needs a place to save the MXCSR register.                        *)
MathPairToOperation(s, n) ==
    OperatorToOperation(IF n.name = "imul" THEN [s EXCEPT !.variables = @ \union {Mxcsr(s)}] ELSE s,
                        n, MathPairs[n.name], FALSE)

MathFunctionToOperation(s, n) == OperatorToOperation(s, n, MathFunctions[n.name], FALSE)

MathToOperation(s, n) ==
    CASE n.name = "abs" /\ Len(n.kids) = 1                  -> AbsToOperation(s, n)
      [] n.name \in DOMAIN MathLists                        -> MathListToOperation(s, n)
      [] n.name = "random" /\ Len(n.kids) = 0               -> RandomToOperation(s, n)
      [] n.name \in DOMAIN MathPairs /\ Len(n.kids) = 2     -> MathPairToOperation(s, n)
      [] n.name \in DOMAIN MathFunctions /\ Len(n.kids) = 1 -> MathFunctionToOperation(s, n)

(* A literal given to a function is first put in a variable, whose type is *)
(* the one of the call.                                                    *)
ParamToOperation(r, kid, n) ==
    LET p == NodeToOperation(r.s, kid, TRUE)
        d == [Temporary(p.s, n.type, TRUE) EXCEPT !.noinit = TRUE]
    IN  IF p.of.kind \in {"BOOLEAN", "INTEGER", "FLOATING_POINT"}
        THEN [s  |-> Push(WithTemporary(p.s, d),
                          [Operation("PARAM", n) EXCEPT !.lhs = p.of, !.result = d]),
              of |-> Append(r.of, d)]
        ELSE [s |-> p.s, of |-> Append(r.of, p.of)]

CallToOperation(s, n) ==
    LET d      == Temporary(s, n.type, FALSE)
        t      == WithTemporary(s, d)
        params == Data("VARIABLE", "Array", "%params" \o ToString(t.temps + 1), s.where,
                       FALSE, TRUE)
        lhs    == NodeToOperation(WithTemporary(t, params), n.kids[1], FALSE)
        all    == FoldLeft(LAMBDA r, kid : ParamToOperation(r, kid, n),
                           [s |-> lhs.s, of |-> <<params>>], Tail(n.kids))
    IN  [s  |-> Push(all.s, [Operation("CALL", n) EXCEPT !.lhs = lhs.of, !.result = d,
                                                         !.params = all.of]),
         of |-> d]

(* The list gives the value of its last item, without a copy when it is a  *)
(* variable.                                                               *)
ListToOperation(s, n) ==
    LET items == NodesToOperations(s, n.kids, FALSE)
        final == items.of[Len(n.kids)]
        copy  == Temporary(items.s, final.type, FALSE)
        d     == IF final.kind = "VARIABLE" THEN final ELSE copy
        t     == IF final.kind = "VARIABLE" THEN items.s ELSE WithTemporary(items.s, copy)
    IN  [s  |-> Push(t, [Operation("LIST", n) EXCEPT !.params = items.of, !.result = d]),
         of |-> d]

(* The instructions are not written yet.                                   *)
NotYetImplemented == {"IF", "DO", "FOR", "FUNCTION", "NEW", "IN", "COALESCE"}
-----------------------------------------------------------------------------
VariableNamed(s, name) == CHOOSE d \in s.variables : d.name = name

NodeToOperation(s, n, full) ==
    CASE n.op \in Literals         -> [s |-> s, of |-> Data(n.op, n.type, n.name, "literal",
                                                            FALSE, FALSE)]
      [] n.op = "IDENTIFIER"       -> [s |-> s, of |-> VariableNamed(s, n.name)]
      [] n.op \in {"ADD", "SUBTRACT"} ->
             OperatorToOperation(s, n, IF Len(n.kids) = 1 THEN UnaryForm[n.op] ELSE n.op, full)
      [] n.op \in Binary \union Unary -> OperatorToOperation(s, n, n.op, full)
      [] n.op = "ARRAY"            -> ArrayToOperation(s, n)
      [] n.op = "CONDITIONAL"      -> ConditionalToOperation(s, n, full)
      [] n.op = "MEMBER"           -> MemberToOperation(s, n)
      [] n.op = "MATH"             -> MathToOperation(s, n)
      [] n.op = "CALL"             -> CallToOperation(s, n)
      [] n.op = "LIST"             -> ListToOperation(s, n)
      [] n.op \in NotYetImplemented -> [s |-> [s EXCEPT !.refused = TRUE], of |-> NoData]

DirectiveList(s, nodes) == NodesToOperations(s, nodes, FALSE).s

(* run(): the variable of the last result is renamed %result wherever it   *)
(* appears, data being shared.  The label that ends a conditional has no   *)
(* result: the code dereferences a null pointer.                           *)
ResultOf(s) == Last(s.operations).result

Renamed(d, result) == IF d = result THEN [d EXCEPT !.name = "%result", !.where = "extern"] ELSE d

Run(s) ==
    LET result == ResultOf(s)
        to(d)  == Renamed(d, result)
    IN  IF s.refused \/ result = NoData THEN [s EXCEPT !.refused = TRUE]
        ELSE [s EXCEPT !.variables = {to(d) : d \in @},
                       !.operations = [i \in DOMAIN @ |->
                           [@[i] EXCEPT !.lhs = to(@), !.rhs = to(@), !.result = to(@),
                                        !.params = [k \in DOMAIN @ |-> to(@[k])]]]]
=============================================================================
