--------------------------- MODULE ParserExpression ---------------------------
(***************************************************************************)
(* parser_expression.cpp: the tokens of an expression become a tree.       *)
(*                                                                         *)
(* A text is the sequence of what the lexer finds on one line, a token     *)
(* being named by the way it is written.  The slash is the exception: the  *)
(* lexer is told by the parser whether it may start a regular expression,  *)
(* which then goes to the next slash whatever stands between the two.      *)
(*                                                                         *)
(* A node is [op, name, kids].  The functions which the parser calls for   *)
(* the keyword function and for directives are not part of the model.      *)
(***************************************************************************)
EXTENDS Integers, Sequences, SequencesExt

Node(op, name, kids) == [op |-> op, name |-> name, kids |-> kids]

NoNode == Node("none", "", <<>>)

Identifiers == {"a", "b", "f"}
Fields      == {"1", "0.5", "'s'"}     \* literals which may name a field
Literals    == Fields \union {"this", "null", "REGEX"}
Access      == {"private", "public"}

Kind(token) ==
    CASE token \in Identifiers -> "IDENTIFIER"
      [] token \in Literals    -> "LITERAL"
      [] token \in Access      -> "ACCESS"

Leaf(token) == Node(Kind(token), token, <<>>)

(* The parser: f_node is token and f_unget is unget; at counts what the    *)
(* lexer read; stopped says that it threw, or that it never returns.       *)
StartParser(text, extended) ==
    [text |-> text, extended |-> extended, at |-> 0, token |-> "EOF", unget |-> <<>>,
     errors |-> {}, stopped |-> "", stuck |-> ""]

Report(p, code) == [p EXCEPT !.errors = @ \union {code}]

ReportIf(p, condition, code) == IF condition THEN Report(p, code) ELSE p

Stop(p, why) ==
    [p EXCEPT !.stopped = IF @ = "" THEN why ELSE @, !.at = Len(p.text), !.unget = <<>>,
              !.token = "EOF", !.stuck = p.token]

(* get_next_token(): where a regular expression that starts at i ends.     *)
ClosingSlash(text, i) ==
    LET after == {j \in i + 1 .. Len(text) : text[j] = "/"}
    IN  IF after = {} THEN 0 ELSE CHOOSE j \in after : \A k \in after : j <= k

NextToken(p, regexAllowed) ==
    LET i == p.at + 1
        j == ClosingSlash(p.text, i)
    IN  IF i > Len(p.text) THEN [p EXCEPT !.token = "EOF"]
        ELSE IF p.text[i] = "/" /\ regexAllowed /\ j # 0
             THEN [p EXCEPT !.at = j, !.token = "REGEX"]
             ELSE [p EXCEPT !.at = i, !.token = p.text[i]]

get_token(p, regexAllowed) ==
    IF p.unget = <<>> THEN NextToken(p, regexAllowed)
    ELSE IF Last(p.unget) = "REGEX" /\ ~regexAllowed THEN Stop(p, "internal_error")
         ELSE [p EXCEPT !.token = Last(p.unget), !.unget = Front(@)]

unget_token(p, token) == [p EXCEPT !.unget = Append(@, p.token), !.token = token]

Get(p) == get_token(p, TRUE)

(* The extensions are parsed whether they are allowed or not.              *)
CheckExtension(p, tokens) ==
    ReportIf(p, p.token \in tokens /\ ~p.extended, "NOT_ALLOWED")

(* The closing token, or an error.                                         *)
Expect(p, token, code) == IF p.token = token THEN Get(p) ELSE Report(p, code)
-----------------------------------------------------------------------------
(* The operators of two operands, from the loosest: "once" where the code  *)
(* tests for the operator with if, "any" where it does with while, "right" *)
(* where the right operand may hold the operator again.                    *)
Level(ops, extended, form) == [ops |-> ops, extended |-> extended, form |-> form]

min_max_expression == Level({"<?", ">?"}, {"<?", ">?"}, "once")

logical_or_expression == Level({"||"}, {}, "once")

logical_xor_expression == Level({"^^"}, {"^^"}, "once")

logical_and_expression == Level({"&&"}, {}, "once")

bitwise_or_expression == Level({"|"}, {}, "once")

bitwise_xor_expression == Level({"^"}, {}, "once")

bitwise_and_expression == Level({"&"}, {}, "once")

equality_expression ==
    Level({"==", "approx", "!=", "===", "!==", "<=>", "~~"}, {"<=>", "~~", "approx"}, "any")

relational_expression ==
    Level({"<", ">", "<=", ">=", "is", "as", "in", "instanceof"}, {}, "any")

(* Mutant: the right operand of a shift is another shift.                  *)
RightShift == Level({"<<", ">>", ">>>", "<%", ">%"}, {"<%", ">%"}, "right")

shift_expression == Level({"<<", ">>", ">>>", "<%", ">%"}, {"<%", ">%"}, "any")

additive_expression == Level({"+", "-"}, {}, "any")

(* Mutant: the modulo is not there.                                        *)
NoModulo == Level({"*", "/"}, {}, "any")

multiplicative_expression == Level({"*", "/", "%"}, {}, "any")

match_expression == Level({"~=", "~!"}, {"~=", "~!"}, "any")

power_expression == Level({"**"}, {"**"}, "right")

Levels == <<min_max_expression, logical_or_expression, logical_xor_expression,
            logical_and_expression, bitwise_or_expression, bitwise_xor_expression,
            bitwise_and_expression, equality_expression, relational_expression,
            shift_expression, additive_expression, multiplicative_expression,
            match_expression, power_expression>>

ShiftLevel == 10

Ranges == {"..", "..."}

PlainAssignments == {"=", "+=", "*=", "<<="}
ExtendedAssignments == {"**=", "<?="}
-----------------------------------------------------------------------------
(* The functions call each other in circles; Call(f, p) is function f.     *)
RECURSIVE Call(_, _), BinaryExpression(_, _)

(* A range may follow what in looks in.                                    *)
InRange(r) ==
    IF r.n.op = "in" /\ r.p.token \in Ranges
    THEN LET end == BinaryExpression(ShiftLevel, Get(CheckExtension(r.p, Ranges)))
         IN  [p |-> end.p, n |-> [r.n EXCEPT !.kids = Append(@, end.n)]]
    ELSE r

Operand(k, p) == IF k = Len(Levels) THEN Call("unary_expression", p) ELSE BinaryExpression(k + 1, p)

RECURSIVE Operations(_, _)
Operations(k, r) ==
    LET level == Levels[k]
        q     == Get(CheckExtension(r.p, level.extended))
        right == IF level.form = "right" THEN BinaryExpression(k, q) ELSE Operand(k, q)
        whole == InRange([p |-> right.p, n |-> Node(r.p.token, "", <<r.n, right.n>>)])
    IN  IF r.p.token \notin level.ops THEN r
        ELSE IF level.form = "any" THEN Operations(k, whole) ELSE whole

BinaryExpression(k, p) == Operations(k, Operand(k, p))

(* The two sides of the colon may be assignments, unless the caller said   *)
(* otherwise: expressions always allow it.                                 *)
Conditional(c) ==
    LET yes  == Call("assignment_expression", Get(c.p))
        no   == Call("assignment_expression", Get(yes.p))
    IN  IF c.p.token # "?" THEN c
        ELSE IF yes.p.token = ":"
             THEN [p |-> no.p, n |-> Node("?", "", <<c.n, yes.n, no.n>>)]
             ELSE [p |-> Report(yes.p, "INVALID_CONDITIONAL"), n |-> Node("?", "", <<c.n, yes.n>>)]

conditional_expression(p) == Conditional(BinaryExpression(1, p))

Assignment(left) ==
    LET right == Call("assignment_expression", Get(CheckExtension(left.p, ExtendedAssignments)))
    IN  IF left.p.token \in PlainAssignments \union ExtendedAssignments
        THEN [p |-> right.p, n |-> Node(left.p.token, "", <<left.n, right.n>>)]
        ELSE left

assignment_expression(p) == Assignment(conditional_expression(p))

(* Mutant: the token that follows the name stays pushed back.              *)
KeptArgument(p) ==
    LET q == Get(p)
        v == Get(q)
        value == Call("assignment_expression", v)
        plain == Call("assignment_expression", [q EXCEPT !.token = p.token])
    IN  IF q.token # ":" THEN [p |-> plain.p, n |-> plain.n, rest |-> FALSE]
        ELSE IF v.token = "..."
             THEN [p |-> Get(v), n |-> Node("NAME", p.token, <<Node("REST", "", <<>>)>>), rest |-> TRUE]
             ELSE [p |-> value.p, n |-> Node("NAME", p.token, <<value.n>>), rest |-> FALSE]

(* An argument may be named: the token after an identifier is read to see  *)
(* whether it is a colon, as a regular expression if it can be one.        *)
Argument(p) ==
    LET q == Get(p)
        v == Get(q)
        value == Call("assignment_expression", v)
        plain == Call("assignment_expression", unget_token(q, p.token))
    IN  IF q.token # ":" THEN [p |-> plain.p, n |-> plain.n, rest |-> FALSE]
        ELSE IF v.token = "..."
             THEN [p |-> Get(v), n |-> Node("NAME", p.token, <<Node("REST", "", <<>>)>>), rest |-> TRUE]
             ELSE [p |-> value.p, n |-> Node("NAME", p.token, <<value.n>>), rest |-> FALSE]

(* The elements of an array may be missing.                                *)
Item(p, rest, empty, first) ==
    LET item == Call("assignment_expression", p)
    IN  IF empty /\ (p.token = "," \/ (~first /\ p.token = "]"))
        THEN [p |-> p, n |-> Node("EMPTY", "", <<>>), rest |-> FALSE]
        ELSE IF rest /\ p.token = "..."
        THEN [p |-> Get(p), n |-> Node("REST", "", <<>>), rest |-> TRUE]
        ELSE IF rest /\ p.token \in Identifiers THEN Argument(p)
        ELSE [p |-> item.p, n |-> item.n, rest |-> FALSE]

RECURSIVE Items(_, _, _)
Items(r, rest, empty) ==
    LET item == Item(ReportIf(Get(r.p), r.rest, "INVALID_REST"), rest, empty, FALSE)
    IN  IF r.p.token # "," THEN r
        ELSE Items([p |-> item.p, n |-> [r.n EXCEPT !.kids = Append(@, item.n)],
                    rest |-> r.rest \/ item.rest], rest, empty)

Listed(first, rest, empty) ==
    LET list == Items([first EXCEPT !.n = Node("LIST", "", <<first.n>>)], rest, empty)
    IN  IF first.p.token = "," THEN [p |-> list.p, n |-> list.n]
        ELSE [p |-> first.p, n |-> first.n]

list_expression(p, rest, empty) == Listed(Item(p, rest, empty, TRUE), rest, empty)

expression(p) == list_expression(p, FALSE, FALSE)
-----------------------------------------------------------------------------
Overloads == {"+", "=", "==", "<=>", "**", "~~"}

ExtendedOverloads == {"<=>", "**", "~~"}

(* What follows the dot, and what follows the name if there was one.       *)
member_expression(p) ==
    LET operator == Node("IDENTIFIER", p.token, <<>>)
        pair(name, close) ==
            [p |-> Expect(Get(p), close, "INVALID_OPERATOR"), n |-> Node("IDENTIFIER", name, <<>>)]
    IN  CASE p.token \in Identifiers \union {"delete", "'s'"} -> [p |-> Get(p), n |-> operator]
          [] p.token \in Overloads ->
                 [p |-> Get(CheckExtension(p, ExtendedOverloads)), n |-> operator]
          [] p.token = "[" -> pair("[]", "]")
          [] p.token = "(" -> pair("()", ")")
          [] OTHER -> [p |-> Report(p, "INVALID_EXPRESSION"), n |-> Node("IDENTIFIER", "__error__", <<>>)]

(* The name of the scope ends the expression.                              *)
ScopeExpression(r) ==
    LET q == Get(CheckExtension(r.p, {"::"}))
    IN  IF q.token \in Identifiers
        THEN [p |-> Get(q), n |-> Node("::", "", <<r.n, Leaf(q.token)>>)]
        ELSE [p |-> Report(q, "INVALID_SCOPE"), n |-> Node("::", "", <<r.n>>)]

(* A list in parentheses is taken for the list of the arguments.           *)
CallExpression(r) ==
    LET q    == Get(r.p)
        list == Call("arguments", q)
        none == [p |-> q, n |-> Node("LIST", "", <<>>)]
        args == IF q.token = ")" THEN none
                ELSE IF list.n.op = "LIST" THEN list
                ELSE [list EXCEPT !.n = Node("LIST", "", <<list.n>>)]
    IN  [p |-> Expect(args.p, ")", "PARENTHESIS_EXPECTED"),
         n |-> Node("CALL", "", <<r.n, args.n>>)]

ArrayExpression(r) ==
    LET q     == Get(r.p)
        index == Call("expression", q)
        end   == BinaryExpression(ShiftLevel, Get(CheckExtension(index.p, Ranges)))
        whole == IF q.token = "]" THEN [p |-> Report(q, "EXPRESSION_EXPECTED"), n |-> <<>>]
                 ELSE IF index.p.token \in Ranges THEN [p |-> end.p, n |-> <<index.n, end.n>>]
                 ELSE [p |-> index.p, n |-> <<index.n>>]
    IN  [p |-> Expect(whole.p, "]", "SQUARE_BRACKETS_EXPECTED"),
         n |-> Node("ARRAY", "", <<r.n>> \o whole.n)]

MemberExpression(r) ==
    LET field == member_expression(Get(r.p))
    IN  [p |-> field.p, n |-> Node(r.p.token, "", <<r.n, field.n>>)]

RECURSIVE Postfixes(_)
Postfixes(r) ==
    CASE r.p.token \in {".", "?."}   -> Postfixes(MemberExpression(r))
      [] r.p.token = "::"            -> ScopeExpression(r)
      [] r.p.token \in {"++", "--"}  -> Postfixes([p |-> Get(r.p), n |-> Node("POST" \o r.p.token, "", <<r.n>>)])
      [] r.p.token = "("             -> Postfixes(CallExpression(r))
      [] r.p.token = "["             -> Postfixes(ArrayExpression(r))
      [] OTHER                       -> r
-----------------------------------------------------------------------------
(* The parenthesised name is dynamic: the name is in the variable.         *)
Dynamic(n) == IF n.op = "IDENTIFIER" THEN [n EXCEPT !.op = "VIDENTIFIER"] ELSE n

Grouped(p) ==
    LET list == Call("expression", Get(p))
    IN  [p |-> Expect(list.p, ")", "PARENTHESIS_EXPECTED"), n |-> Dynamic(list.n)]

ArrayLiteral(p) ==
    LET list == Call("elements", Get(p))
    IN  [p |-> Expect(list.p, "]", "SQUARE_BRACKETS_EXPECTED"),
         n |-> Node("ARRAY_LITERAL", "", <<list.n>>)]

Concatenated(left, right) == Node("+", "", <<left, right>>)

(* get_next_template_token(): the text up to the next ${ or to the end.    *)
TemplateToken(p) ==
    LET ends == {j \in p.at + 1 .. Len(p.text) : p.text[j] \in {"middle", "tail"}}
        j    == CHOOSE k \in ends : \A e \in ends : k <= e
    IN  IF ends = {} THEN [Report(p, "UNTERMINATED_STRING") EXCEPT !.at = Len(p.text), !.token = "tail"]
        ELSE [p EXCEPT !.at = j, !.token = p.text[j]]

RECURSIVE Template(_)
Template(r) ==
    LET inside == Call("expression", r.p)
        asText == Node("as", "", <<inside.n, Node("IDENTIFIER", "string", <<>>)>>)
        q      == TemplateToken(inside.p)
        more   == [p |-> Get(q),
                   n |-> Concatenated(Concatenated(r.n, asText), Node("STRING", q.token, <<>>))]
    IN  IF inside.p.token # "}" \/ inside.p.unget # <<>>
        THEN [p |-> Report(inside.p, "INVALID_TEMPLATE"), n |-> r.n]
        ELSE IF q.token = "tail" THEN more ELSE Template(more)

(* The :: that may follow the beginning of the name of a field.            *)
FieldScope(p, name, mandatory) ==
    LET q == Get(CheckExtension(p, {"::"}))
    IN  IF p.token # "::" THEN [p |-> ReportIf(p, mandatory, "INVALID_FIELD_NAME"), n |-> name]
        ELSE IF q.token \in Identifiers
        THEN [p |-> Get(q), n |-> [name EXCEPT !.kids = Append(@, Leaf(q.token))]]
        ELSE [p |-> Report(q, "INVALID_SCOPE"), n |-> name]

FieldName(p) ==
    LET inside == Call("expression", Get(p))
    IN  CASE p.token = "(" -> FieldScope(Expect(inside.p, ")", "INVALID_FIELD_NAME"),
                                         Node("NAME", "", <<Dynamic(inside.n)>>), TRUE)
          [] p.token \in Identifiers -> FieldScope(Get(p), Node("NAME", p.token, <<>>), FALSE)
          [] p.token \in Access      -> FieldScope(Get(p), Node("NAME", "", <<>>), TRUE)
          [] p.token \in Fields      -> [p |-> Get(p), n |-> Leaf(p.token)]
          [] OTHER -> [p |-> Report(p, "INVALID_FIELD"), n |-> Node("NAME", "", <<>>)]

EndOfObject(token) == token \in {"}", ";"}

(* A field at a time.  Nothing is skipped after an error: when neither the *)
(* name nor the value took a token, the next turn finds the parser as this *)
(* one did, and the loop never ends.                                       *)
RECURSIVE ObjectFields(_, _)
ObjectFields(p, n) ==
    LET name  == FieldName(p)
        colon == name.p.token = ":"
        wrong == Report(name.p, "COLON_EXPECTED")
        after == Get(wrong)
        value == Call("assignment_expression", IF colon THEN Get(name.p) ELSE wrong)
        whole == [n EXCEPT !.kids = @ \o <<name.n, Node("SET", "", <<value.n>>)>>]
        again == ReportIf(value.p, TRUE, "COMMA_EXPECTED")
        Same(q) == q.at = p.at /\ q.token = p.token /\ q.unget = p.unget
    IN  IF p.stopped # "" THEN [p |-> p, n |-> n]
        ELSE IF ~colon /\ EndOfObject(wrong.token) THEN [p |-> wrong, n |-> n]
        ELSE IF ~colon /\ wrong.token = ","
        THEN IF EndOfObject(after.token) THEN [p |-> after, n |-> n] ELSE ObjectFields(after, n)
        ELSE IF value.p.token = "}" THEN [p |-> value.p, n |-> whole]
        ELSE IF value.p.token = "," THEN ObjectFields(Get(value.p), whole)
        ELSE IF value.p.token = ";" THEN [p |-> again, n |-> whole]
        ELSE IF Same(again) THEN [p |-> Stop(again, "loops"), n |-> whole]
        ELSE ObjectFields(again, whole)

primary_expression(p) ==
    CASE p.token \in Identifiers \union Literals -> [p |-> get_token(p, FALSE), n |-> Leaf(p.token)]
      [] p.token = "head" -> Template([p |-> Get(p), n |-> Node("STRING", p.token, <<>>)])
      [] p.token \in Access  -> [p |-> Get(CheckExtension(p, Access)), n |-> Leaf(p.token)]
      [] p.token = "new"     -> LET object == Call("postfix_expression", Get(p))
                                IN  [p |-> object.p, n |-> Node("new", "", <<object.n>>)]
      [] p.token = "("       -> Grouped(p)
      [] p.token = "["       -> ArrayLiteral(p)
      [] p.token = "{"       -> LET fields == ObjectFields(Get(p), Node("OBJECT_LITERAL", "", <<>>))
                                IN  [fields EXCEPT !.p = Expect(@, "}", "CURVLY_BRACKETS_EXPECTED")]
      [] OTHER               -> [p |-> Report(p, "INVALID_EXPRESSION"), n |-> Leaf("null")]

postfix_expression(p) == Postfixes(primary_expression(p))

(* Two tildes, or a tilde and an exclamation mark, are one token: here it  *)
(* is two operators.                                                       *)
Doubled == [t \in {"~~", "~!"} |-> IF t = "~~" THEN "~" ELSE "!"]

unary_expression(p) ==
    LET postfix == Call("postfix_expression", Get(p))
        unary   == Call("unary_expression", Get(p))
    IN  CASE p.token \in {"delete", "++", "--"} -> [p |-> postfix.p, n |-> Node(p.token, "", <<postfix.n>>)]
          [] p.token \in {"void", "typeof", "+", "-", "~", "!"} ->
                 [p |-> unary.p, n |-> Node(p.token, "", <<unary.n>>)]
          [] p.token \in DOMAIN Doubled ->
                 [p |-> unary.p, n |-> Node("~", "", <<Node(Doubled[p.token], "", <<unary.n>>)>>)]
          [] OTHER -> Call("postfix_expression", p)

Call(function, p) ==
    CASE function = "assignment_expression" -> assignment_expression(p)
      [] function = "expression"            -> expression(p)
      [] function = "arguments"             -> list_expression(p, TRUE, FALSE)
      [] function = "elements"              -> list_expression(p, FALSE, TRUE)
      [] function = "unary_expression"      -> unary_expression(p)
      [] function = "postfix_expression"    -> postfix_expression(p)
=============================================================================
