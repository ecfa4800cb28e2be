------------------------------- MODULE Parsing -------------------------------
(***************************************************************************)
(* A text is given to the parser of expressions: either any sequence of    *)
(* tokens, or the way a tree is written by somebody who knows the          *)
(* precedence of the operators, and the tree is expected back.             *)
(***************************************************************************)
EXTENDS ParserExpression, FiniteSets

CONSTANTS Trees,   \* the trees to write
          Texts    \* sequences of tokens

VARIABLES tree,      \* NoNode when the text is not one of a tree
          text,
          phase,
          extended,  \* use extended_operators
          result

vars == <<tree, text, phase, extended, result>>
-----------------------------------------------------------------------------
(* The precedence of the operators as a table, each line binding more than *)
(* the previous one.  As in ECMAScript, with the extensions of the         *)
(* language in between.                                                    *)
Table == <<{"LIST"}, {"=", "+=", "*=", "<<=", "**=", "<?="}, {"?"}, {"<?", ">?"}, {"||"}, {"^^"},
           {"&&"}, {"|"}, {"^"}, {"&"}, {"==", "approx", "!=", "===", "!==", "<=>", "~~"},
           {"<", ">", "<=", ">=", "is", "as", "in", "instanceof"}, {"<<", ">>", ">>>", "<%", ">%"},
           {"+", "-"}, {"*", "/", "%"}, {"~=", "~!"}, {"**"}>>

Assigning == 2
Choosing == 3
Shifting == 13
Raising == 17
Prefixing == 18
Creating == 19
Following == 20
Simple == 21

UnaryPrefixes == {"delete", "++", "--", "void", "typeof", "+", "-", "~", "!"}

Tightness(n) ==
    CASE n.op = "new" -> Creating
      [] n.op \in {".", "?.", "::", "CALL", "ARRAY", "POST++", "POST--"} -> Following
      [] n.op \in UnaryPrefixes /\ Len(n.kids) = 1 -> Prefixing
      [] n.op \in UNION {Table[i] : i \in DOMAIN Table} /\ (Len(n.kids) > 1 \/ n.op = "LIST") ->
             CHOOSE i \in DOMAIN Table : n.op \in Table[i]
      [] OTHER -> Simple

Between(parts, separator) ==
    FoldLeft(LAMBDA all, part : IF all = <<>> THEN part ELSE all \o separator \o part, <<>>, parts)

RECURSIVE Written(_, _)

WrittenKids(n, least, separator) ==
    Between([i \in DOMAIN n.kids |-> Written(n.kids[i], least)], separator)

(* Two tildes that follow each other cannot be told from the operator.     *)
Prefix(op, rest) ==
    IF op = "~" /\ Head(rest) \in {"~", "!"} THEN <<op \o Head(rest)>> \o Tail(rest) ELSE <<op>> \o rest

WrittenInfix(n, k) ==
    LET left(m)  == Written(n.kids[1], m)
        right(m) == Written(n.kids[2], m)
    IN  CASE k = Assigning -> left(k + 2) \o <<n.op>> \o right(k)
          [] k = Choosing  -> left(k + 1) \o <<"?">> \o right(Assigning) \o <<":">> \o Written(n.kids[3], Assigning)
          [] k = Raising   -> left(k + 1) \o <<n.op>> \o right(k)
          [] Len(n.kids) = 3 -> left(k) \o <<n.op>> \o right(k + 1) \o <<"..">> \o Written(n.kids[3], Shifting)
          [] OTHER         -> left(k) \o <<n.op>> \o right(k + 1)

WrittenFollowing(n) ==
    LET object == Written(n.kids[1], Following)
    IN  CASE n.op \in {"POST++", "POST--"} -> object \o <<IF n.op = "POST++" THEN "++" ELSE "--">>
          [] n.op = "CALL"  -> object \o <<"(">> \o WrittenKids(n.kids[2], Assigning, <<",">>) \o <<")">>
          [] n.op = "ARRAY" -> object \o <<"[">> \o WrittenKids([n EXCEPT !.kids = Tail(@)], 1, <<"..">>) \o <<"]">>
          [] OTHER -> object \o <<n.op, n.kids[2].name>>

WrittenFields(n) ==
    Between([i \in 1 .. Len(n.kids) \div 2 |->
                <<n.kids[2 * i - 1].name>>
                \o (IF n.kids[2 * i - 1].kids = <<>> THEN <<>> ELSE <<"::", n.kids[2 * i - 1].kids[1].name>>)
                \o <<":">> \o Written(n.kids[2 * i].kids[1], Assigning)], <<",">>)

WrittenSimple(n) ==
    CASE n.op = "ARRAY_LITERAL" ->
             <<"[">> \o (IF n.kids = <<>> THEN <<>> ELSE Written(n.kids[1], 1)) \o <<"]">>
      [] n.op = "OBJECT_LITERAL" -> <<"{">> \o WrittenFields(n) \o <<"}">>
      [] n.op = "VIDENTIFIER"    -> <<"(", n.name, ")">>
      [] n.op = "NAME"           -> <<n.name, ":">> \o Written(n.kids[1], Assigning)
      [] n.op = "REST"           -> <<"...">>
      [] n.op = "EMPTY"          -> <<>>
      [] OTHER                   -> <<n.name>>

WrittenNode(n) ==
    LET k == Tightness(n)
    IN  CASE n.op = "LIST"  -> WrittenKids(n, Assigning, <<",">>)
          [] n.op \in {"delete", "++", "--", "new"} /\ Len(n.kids) = 1 -> <<n.op>> \o Written(n.kids[1], Creating)
          [] k = Prefixing  -> Prefix(n.op, Written(n.kids[1], Prefixing))
          [] k = Following  -> WrittenFollowing(n)
          [] k = Simple     -> WrittenSimple(n)
          [] OTHER          -> WrittenInfix(n, k)

Written(n, least) ==
    IF Tightness(n) < least THEN <<"(">> \o WrittenNode(n) \o <<")">> ELSE WrittenNode(n)
-----------------------------------------------------------------------------
Init ==
    /\ \/ tree \in Trees /\ text = Written(tree, 1)
       \/ tree = NoNode /\ text \in Texts
    /\ extended \in BOOLEAN
    /\ phase = "read" /\ result = <<>>

Parse ==
    /\ phase = "read"
    /\ phase' = "done"
    /\ result' = Call("expression", Get(StartParser(text, extended)))
    /\ UNCHANGED <<tree, text, extended>>

Spec == Init /\ [][Parse]_vars
-----------------------------------------------------------------------------
RECURSIVE NodesOf(_)
NodesOf(n) == {n} \union UNION {NodesOf(n.kids[i]) : i \in DOMAIN n.kids}

(* The operators which the code looks for once: a || b || a is a || b      *)
(* followed by something else.                                             *)
OnlyOnce == {{"<?", ">?"}, {"||"}, {"^^"}, {"&&"}, {"|"}, {"^"}, {"&"}}

Chained(t) == \E n \in NodesOf(t), group \in OnlyOnce : n.op \in group /\ n.kids[1].op \in group

(* Nothing follows the name of a scope.                                    *)
ScopeGoesOn(t) == \E n \in NodesOf(t) : Tightness(n) = Following /\ n.kids[1].op = "::"

(* The only argument is a list: its items become the arguments.            *)
ListArgument(t) ==
    \E n \in NodesOf(t) : n.op = "CALL" /\ Len(n.kids[2].kids) = 1 /\ n.kids[2].kids[1].op = "LIST"

EmptyLiteral(t) == \E n \in NodesOf(t) : n.op \in {"ARRAY_LITERAL", "OBJECT_LITERAL"} /\ n.kids = <<>>

(* The bracket in which i stands.                                          *)
Depth(s, i, j) ==
    Cardinality({k \in i .. j : s[k] \in {"(", "[", "{"}}) - Cardinality({k \in i .. j : s[k] \in {")", "]", "}"}})

Around(s, i) ==
    LET before == {k \in 1 .. i - 1 : Depth(s, k, i - 1) = 1}
    IN  IF before = {} THEN 0 ELSE CHOOSE k \in before : \A m \in before : m <= k

OperandEnds(s, i) == i > 0 /\ s[i] \in Identifiers \union Literals \union Access \union {")", "]", "}"}

InArguments(s, i) == LET k == Around(s, i) IN k > 0 /\ s[k] = "(" /\ OperandEnds(s, k - 1)

(* The lexer may take the slash at i for the beginning of a regular        *)
(* expression: it follows an operand, but not one which the parser took    *)
(* for a literal or a name; or it follows a name which begins an argument. *)
MayBeExpression(s, i) ==
    \/ i = 1 \/ s[i - 1] \notin Identifiers \union Literals
    \/ i > 2 /\ s[i - 2] \in {".", "?.", "::"}
    \/ i > 2 /\ s[i - 1] \in Identifiers /\ s[i - 2] \in {"(", ","} /\ InArguments(s, i - 1)

Slashes(s) == \E i, j \in DOMAIN s : i < j /\ s[i] = "/" /\ s[j] = "/" /\ MayBeExpression(s, i)

(* A tree comes back from its text, without an error, but where the code   *)
(* stops early or reads two divisions as a regular expression.             *)
Understood(t, s) ==
    ~(Chained(t) \/ ScopeGoesOn(t) \/ ListArgument(t) \/ EmptyLiteral(t) \/ Slashes(s))

Returned == /\ result.n = tree /\ result.p.stopped = ""
            /\ result.p.token = "EOF" /\ result.p.errors \ {"NOT_ALLOWED"} = {}

RoundTrip == phase = "done" /\ tree # NoNode => (Returned <=> Understood(tree, text))

-----------------------------------------------------------------------------
(* What a tree says, without the brackets and the separators.              *)
Silent == {"(", ")", "[", "]", "{", "}", ",", ":", "::", "?", "..", "..."}

RECURSIVE Said(_)
Said(n) ==
    LET all == FlattenSeq([i \in DOMAIN n.kids |-> Said(n.kids[i])])
    IN  CASE n.op = "+" /\ Last(n.kids).op = "STRING" -> Said(n.kids[1]) \o <<Last(n.kids).name>>
          [] n.op = "as" /\ n.kids[2].name = "string" -> Said(n.kids[1])
          [] n.op = "STRING" -> <<n.name>>
          [] n.op \in {"IDENTIFIER", "LITERAL", "ACCESS", "VIDENTIFIER"} ->
                 IF n.name \in {"[]", "()"} THEN <<>> ELSE <<n.name>>
          [] n.op = "NAME" -> IF n.name = "" THEN all ELSE <<n.name>> \o all
          [] n.op \in {"LIST", "EMPTY", "REST", "SET", "?", "::", "CALL", "ARRAY", "ARRAY_LITERAL", "OBJECT_LITERAL"} -> all
          [] n.op \in {"POST++", "POST--"} -> all \o <<IF n.op = "POST++" THEN "++" ELSE "--">>
          [] Len(n.kids) = 1 -> <<n.op>> \o all
          [] n.op = "+" /\ n.kids[2].op = "as" /\ n.kids[2].kids[2].name = "string" -> all
          [] OTHER -> Said(n.kids[1]) \o <<n.op>> \o FlattenSeq([i \in 1 .. Len(n.kids) - 1 |-> Said(n.kids[i + 1])])

Split(tokens) == FlattenSeq([i \in DOMAIN tokens |->
    IF tokens[i] = "~~" THEN <<"~", "~">> ELSE IF tokens[i] = "~!" THEN <<"~", "!">> ELSE <<tokens[i]>>])

ReadSoFar == SubSeq(text, 1, IF result.p.token = "EOF" THEN Len(text) ELSE result.p.at - 1)

(* A text that raises no error is in its tree, token for token and in      *)
(* order: the token read ahead of a named argument included.               *)
NothingLost ==
    phase = "done" /\ result.p.errors = {} /\ result.p.stopped = "" /\ ~Slashes(text) =>
        /\ result.p.unget = <<>>
        /\ Split(Said(result.n)) = Split(SelectSeq(ReadSoFar, LAMBDA t : t \notin Silent))

(* The loop over the fields of an object skips nothing after an error: it  *)
(* never ends at a token with which neither a field nor an expression may  *)
(* begin or go on.  Only those that close another bracket, the dots of the *)
(* ranges and the end of the text are such; and the end is met only when   *)
(* the braces do not match.                                                *)
Occurrences(s, token) == Cardinality({i \in DOMAIN s : s[i] = token})

Ends ==
    phase = "done" /\ result.p.stopped = "loops" =>
        \/ result.p.stuck \in {")", "]", "..", "...", "middle", "tail"}
        \/ result.p.stuck = "EOF" /\ Occurrences(text, "{") > Occurrences(text, "}")
=============================================================================
