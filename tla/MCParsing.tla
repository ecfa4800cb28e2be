----------------------------- MODULE MCParsing -----------------------------
(***************************************************************************)
(* Every operator on names and literals, operators of every level one      *)
(* inside the other, and short texts of any tokens.                        *)
(***************************************************************************)
EXTENDS Parsing

A == Leaf("a")
B == Leaf("b")
F == Leaf("f")
One == Leaf("1")

N1(op, k) == Node(op, "", <<k>>)
N2(op, l, r) == Node(op, "", <<l, r>>)
N3(op, l, m, r) == Node(op, "", <<l, m, r>>)
CallOf(f, args) == N2("CALL", f, Node("LIST", "", args))
Arg(name, kid) == Node("NAME", name, <<kid>>)
Rest == Node("REST", "", <<>>)
Empty == Node("EMPTY", "", <<>>)
List(kids) == Node("LIST", "", kids)
Fields2(kids) == Node("OBJECT_LITERAL", "", kids)
Field(name, n) == <<Node("NAME", name, <<>>), N1("SET", n)>>

Infix == UNION {Table[i] : i \in 2 .. Len(Table)} \ {"?"}

(* One or two operators of each level.                                     *)
Some == {"=", "**=", "<?", "||", "^^", "&&", "|", "^", "&", "==", "~~", "<", "in", "<<", "<%", "+", "-",
         "*", "/", "~!", "**"}
SomePrefixes == {"++", "typeof", "-", "~", "!"}

(* The trees with x or y in every place.                                   *)
With(x, y) ==
    {N2(op, x, y) : op \in Some} \union {N1(op, x) : op \in SomePrefixes}
    \union {N3("?", x, y, A), N3("?", A, x, y), N3("in", A, x, y), N2(".", x, B), N2("::", x, B),
            N1("POST++", x), CallOf(x, <<y>>), CallOf(A, <<x, y>>), CallOf(F, <<Arg("b", x), Rest>>),
            N2("ARRAY", x, y), N1("new", x), N1("ARRAY_LITERAL", List(<<x, Empty, y>>)),
            Fields2(Field("a", x) \o Field("b", y))}

Ones == With(A, One) \union {N2(op, A, B) : op \in Infix} \union {N1(op, A) : op \in UnaryPrefixes}
        \union {List(<<A, B>>), Node("ARRAY_LITERAL", "", <<>>), Node("OBJECT_LITERAL", "", <<>>),
                N3("ARRAY", A, One, B), CallOf(F, <<>>), CallOf(F, <<Arg("a", Rest)>>),
                N2("::", Leaf("private"), A), Node("VIDENTIFIER", "a", <<>>),
                Fields2(<<Node("NAME", "a", <<B>>), N1("SET", One)>>),
                N2(".", A, Node("IDENTIFIER", "delete", <<>>)), N2("?.", A, B),
                N2(".", A, Node("IDENTIFIER", "**", <<>>))}

Twos == UNION {With(x, B) \union With(B, x) : x \in Ones \ {List(<<A, B>>)}} \union
        {CallOf(F, <<List(<<A, B>>)>>), N2("+", List(<<A, B>>), A)}

Divided == UNION {With(N2("/", x, A), y) : x \in {A, N2("/", B, A), N2(".", A, B), N1("POST++", B), CallOf(F, <<A>>), N2("+", A, B)},
                                            y \in {B, N2("/", B, One)}}

MCTrees == Ones \union Twos \union Divided

Vocabulary == {"a", "1", "-", "%", ".", "++", "(", ")", "[", "{", "}", ":", ","}
Short == {"a", "f", "(", ")", ":", ","}

Sequences(set, lengths) == UNION {[1 .. n -> set] : n \in lengths}

MCTexts == Sequences(Vocabulary, 0 .. 3) \union {<<"{">> \o s : s \in Sequences(Vocabulary, {3})}
           \union {<<"f", "(">> \o s \o <<")">> : s \in Sequences(Short \union {"...", "~~", "::"}, 0 .. 3)}
           \union {<<"{">> \o s \o <<"}">> : s \in Sequences({"a", "private", "(", ")", ":", "::", "%", ";", ".."}, 0 .. 4)}
           \union {<<"head">> \o s : s \in {t \in Sequences({"a", "}", "middle", "tail", "+"}, 0 .. 5) :
                    \A i \in DOMAIN t : t[i] = "}" => i = Len(t) \/ t[i + 1] \in {"middle", "tail"}}}
=============================================================================
