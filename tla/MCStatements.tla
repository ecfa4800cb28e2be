---------------------------- MODULE MCStatements ----------------------------
(* The programs compiled: all those of a few shapes, to three lists deep. *)
EXTENDS ControlFlow

None == "none"

Node(kind, name, false, lists) ==
    LET sizes == [k \in 1..Len(lists) |-> Len(lists[k])]
        below == UNION {UNION {{<<k, i>> \o q : q \in DOMAIN lists[k][i]} :
                                    i \in 1..Len(lists[k])} : k \in 1..Len(lists)}
    IN  [p \in {<<>>} \union below |->
            IF p = <<>> THEN [kind |-> kind, name |-> name, false |-> false, sizes |-> sizes]
            ELSE lists[p[1]][p[2]][SubSeq(p, 3, Len(p))]]

Leaf(kind) == Node(kind, None, FALSE, <<>>)
Named(kind, name) == Node(kind, name, FALSE, <<>>)
Over(kind, list) == Node(kind, None, FALSE, <<list>>)

Lists(set, n) == UNION {[1..m -> set] : m \in 0..n}

Plains  == {Leaf("expression"), Leaf("use")}
Jumps   == {Leaf("break"), Leaf("continue"), Named("break", "a"), Named("continue", "a"), Leaf("return_value")}
Marks   == {Named("label", "a"), Leaf("case"), Leaf("default")}
Simple  == Plains \union Jumps \union Marks
Around  == {"list", "while", "do", "switch", "if", "try"}
Either  == {"function", "procedure"}

\* A function with directives of all kinds, at most two of them.
Leafy == Plains \union Jumps \union Marks \union
    {Leaf("throw"), Leaf("return"), Named("goto", "a"), Named("label", "b"),
     Node("var", None, TRUE, <<>>)}

Short == {Over(f, list) : f \in Either \union {"program"}, list \in Lists(Leafy, 2)}

\* A directive of two simple ones between a label and another.
Single ==
    {Over("function", <<before, Over(kind, list), after>>) :
        before \in {Named("label", "a"), Leaf("use"), Leaf("return_value")},
        kind \in Around \union {"for", "with", "function"},
        list \in Lists(Simple \union {Named("goto", "a")}, 2),
        after \in {Leaf("expression"), Leaf("return_value"), Leaf("default")}}

\* Directives in directives, with a label before each.
Deep ==
    {Over(f, <<Named("label", "a"), Over(outer, <<first, Named("label", name), Over(inner, <<last>>), then>>)>>) :
        f \in Either,
        outer \in Around \union Either, inner \in Around \union Either, name \in {"a", "b"},
        first \in {Leaf("case"), Leaf("use")},
        last \in Jumps \union {Named("break", "b"), Named("goto", "b"), Leaf("use")},
        then \in {Leaf("expression"), Leaf("default")}}

Branches ==
    {Over("function", <<Node("if", None, FALSE, <<<<then>>, <<else>>>>), after>>) :
        then \in Leafy, else \in Leafy, after \in Simple}

Tries ==
    {Over("procedure", [i \in DOMAIN list |->
                            IF list[i] = "expression" THEN Leaf("expression")
                            ELSE Over(list[i], <<Leaf("throw")>>)]) :
        list \in Lists(TryKinds \union {"expression"}, 4)}

\* A declaration marked false between two directives that must be side by side.
Hiding ==
    {Over("function", <<first, Node("var", None, TRUE, <<>>), Over(kind, <<inside>>), after>>) :
        first \in {Named("label", "a"), Over("try", <<Leaf("throw")>>), Leaf("return_value")},
        kind \in {"while", "switch", "catch", "function"},
        inside \in {Named("break", "a"), Leaf("default"), Node("var", None, TRUE, <<>>)},
        after \in Simple}

\* ... and between two catches.
Separated ==
    {Over("function", <<Over("try", <<Leaf("throw")>>), Over("catch", <<Leaf("throw")>>),
                        Node("var", None, TRUE, <<>>), Over(kind, <<Leaf("throw")>>), after>>) :
        kind \in {"catch", "typed_catch", "finally"}, after \in Simple}

MCBodies == Short \union Single \union Deep \union Branches \union Tries \union Hiding \union Separated
=============================================================================
