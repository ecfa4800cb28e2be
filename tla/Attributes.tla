----------------------------- MODULE Attributes -----------------------------
(***************************************************************************)
(* compiler_attributes.cpp: the attributes of a node (private, static,     *)
(* final, false...) are computed the first time get_attribute() asks for   *)
(* one, and cached in the node.  Computing them goes over the words        *)
(* written in front of the directive, then over the attributes of the      *)
(* parent.  A word which is not the name of an attribute names a variable  *)
(* that holds a list of words: resolve_name() searches the directives      *)
(* around the node for it, and asks for the attributes of every function   *)
(* it goes by.  So the computation of a node starts those of others while  *)
(* it is itself half done.                                                 *)
(*                                                                         *)
(* The exclusive attributes come from node_attribute.cpp.                  *)
(***************************************************************************)
EXTENDS Naturals, FiniteSets, Sequences, SequencesExt

CONSTANTS
    Nodes,      \* nodes of the tree
    NoNode,     \* nullptr
    Trees,      \* the programs considered, see Tree
    MaxDepth    \* bound of the recursion

Kinds == {"program", "list", "class", "function", "var", "variable"}

-----------------------------------------------------------------------------
(* node_attribute.cpp *)

Identifiers ==
    {"ARRAY", "AUTOBREAK", "CONSTRUCTOR", "DEPRECATED", "DYNAMIC",
     "ENUMERABLE", "FOREACH", "INTERNAL", "NOBREAK", "UNIMPLEMENTED",
     "UNSAFE", "UNUSED", "VIRTUAL"}

Keywords ==
    {"ABSTRACT", "EXTERN", "FALSE", "FINAL", "INLINE", "NATIVE", "PRIVATE",
     "PROTECTED", "PUBLIC", "STATIC", "TRANSIENT", "TRUE", "VOLATILE"}

Literals == Identifiers \union Keywords

\* The keywords that may be the value of a variable of attributes.
ValueLiterals ==
    Identifiers \union
    {"FALSE", "INLINE", "PRIVATE", "PROTECTED", "PUBLIC", "TRUE"}

AttributeSet == Literals \union {"DEFINED"}

\* The attributes that keep a from being set, as verify_exclusive_attributes()
\* lists them, one case per attribute.
Conflicts(a) ==
    CASE a = "PUBLIC"      -> {"PRIVATE", "PROTECTED"}
      [] a = "PRIVATE"     -> {"PUBLIC", "PROTECTED"}
      [] a = "PROTECTED"   -> {"PUBLIC", "PRIVATE"}
      [] a = "ABSTRACT"    -> {"STATIC", "CONSTRUCTOR", "VIRTUAL", "NATIVE", "INLINE"}
      [] a = "CONSTRUCTOR" -> {"STATIC", "VIRTUAL", "INLINE", "ABSTRACT"}
      [] a = "INLINE"      -> {"ABSTRACT", "CONSTRUCTOR", "NATIVE", "VIRTUAL"}
      [] a = "NATIVE"      -> {"ABSTRACT", "INLINE"}
      [] a = "STATIC"      -> {"ABSTRACT", "CONSTRUCTOR", "VIRTUAL"}
      [] a = "VIRTUAL"     -> {"STATIC", "CONSTRUCTOR", "ABSTRACT", "INLINE"}
      [] a = "FOREACH"     -> {"NOBREAK", "AUTOBREAK"}
      [] a = "NOBREAK"     -> {"FOREACH", "AUTOBREAK"}
      [] a = "AUTOBREAK"   -> {"FOREACH", "NOBREAK"}
      [] a = "TRUE"        -> {"FALSE"}
      [] a = "FALSE"       -> {"TRUE"}
      [] OTHER             -> {}

\* set_attribute(a, true): a conflict is an error, and a is not set; the mutant
\* reports the error and sets it all the same
SetAttributeReported(S, a) == S \union {a}
SetAttribute(S, a) == IF S \intersect Conflicts(a) = {} THEN S \union {a} ELSE S

\* set_attribute(a, P->get_attribute(a))
CopyAttribute(S, a, P) == IF a \in P THEN SetAttribute(S, a) ELSE S \ {a}

-----------------------------------------------------------------------------
(* A program: its tree, the words in front of each directive (`words') and *)
(* the values of its variables (`items').  A word is an attribute or the   *)
(* variable it names.  The word of an item is "EXPRESSION" for anything    *)
(* else: `asks' is then the node whose attributes its evaluation asks for, *)
(* if any, and `value' what it is reduced to.  What is not reduced to a    *)
(* boolean is an error and sets nothing, and so is a type.                 *)

Words == Literals \union Nodes

Items == [word : ValueLiterals \union Nodes \union {"EXPRESSION"},
          asks : Nodes \union {NoNode},
          value : {"TRUE", "FALSE", "NONE"}]

Tree ==
    [parent : [Nodes -> Nodes \union {NoNode}],
     kids   : [Nodes -> Seq(Nodes)],
     kind   : [Nodes -> Kinds],
     words  : [Nodes -> Seq(Words)],
     items  : [Nodes -> Seq(Items)]]

ASSUME NodesAssumption == IsFiniteSet(Nodes)

ASSUME NoNodeAssumption == NoNode \notin Nodes

\* Words and nodes can be told apart.
ASSUME WordsAssumption == Nodes \intersect (Literals \union {"EXPRESSION"}) = {}

\* The program is the root, a node is among the children of its parent and of no
\* other node, nothing is above itself, and a "var" in a list of directives
\* declares variables.
WellFormed(t) ==
    /\ \A n \in Nodes :
        /\ t.parent[n] = NoNode <=> t.kind[n] = "program"
        /\ t.parent[n] # NoNode =>
              \E i \in DOMAIN t.kids[t.parent[n]] : t.kids[t.parent[n]][i] = n
        /\ t.kind[n] = "variable" => t.kind[t.parent[n]] = "var"
        /\ t.kind[n] = "var" => t.kind[t.parent[n]] = "list"
        /\ \A i \in DOMAIN t.kids[n] :
              /\ t.parent[t.kids[n][i]] = n
              /\ t.kind[n] = "var" => t.kind[t.kids[n][i]] = "variable"
    /\ \A S \in SUBSET Nodes : S # {} => \E n \in S : t.parent[n] \notin S

ASSUME TreesAssumption == Trees \subseteq Tree /\ \A t \in Trees : WellFormed(t)

ASSUME DepthAssumption == MaxDepth \in Nat

-----------------------------------------------------------------------------
VARIABLES
    tree,       \* the program
    attrs,      \* node::f_attributes
    looping,    \* the variables with NODE_VARIABLE_FLAG_ATTRS
    looped,     \* the AS_ERR_LOOPING_REFERENCE reported: for a node, on a list
    stack       \* the calls in progress, the innermost last

vars == << tree, attrs, looping, looped, stack >>

(* A frame is a call of prepare_attributes(node) in one of the stages     *)
(*   "own"      the words of the node, from pos on                        *)
(*   "inherit"  the parent has been prepared                              *)
(* or one of identifier_to_attrs() for the word `list':                   *)
(*   "search"   resolve_name(): `todo' is what remains of the directives  *)
(*              around `at'                                               *)
(*   "found"    check_name() has asked for the attributes of the variable *)
(*   "list"     the values of the variable, from pos on                   *)
(*   "value"    the value at pos is an expression, evaluated              *)
Frames ==
    [node : Nodes,
     stage : {"own", "inherit", "search", "found", "list", "value"},
     pos : Nat \ {0}, list : Nodes, at : Nodes, todo : Seq(Nodes)]

TypeOK ==
    /\ tree \in Trees
    /\ attrs \in [Nodes -> SUBSET AttributeSet]
    /\ looping \subseteq Nodes
    /\ looped \subseteq Nodes \X Nodes
    /\ stack \in Seq(Frames)

Top == Last(stack)
Below == Front(stack)

Prepared(n) == "DEFINED" \in attrs[n]

OwnFrame(n) ==
    [node |-> n, stage |-> "own", pos |-> 1, list |-> n, at |-> n, todo |-> << >>]

SearchFrame(n, l) ==
    [node |-> n, stage |-> "search", pos |-> 1, list |-> l, at |-> n, todo |-> << >>]

\* The entry of prepare_attributes(n), under the calls of stk.
Enter(n, stk) ==
    IF n = NoNode \/ Prepared(n)
    THEN /\ stack' = stk
         /\ UNCHANGED attrs
    ELSE /\ attrs' = [attrs EXCEPT ![n] = @ \union {"DEFINED"}]
         /\ stack' = IF tree.kind[n] = "program" THEN stk ELSE Append(stk, OwnFrame(n))

\* node_to_attrs() for a node whose word is an attribute.
Mark(n, a) == attrs' = [attrs EXCEPT ![n] = SetAttribute(@, a)]

Running(stage) == stack # << >> /\ Top.stage = stage

Replace(f) == Append(Below, f)

-----------------------------------------------------------------------------
(* prepare_attributes() *)

\* get_attribute(n, ...), from anywhere in the compiler.
Request(n) ==
    /\ stack = << >>
    /\ Enter(n, stack)
    /\ UNCHANGED << tree, looping, looped >>

\* One turn of the loop over the attribute node.
OwnWord ==
    /\ Running("own")
    /\ Top.pos <= Len(tree.words[Top.node])
    /\ LET w    == tree.words[Top.node][Top.pos]
           next == Replace([Top EXCEPT !.pos = @ + 1])
       IN  \/ /\ w \in Literals
              /\ Mark(Top.node, w)
              /\ stack' = next
           \/ /\ w \in Nodes
              /\ Len(stack) < MaxDepth
              /\ stack' = Append(next, SearchFrame(Top.node, w))
              /\ UNCHANGED attrs
    /\ UNCHANGED << tree, looping, looped >>

\* Nothing is inherited across a function or from the program.
Barrier(n) ==
    \/ tree.parent[n] = NoNode
    \/ tree.kind[tree.parent[n]] \in {"program", "function"}

\* A function with a body cannot be native.
WithoutNative(n, S) ==
    IF /\ tree.kind[n] = "function"
       /\ \E i \in DOMAIN tree.kids[n] : tree.kind[tree.kids[n][i]] = "list"
    THEN S \ {"NATIVE"}
    ELSE S

\* After the last word: the parent first; the mutant does not prepare it
OwnDoneAlone ==
    /\ Running("own")
    /\ Top.pos > Len(tree.words[Top.node])
    /\ IF Barrier(Top.node)
       THEN /\ attrs' = [attrs EXCEPT ![Top.node] = WithoutNative(Top.node, @)]
            /\ stack' = Below
       ELSE /\ stack' = Replace([Top EXCEPT !.stage = "inherit"])
            /\ UNCHANGED attrs
    /\ UNCHANGED << tree, looping, looped >>
OwnDone ==
    /\ Running("own")
    /\ Top.pos > Len(tree.words[Top.node])
    /\ IF Barrier(Top.node)
       THEN /\ attrs' = [attrs EXCEPT ![Top.node] = WithoutNative(Top.node, @)]
            /\ stack' = Below
       ELSE /\ Len(stack) < MaxDepth
            /\ Enter(tree.parent[Top.node], Replace([Top EXCEPT !.stage = "inherit"]))
    /\ UNCHANGED << tree, looping, looped >>

\* What a node whose own attributes are S takes from its parent, of kind k and
\* attributes P: the copies of the code, in its order.  "Class" stands for
\* interfaces too.
Visibility == {"PUBLIC", "PRIVATE", "PROTECTED"}
MemberTypes == {"STATIC", "ABSTRACT", "VIRTUAL"}

Inherited(S, P, k) ==
    LET fromClass == k = "class"
        visible == IF fromClass /\ S \intersect Visibility = {}
                   THEN CopyAttribute(CopyAttribute(CopyAttribute(
                            S, "PUBLIC", P), "PRIVATE", P), "PROTECTED", P)
                   ELSE S
        typed == IF fromClass /\ visible \intersect MemberTypes = {}
                 THEN CopyAttribute(CopyAttribute(CopyAttribute(
                          visible, "STATIC", P), "ABSTRACT", P), "VIRTUAL", P)
                 ELSE visible
        final == IF "FINAL" \in P THEN SetAttribute(typed, "FINAL") ELSE typed
        native == IF "NATIVE" \in P THEN SetAttribute(final, "NATIVE") ELSE final
        listed == IF fromClass THEN CopyAttribute(native, "ENUMERABLE", P) ELSE native
        false == IF "FALSE" \in P THEN SetAttribute(listed \ {"TRUE"}, "FALSE") ELSE listed
    IN  IF "DYNAMIC" \in P THEN SetAttribute(false, "DYNAMIC") ELSE false

\* The parent is prepared, or is being: take from it what it has now.
Inherit ==
    /\ Running("inherit")
    /\ LET n == Top.node
           p == tree.parent[n]
       IN  attrs' = [attrs EXCEPT ![n] =
                        WithoutNative(n, Inherited(@, attrs[p], tree.kind[p]))]
    /\ stack' = Below
    /\ UNCHANGED << tree, looping, looped >>

-----------------------------------------------------------------------------
(* identifier_to_attrs() and resolve_name() *)

\* The directives around n in the order of the search: backward from n, then
\* forward from it.
Around(n) ==
    LET siblings == tree.kids[tree.parent[n]]
        offset   == CHOOSE i \in DOMAIN siblings : siblings[i] = n
    IN  Reverse(SubSeq(siblings, 1, offset - 1))
            \o SubSeq(siblings, offset, Len(siblings))

\* check_name() on the next directive.  That of a function asks for its
\* attributes whatever its name.
CheckName ==
    /\ Running("search")
    /\ Top.todo # << >>
    /\ LET c     == Head(Top.todo)
           next  == Replace([Top EXCEPT !.todo = Tail(@)])
           found == Replace([Top EXCEPT !.stage = "found"])
       IN  \/ /\ tree.kind[c] = "function"
              /\ Len(stack) < MaxDepth
              /\ Enter(c, next)
           \/ /\ tree.kind[c] = "var"
              /\ \E i \in DOMAIN tree.kids[c] : tree.kids[c][i] = Top.list
              /\ Len(stack) < MaxDepth
              /\ Enter(Top.list, found)
           \/ /\ tree.kind[c] # "function"
              /\ ~ \E i \in DOMAIN tree.kids[c] : tree.kids[c][i] = Top.list
              /\ stack' = next
              /\ UNCHANGED attrs
    /\ UNCHANGED << tree, looping, looped >>

\* Nothing there: go on around the parent, up to the program.
SearchUp ==
    /\ Running("search")
    /\ Top.todo = << >>
    /\ LET up == tree.parent[Top.at]
       IN  \/ /\ tree.kind[up] = "program"
              /\ stack' = Below
           \/ /\ tree.kind[up] # "program"
              /\ stack' = Replace([Top EXCEPT
                    !.at = up,
                    !.todo = IF tree.kind[up] = "list" THEN Around(Top.at) ELSE << >>])
    /\ UNCHANGED << tree, attrs, looping, looped >>

\* The variable is found: walk over its values, unless this is being done; the
\* mutant returns without the error
FoundSilent ==
    /\ Running("found")
    /\ \/ /\ Top.list \in looping
          /\ stack' = Below
          /\ UNCHANGED looping
       \/ /\ Top.list \notin looping
          /\ looping' = looping \union {Top.list}
          /\ stack' = Replace([Top EXCEPT !.stage = "list"])
    /\ UNCHANGED << tree, attrs, looped >>
Found ==
    /\ Running("found")
    /\ \/ /\ Top.list \in looping
          /\ looped' = looped \union {<< Top.node, Top.list >>}
          /\ stack' = Below
          /\ UNCHANGED looping
       \/ /\ Top.list \notin looping
          /\ looping' = looping \union {Top.list}
          /\ stack' = Replace([Top EXCEPT !.stage = "list"])
          /\ UNCHANGED looped
    /\ UNCHANGED << tree, attrs >>

\* variable_to_attrs() for the next value.
Value ==
    /\ Running("list")
    /\ Top.pos <= Len(tree.items[Top.list])
    /\ LET i    == tree.items[Top.list][Top.pos]
           next == Replace([Top EXCEPT !.pos = @ + 1])
       IN  \/ /\ i.word \in ValueLiterals
              /\ Mark(Top.node, i.word)
              /\ stack' = next
           \/ /\ i.word \in Nodes
              /\ Len(stack) < MaxDepth
              /\ stack' = Append(next, SearchFrame(Top.node, i.word))
              /\ UNCHANGED attrs
           \/ /\ i.word = "EXPRESSION"
              /\ Len(stack) < MaxDepth
              /\ Enter(i.asks, Replace([Top EXCEPT !.stage = "value"]))
    /\ UNCHANGED << tree, looping, looped >>

\* The mutant stays on the expression.
EvaluatedAgain ==
    /\ Running("value")
    /\ LET v == tree.items[Top.list][Top.pos].value
       IN  IF v = "NONE" THEN UNCHANGED attrs ELSE Mark(Top.node, v)
    /\ stack' = Replace([Top EXCEPT !.stage = "list"])
    /\ UNCHANGED << tree, looping, looped >>
\* The expression is reduced to a boolean, or refused.
Evaluated ==
    /\ Running("value")
    /\ LET v == tree.items[Top.list][Top.pos].value
       IN  IF v = "NONE" THEN UNCHANGED attrs ELSE Mark(Top.node, v)
    /\ stack' = Replace([Top EXCEPT !.stage = "list", !.pos = @ + 1])
    /\ UNCHANGED << tree, looping, looped >>

\* After the last value; the mutant forgets the flag
ListDoneFlagged ==
    /\ Running("list")
    /\ Top.pos > Len(tree.items[Top.list])
    /\ stack' = Below
    /\ UNCHANGED << tree, attrs, looping, looped >>
ListDone ==
    /\ Running("list")
    /\ Top.pos > Len(tree.items[Top.list])
    /\ looping' = looping \ {Top.list}
    /\ stack' = Below
    /\ UNCHANGED << tree, attrs, looped >>

-----------------------------------------------------------------------------
Init ==
    /\ tree \in Trees
    /\ attrs = [n \in Nodes |-> {}]
    /\ looping = {}
    /\ looped = {}
    /\ stack = << >>

Step ==
    \/ OwnWord \/ OwnDone \/ Inherit
    \/ CheckName \/ SearchUp \/ Found
    \/ Value \/ Evaluated \/ ListDone

Next == Step \/ \E n \in Nodes : Request(n)

Spec == Init /\ [][Next]_vars

\* A call in progress is the only thing the process does.
FairSpec == Spec /\ WF_vars(Step)

-----------------------------------------------------------------------------
(* Properties *)

\* The groups of node_attribute.cpp:109-182 and the exceptions the comment of
\* ATTRIBUTES_GROUP_FUNCTION_TYPE makes.
Groups ==
    {{"TRUE", "FALSE"},
     {"ABSTRACT", "CONSTRUCTOR", "INLINE", "NATIVE", "STATIC", "VIRTUAL"},
     {"FOREACH", "NOBREAK", "AUTOBREAK"},
     Visibility}

Exceptions ==
    {{"NATIVE", "CONSTRUCTOR"}, {"NATIVE", "VIRTUAL"},
     {"NATIVE", "STATIC"}, {"STATIC", "INLINE"}}

\* No node ever has two attributes of one group, own or inherited, whatever the
\* order they come in, but for the exceptions.
Exclusive ==
    \A n \in Nodes : \A g \in Groups :
        \A a, b \in attrs[n] \intersect g :
            a = b \/ {a, b} \in Exceptions

\* The flag that stops circular lists marks the lists being walked over and no
\* other, each walked over once: an early return that kept it would make any
\* later use of the list an error.
Walking(i) == stack[i].stage \in {"list", "value"}

LoopingIsWalking ==
    /\ looping = {stack[i].list : i \in {j \in DOMAIN stack : Walking(j)}}
    /\ \A i, j \in DOMAIN stack :
        Walking(i) /\ Walking(j) /\ stack[i].list = stack[j].list => i = j

\* The variables named by the values of l, and by the words of n.
Names(l) == {tree.items[l][i].word : i \in DOMAIN tree.items[l]} \intersect Nodes
Named(n) == {tree.words[n][i] : i \in DOMAIN tree.words[n]} \intersect Nodes

\* The nodes found going up from n: those of every set that holds the parent of
\* n and the parent of each of its nodes.
Ancestors(n) ==
    LET parents  == {tree.parent[m] : m \in Nodes} \ {NoNode}
        Holds(C, m) == tree.parent[m] \in C \union {NoNode}
        closed   == {C \in SUBSET parents : Holds(C, n) /\ \A m \in C : Holds(C, m)}
    IN  {m \in parents : \A C \in closed : m \in C}

\* The variables declared in the lists of directives around n.
Visible(n) ==
    {l \in Nodes : /\ tree.kind[l] = "variable"
                   /\ tree.parent[tree.parent[l]] \in Ancestors(n)}

\* From l, the names of the lists of S lead to one another without end.
Endless(l, S) ==
    \E C \in SUBSET S : l \in C /\ \A m \in C : Names(m) \intersect C # {}

\* A circular list is never passed over in silence: once a node that uses one is
\* prepared, the error was reported for it.
CircularReported ==
    stack = << >> =>
        \A n \in Nodes :
            /\ Prepared(n)
            /\ \E l \in Named(n) : Endless(l, Visible(n))
            => \E l \in Nodes : << n, l >> \in looped

\* Lists that hold no other list, expressions that ask for no attribute, and no
\* such list in front of a variable: then no node is read half prepared.
Plain ==
    \A n \in Nodes :
        /\ Names(n) = {}
        /\ \A i \in DOMAIN tree.items[n] : tree.items[n][i].asks = NoNode
        /\ tree.kind[n] = "var" => Named(n) = {}

\* Attributes S after a value, after each value of a list, after a word.
ItemGives(S, i) ==
    IF i.word # "EXPRESSION" THEN SetAttribute(S, i.word)
    ELSE IF i.value = "NONE" THEN S ELSE SetAttribute(S, i.value)

ListGives(S, l) ==
    LET set[k \in 0 .. Len(tree.items[l])] ==
            IF k = 0 THEN S ELSE ItemGives(set[k - 1], tree.items[l][k])
    IN  set

WordGives(S, n, w) ==
    IF w \in Literals THEN SetAttribute(S, w)
    ELSE IF w \notin Visible(n) THEN S
    ELSE ListGives(S, w)[Len(tree.items[w])]

\* The attributes of n after each of its words.
OwnGives(n) ==
    LET own[k \in 0 .. Len(tree.words[n])] ==
            IF k = 0 THEN {"DEFINED"} ELSE WordGives(own[k - 1], n, tree.words[n][k])
    IN  own

Own(n) == OwnGives(n)[Len(tree.words[n])]

\* The attributes of n computed from the root down, without cache nor order of
\* requests.
Expected(n) ==
    LET E[m \in Nodes] ==
            IF tree.kind[m] = "program" THEN {"DEFINED"}
            ELSE WithoutNative(m,
                    IF Barrier(m) THEN Own(m)
                    ELSE Inherited(Own(m), E[tree.parent[m]], tree.kind[tree.parent[m]]))
    IN  E[n]

\* The answer does not depend on which nodes were asked for first, nor on what
\* the searches prepared on their way.
OrderIndependent ==
    Plain /\ stack = << >> => \A n \in Nodes : Prepared(n) => attrs[n] = Expected(n)

\* get_attribute() returns, circular lists included.
AttributesReturn == []<>(stack = << >>)
=============================================================================
