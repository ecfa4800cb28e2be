---------------------------- MODULE MCAttributes ----------------------------
(***************************************************************************)
(* Small programs for TLC, all of one shape:                               *)
(*                                                                         *)
(*    program prog { list d {                                              *)
(*        wa var { a = ... }   wb var { b = ... }                          *)
(*        wf function f                                                    *)
(*        wc class cls { list e { wm function m { list s } } } } }         *)
(*                                                                         *)
(* They differ in the order of the four directives, in the words and in    *)
(* the values of a and b.                                                  *)
(***************************************************************************)
EXTENDS Attributes, TLC

CONSTANTS prog, d, va, a, vb, b, f, cls, e, m, s

\* The program of the children k, kinds t, words w and values i; a node left out
\* of k, w or i has none.
Program(k, t, w, i) ==
    LET all(g) == g @@ [n \in Nodes |-> << >>]
        above(n) == {q \in Nodes : \E j \in DOMAIN all(k)[q] : all(k)[q][j] = n}
    IN  [parent |-> [n \in Nodes |-> IF above(n) = {} THEN NoNode
                                     ELSE CHOOSE q \in above(n) : TRUE],
         kids |-> all(k), kind |-> t, words |-> all(w), items |-> all(i)]

KindOf == prog :> "program" @@ d :> "list" @@ va :> "var" @@ a :> "variable"
          @@ vb :> "var" @@ b :> "variable" @@ f :> "function" @@ cls :> "class"
          @@ e :> "list" @@ m :> "function" @@ s :> "list"

\* The shape above, with the directives of d in the order o.
Shape(o, w, i) ==
    Program(prog :> << d >> @@ d :> o @@ va :> << a >> @@ vb :> << b >>
            @@ cls :> << e >> @@ e :> << m >> @@ m :> << s >>, KindOf, w, i)

Set(w) == [word |-> w, asks |-> NoNode, value |-> "NONE"]
Expression(n, v) == [word |-> "EXPRESSION", asks |-> n, value |-> v]

Orders == {<< va, vb, f, cls >>, << f, vb, cls, va >>}

\* Lists of words only.
PlainTrees ==
    {Shape(o, f :> wf @@ cls :> wc @@ m :> wm, a :> ia @@ b :> << Set("VIRTUAL") >>) :
        o  \in Orders,
        wf \in {<< "ABSTRACT", b >>, << a, "NATIVE" >>},
        wc \in {<< "PRIVATE", a, "FINAL" >>, << "NATIVE", b, "STATIC" >>,
                << "FALSE", "STATIC" >>},
        wm \in {<< "TRUE", a >>, << b, "STATIC", "NATIVE" >>},
        ia \in {<< Set("PUBLIC"), Expression(NoNode, "NONE"), Expression(NoNode, "TRUE") >>}}

\* Lists that name lists, circular ones included, and expressions that ask for
\* the attributes of a member.  The name s is not declared.
NestedTrees ==
    {Shape(o, f :> wf @@ cls :> << b, "FALSE" >> @@ m :> << a, s >>, a :> ia @@ b :> ib) :
        o  \in Orders,
        wf \in {<< a >>, << b, "PRIVATE" >>},
        ia \in {<< Set("PUBLIC") >>, << Set(b) >>, << Expression(m, "TRUE") >>},
        ib \in {<< Set(a), Set("VIRTUAL") >>, << Set("PRIVATE") >>, << Set(b) >>}}

AllTrees == PlainTrees \union NestedTrees
=============================================================================
