---------------------------- MODULE ControlFlow ----------------------------
(***************************************************************************)
(* What the directives of Statements mean: which directive may be executed *)
(* after which.  Every condition may be true or false, also that of a do   *)
(* after a continue; every try may end with an exception and none of the   *)
(* catches after it need take it, so that what follows a try or a catch in *)
(* its list, a finally among them, may be executed however it ends.        *)
(***************************************************************************)
EXTENDS Statements

In(p)  == <<p, "in">>
Out(p) == <<p, "out">>

\* A list of p was executed to its end.
Completed(p) ==
    CASE body[p].kind \in LoopKinds                     -> {In(p), Out(p)}
      [] body[p].kind \in FunctionKinds \union {"program"} -> {}
      [] OTHER                                          -> {Out(p)}

\* The list k of p is started.
Started(p, k) == IF body[p].sizes[k] > 0 THEN {In(p \o <<k, 1>>)} ELSE Completed(p)

AllStarted(p) == UNION {Started(p, k) : k \in 1..Len(body[p].sizes)}

Entered(p) ==
    CASE Kind(p) \in {"return", "return_value", "throw"} -> {}
      [] Kind(p) = "goto"     -> IF p \in DOMAIN enters THEN {In(enters[p])} ELSE {}
      [] Kind(p) = "break"    -> IF p \in DOMAIN exits THEN {Out(exits[p])} ELSE {}
      [] Kind(p) = "continue" -> IF p \in DOMAIN exits THEN {In(exits[p]), Out(exits[p])} ELSE {}
      [] Kind(p) = "switch"   ->
            {Out(p)} \union {In(c) : c \in {d \in Children(p, 1) : Kind(d) \in {"case", "default"}}}
      [] Kind(p) \in {"while", "for", "try", "catch", "typed_catch"} -> {Out(p)} \union AllStarted(p)
      [] Kind(p) = "if" ->
            AllStarted(p) \union (IF Len(body[p].sizes) = 1 THEN {Out(p)} ELSE {})
      [] Kind(p) \in {"do", "list", "with", "finally"} -> AllStarted(p)
      [] OTHER -> {Out(p)}

Left(p) == IF After(p) # <<>> THEN {In(After(p))} ELSE Completed(Owner(p))

Steps(point) == IF point[2] = "in" THEN Entered(point[1]) ELSE Left(point[1])

Starts ==
    UNION {Started(f, 1) : f \in {p \in DOMAIN body : body[p].kind \in FunctionKinds \union {"program"}}}

Executable ==
    LET reach[n \in Nat] ==
            IF n = 0 THEN Starts
            ELSE LET before == reach[n - 1]
                 IN  before \union UNION {Steps(point) : point \in before}
    IN  reach[2 * Cardinality(DOMAIN body)]

-----------------------------------------------------------------------------
(* Properties *)

JumpKinds == {"break", "continue"}
TryKinds  == {"try", "catch", "typed_catch", "finally"}

Reported(what) == {e.at : e \in {f \in errors : f.what = what}}

\* The directives a break or continue may mean, however it is written.
Meant(p) ==
    {q \in Enclosing(p) :
        /\ \/ body[q].kind \in LoopKinds
           \/ body[q].kind = "switch" /\ (Kind(p) = "break" \/ Name(p) # NoName)
        /\ Name(p) # NoName =>
            \E l \in DOMAIN body :
                /\ Front(l) = Front(q) /\ Last(l) < Last(q)
                /\ \A i \in (Last(l) + 1)..(Last(q) - 1) : Sibling(q, i) \in removed
                /\ Kind(l) = "label" /\ Name(l) = Name(p)
        /\ Routine(q) = Routine(p)}

Compiled == {p \in DOMAIN body \ {<<>>} : \A q \in Enclosing(p) \union {p} : q \notin unknown}

(* goto_directive() and break_continue(): every jump leads to a place of its   *)
(* own function, the innermost directive that its words may mean; a goto       *)
(* leaves the smallest list that holds it and its label, and a jump that has   *)
(* nowhere to go is an error.                                                  *)
JumpsLand ==
    outcome = "done" =>
        \A p \in Compiled :
            /\ Kind(p) \in JumpKinds =>
                IF Meant(p) = {} THEN p \in Reported("NO_TARGET") /\ p \notin DOMAIN exits
                ELSE (removed = {} => p \notin Reported("NO_TARGET")) /\ exits[p] = Longest(Meant(p))
            /\ Kind(p) = "goto" =>
                IF p \in DOMAIN enters
                THEN /\ enters[p] \in LabelsOf(Routine(p)) /\ Name(enters[p]) = Name(p)
                     /\ IsPrefix(exits[p], p) /\ IsPrefix(exits[p], enters[p])
                     /\ exits[p] # p /\ exits[p] # enters[p]
                     /\ p[Len(exits[p]) + 1] # enters[p][Len(exits[p]) + 1]
                ELSE p \in Reported("LABEL_NOT_FOUND")
                     /\ \A l \in LabelsOf(Routine(p)) : Name(l) # Name(p)

(* directive_list() says that a directive is not accessible only when no       *)
(* execution reaches it, those of Executable, which takes every condition both *)
(* ways and skips any catch.  Functions with a goto are left out: a label does *)
(* not reset end_list, so the label a goto leads to may be reported.           *)
InaccessibleIsTrue ==
    outcome = "done" =>
        LET executable == Executable
        IN  \A p \in Reported("INACCESSIBLE") :
                (\A g \in DOMAIN enters : Routine(g) # Routine(p)) => In(p) \notin executable

(* f_scope: while a directive is compiled, the namespaces in use are those     *)
(* given earlier in the lists around it, and only those, in that order;        *)
(* whatever lists and functions were compiled before it.                       *)
NamespacesInScope ==
    stack # <<>> /\ Top.idx <= Size(Top) =>
        LET here == Current(Top)
            seen == {u \in DOMAIN body :
                        /\ u # <<>> /\ Kind(u) = "use" /\ Len(u) <= Len(here)
                        /\ IsPrefix(Front(u), here) /\ Last(u) < here[Len(u)]}
        IN  /\ ToSet(scope) = seen
            /\ \A i, j \in DOMAIN scope : i < j => Precedes(scope[i], scope[j])

(* function() compiles again a function that may end without a return: the     *)
(* second compilation finds nothing wrong that the first had not found wrong.  *)
(* Of a list with a directive that is not accessible it may name another one,  *)
(* the first having been removed, and of a catch that was after a directive    *)
(* marked false it may say that it follows a catch instead of no try.  Labels  *)
(* are left out: find_labels() is called again and reports all of them.        *)
RecompiledAlike ==
    \A e \in errors : e.again =>
        \/ e.what = "DUPLICATES"
        \/ [e EXCEPT !.again = FALSE] \in errors
        \/ e.what = "NOT_LAST_CATCH" /\ [e EXCEPT !.what = "NO_TRY", !.again = FALSE] \in errors
        \/ /\ e.what = "INACCESSIBLE"
           /\ \E p \in removed : Front(p) = Front(e.at) /\ p \in Reported("INACCESSIBLE")

(* The try, catch and finally of a list only look at the directive beside      *)
(* them; when none complains each is in a statement: a try, typed catches, at  *)
(* most one other catch and at most one finally, one of them at least.         *)
TryComplete ==
    outcome = "done" =>
        \A p \in Compiled :
            LET siblings == {q \in Children(Owner(p), p[Len(p) - 1]) : Kind(q) \in TryKinds}
                at(i) == Kind(Sibling(p, i))
                statement(a, b) ==
                    /\ at(a) = "try" /\ a < b
                    /\ \A m \in {n \in (a + 1)..b : Sibling(p, n) \notin removed} :
                        CASE at(m) = "finally" -> m = b
                          [] at(m) = "catch" -> m = b \/ (m + 1 = b /\ at(b) = "finally")
                          [] OTHER -> at(m) = "typed_catch"
            IN  /\ p \in siblings
                /\ siblings \intersect (Reported("INVALID_TRY") \union Reported("NO_TRY")
                                        \union Reported("NOT_LAST_CATCH")) = {}
                => \E a \in 1..Last(p), b \in Last(p)..body[Owner(p)].sizes[p[Len(p) - 1]] :
                        statement(a, b)
=============================================================================
