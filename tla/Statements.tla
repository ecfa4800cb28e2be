----------------------------- MODULE Statements -----------------------------
(***************************************************************************)
(* compiler_directive.cpp, compiler_statement.cpp and the part of          *)
(* compiler_function.cpp and compiler_compile.cpp that calls them: the     *)
(* compiler goes over the directives of a program or a function, finds     *)
(* where its jumps lead, which directives cannot be reached and which      *)
(* namespaces are in use.  A function whose last directive is not a        *)
(* terminating one is compiled a second time.                              *)
(*                                                                         *)
(* A directive is named by its path from the top: <<1, 3, 2, 1>> is the    *)
(* first directive of the second list of the third directive of the first  *)
(* list of the top.  Expressions are left out (they add or remove nothing  *)
(* in the lists), and no condition is a literal, so that optimize() keeps  *)
(* the directives as they are.                                             *)
(*                                                                         *)
(* A function here is an ordinary one with a body: those marked UNUSED,    *)
(* ABSTRACT or NATIVE (compiler_function.cpp:170, 323, 399-400), those of  *)
(* type Never (402) and constructors (389) are left out.                   *)
(***************************************************************************)
EXTENDS Naturals, Sequences, SequencesExt, FiniteSets

CONSTANTS
    Bodies,         \* programs and functions: path -> directive, see IsBody
    NoName          \* a break without a label

VARIABLES
    body,           \* the program or function compiled
    unknown,        \* directives changed to NODE_UNKNOWN
    removed,        \* those clean_tree() took out of their lists
    labels,         \* f_labels: <<function, name>> -> label
    enters,         \* f_goto_enter of the gotos
    exits,          \* f_goto_exit of the gotos, breaks and continues
    defaults,       \* the switches with NODE_SWITCH_FLAG_DEFAULT
    scope,          \* f_scope: the namespaces in use
    stack,          \* the calls of directive_list(), one frame each
    errors,         \* errors reported: [at, what, again]
    outcome         \* "running", "done", or an exception

vars ==
    <<body, unknown, removed, labels, enters, exits, defaults, scope, stack, errors, outcome>>

FunctionKinds == {"function", "procedure"}    \* a procedure returns Void
LoopKinds     == {"for", "while", "do"}
Leaves ==
    {"expression", "var", "label", "use", "goto", "break", "continue",
     "return", "return_value", "throw", "case", "default"}
Compounds ==
    FunctionKinds \union LoopKinds \union
    {"list", "with", "if", "switch", "try", "catch", "typed_catch", "finally"}

Annotated     == {"var", "use", "list"} \union FunctionKinds   \* those that accept attributes

\* The number of lists of a directive; an if may have an else.
ListCounts(kind) ==
    CASE kind \in Leaves -> {0}
      [] kind = "if"     -> {1, 2}
      [] OTHER           -> {1}

(* b maps the path of every directive to [kind, name, false, sizes]; the lists *)
(* of directives, whose lengths are sizes, have no gap.  The parser refuses    *)
(* attributes, false among them, in front of the other directives.             *)
IsBody(b) ==
    /\ <<>> \in DOMAIN b /\ DOMAIN b \subseteq Seq(Nat) /\ IsFiniteSet(DOMAIN b)
    /\ b[<<>>].kind \in FunctionKinds \union {"program"} /\ ~b[<<>>].false
    /\ \A p \in DOMAIN b :
            /\ p # <<>> => b[p].kind \in Leaves \union Compounds
            /\ b[p].false \in BOOLEAN /\ (b[p].false => b[p].kind \in Annotated)
            /\ b[p].sizes \in Seq(Nat) /\ Len(b[p].sizes) \in ListCounts(b[p].kind)
    /\ DOMAIN b \ {<<>>} =
            UNION {UNION {{p \o <<k, i>> : i \in 1..b[p].sizes[k]} :
                            k \in 1..Len(b[p].sizes)} : p \in DOMAIN b}

ASSUME BodiesAssumption == \A b \in Bodies : IsBody(b)

-----------------------------------------------------------------------------
(* The tree *)

Kind(p) == IF p \in unknown THEN "unknown" ELSE body[p].kind
Name(p) == body[p].name

\* The directive that owns the list in which p is.
Owner(p) == SubSeq(p, 1, Len(p) - 2)

Sibling(p, i) == Front(p) \o <<i>>

\* The directive of a list after index i, the end of the list if there is none.
NextOf(owner, list, i, gone) ==
    LET size == body[owner].sizes[list]
    IN  Min({j \in (i + 1)..size : owner \o <<list, j>> \notin gone} \union {size + 1})

Following(owner, list, i) == NextOf(owner, list, i, removed)

\* The directives after and before p in its list; <<>> at the ends.
After(p) ==
    LET list == p[Len(p) - 1]
        i == Following(Owner(p), list, Last(p))
    IN  IF i <= body[Owner(p)].sizes[list] THEN Sibling(p, i) ELSE <<>>

Before(p) ==
    LET earlier == {i \in 1..(Last(p) - 1) : Sibling(p, i) \notin removed}
    IN  IF earlier # {} THEN Sibling(p, Max(earlier)) ELSE <<>>

\* The directives in which p is, innermost last; p is not one of them.
Enclosing(p) == {q \in DOMAIN body : IsStrictPrefix(q, p)}

Longest(paths) == CHOOSE p \in paths : \A q \in paths : Len(q) <= Len(p)

Children(p, k) == {p \o <<k, i>> : i \in 1..body[p].sizes[k]}

\* Going up, the first of the kinds given.
Innermost(p, kinds) == Longest({q \in Enclosing(p) : body[q].kind \in kinds})

Routine(p) == Innermost(p, FunctionKinds \union {"program"})

-----------------------------------------------------------------------------
(* Errors *)

\* Whether a function around is compiled for the second time.
Again == \E f \in ToSet(stack) : f.again

Error(at, what) == [at |-> at, what |-> what, again |-> Again]

ErrorIf(condition, at, what) == IF condition THEN {Error(at, what)} ELSE {}

-----------------------------------------------------------------------------
(* Labels *)

\* What find_labels(f, n) visits: the labels of f, not those of its functions.
LabelsOf(f) ==
    {p \in DOMAIN body : Len(p) > 0 /\ Kind(p) = "label" /\ Routine(p) = f}

\* The order in which the directives are written.
Precedes(p, q) ==
    \E i \in 1..Len(p) :
        i <= Len(q) /\ SubSeq(p, 1, i - 1) = SubSeq(q, 1, i - 1) /\ p[i] < q[i]

FirstNamed(f, name) ==
    CHOOSE p \in LabelsOf(f) :
        /\ Name(p) = name
        /\ \A q \in LabelsOf(f) : Name(q) = name => p = q \/ Precedes(p, q)

\* f_labels after find_labels(): a name already there is not added again.
FindLabels(f, known) ==
    [key \in known \union {<<f, Name(p)>> : p \in LabelsOf(f)} |->
        IF key \in known THEN labels[key] ELSE FirstNamed(f, key[2])]

Duplicates(f, known, again) ==
    {[at |-> f, what |-> "DUPLICATES", again |-> again] :
        p \in {q \in LabelsOf(f) :
                \/ <<f, Name(q)>> \in known
                \/ \E r \in LabelsOf(f) : r # q /\ Name(r) = Name(q)}}

-----------------------------------------------------------------------------
(* Frames of directive_list() *)

Top == Last(stack)
Size(f) == body[f.owner].sizes[f.list]
Current(f) == f.owner \o <<f.list, f.idx>>

Frame(owner, list, base, again, gone) ==
    [owner |-> owner, list |-> list, idx |-> NextOf(owner, list, 0, gone), base |-> base,
     noAccess |-> FALSE, ending |-> FALSE, again |-> again]

\* The declarations marked false become unknown as the list is entered.
Hidden(owner, list) == {p \in Children(owner, list) : body[p].false}

\* Mutant: a case or default after a terminating directive changes nothing.
AdvanceOnly(f, ending) ==
    [f EXCEPT !.idx = Following(f.owner, f.list, @), !.noAccess = @ \/ f.ending, !.ending = ending]

\* Leaving a directive: end_list is reset when a case or default follows.
Advance(f, ending) ==
    LET next == After(Current(f))
        fresh == next # <<>> /\ Kind(next) \in {"case", "default"}
    IN  [f EXCEPT !.idx = Following(f.owner, f.list, @),
                  !.noAccess = @ \/ f.ending,
                  !.ending = ending /\ ~fresh]

\* "code is not accessible", reported once in a list.
Inaccessible(f) == ErrorIf(f.ending /\ ~f.noAccess, Current(f), "INACCESSIBLE")

\* The directive p of one of the kinds is reached.
At(p, kinds) ==
    /\ outcome = "running"
    /\ stack # <<>>
    /\ Top.idx <= Size(Top)
    /\ p = Current(Top)
    /\ Kind(p) \in kinds

\* It is compiled without entering a list...
Pass(ending, reported) ==
    /\ stack' = [stack EXCEPT ![Len(stack)] = Advance(@, ending)]
    /\ errors' = errors \union Inaccessible(Top) \union reported

\* ... or its first list is entered.
Enter(p, reported) ==
    /\ stack' = Append(stack, Frame(p, 1, Len(scope), FALSE, removed))
    /\ unknown' = unknown \union Hidden(p, 1)
    /\ errors' = errors \union Inaccessible(Top) \union reported

-----------------------------------------------------------------------------
(* The directives *)

\* f with the value given at p.
Recorded(f, p, value) == [q \in DOMAIN f \union {p} |-> IF q = p THEN value ELSE f[q]]

Plain ==
    \E p \in DOMAIN body :
        /\ At(p, {"expression", "var", "label", "unknown"})
        /\ Pass(Top.ending, {})
        /\ UNCHANGED <<body, unknown, removed, labels, enters, exits, defaults, scope, outcome>>

\* The name given is a string, what expression() made of it.
UseNamespace ==
    \E p \in DOMAIN body :
        /\ At(p, {"use"})
        /\ Pass(Top.ending, {})
        /\ scope' = Append(scope, p)
        /\ UNCHANGED <<body, unknown, removed, labels, enters, exits, defaults, outcome>>

\* It is something else: the parser takes any expression, an identifier mostly.
UseRefused ==
    \E p \in DOMAIN body :
        /\ At(p, {"use"})
        /\ outcome' = "internal_error"
        /\ UNCHANGED <<body, unknown, removed, labels, enters, exits, defaults, scope, stack, errors>>

Throw ==
    \E p \in DOMAIN body :
        /\ At(p, {"throw"})
        /\ Pass(TRUE, {})
        /\ UNCHANGED <<body, unknown, removed, labels, enters, exits, defaults, scope, outcome>>

\* The first list or directive around the label which is also around the goto.
Goto ==
    \E p \in DOMAIN body :
        /\ At(p, {"goto"})
        /\ LET key == <<Routine(p), Name(p)>>
           IN  \/ /\ key \in DOMAIN labels
                  /\ Pass(TRUE, {})
                  /\ enters' = Recorded(enters, p, labels[key])
                  /\ exits' = Recorded(exits, p, LongestCommonPrefix({Front(p), Front(labels[key])}))
               \/ /\ key \notin DOMAIN labels
                  /\ Pass(TRUE, {Error(p, "LABEL_NOT_FOUND")})
                  /\ UNCHANGED <<enters, exits>>
        /\ UNCHANGED <<body, unknown, removed, labels, defaults, scope, outcome>>

\* The walk of break_continue() from the directive q around p; <<>> if it fails.
\* Mutant: a continue without a label stops at a switch.
AcceptAlways(p) == TRUE

AcceptSwitch(p) == Name(p) # NoName \/ Kind(p) = "break"

Accepted(p, q) ==
    \/ body[q].kind \in LoopKinds
    \/ body[q].kind = "switch" /\ AcceptSwitch(p)

Labelled(q, name) ==
    Before(q) # <<>> /\ Kind(Before(q)) = "label" /\ Name(Before(q)) = name

BreakTarget(p) ==
    LET walk[n \in 0..Len(p)] ==
            LET q == SubSeq(p, 1, n)
            IN  IF n < 2 \/ body[q].kind \in FunctionKinds THEN <<>>
                ELSE IF Accepted(p, q) /\ (Name(p) = NoName \/ Labelled(q, Name(p))) THEN q
                ELSE walk[n - 2]
    IN  walk[Len(p) - 2]

BreakContinue ==
    \E p \in DOMAIN body :
        /\ At(p, {"break", "continue"})
        /\ LET target == BreakTarget(p)
           IN  \/ /\ target # <<>>
                  /\ Pass(TRUE, {})
                  /\ exits' = Recorded(exits, p, target)
               \/ /\ target = <<>>
                  /\ Pass(TRUE, {Error(p, "NO_TARGET")})
                  /\ UNCHANGED exits
        /\ UNCHANGED <<body, unknown, removed, labels, enters, defaults, scope, outcome>>

ReturnErrors(p) ==
    LET routine == body[Routine(p)].kind
    IN  ErrorIf(routine = "program", p, "RETURN_OUTSIDE")
        \union ErrorIf(routine = "procedure" /\ Kind(p) = "return_value", p, "VALUE_RETURNED")
        \union ErrorIf(routine = "function" /\ Kind(p) = "return", p, "VALUE_EXPECTED")

Return ==
    \E p \in DOMAIN body :
        /\ At(p, {"return", "return_value"})
        /\ Pass(TRUE, ReturnErrors(p))
        /\ UNCHANGED <<body, unknown, removed, labels, enters, exits, defaults, scope, outcome>>

Case ==
    \E p \in DOMAIN body :
        /\ At(p, {"case"})
        /\ Pass(Top.ending, ErrorIf(body[Owner(p)].kind # "switch", p, "OUTSIDE_SWITCH"))
        /\ UNCHANGED <<body, unknown, removed, labels, enters, exits, defaults, scope, outcome>>

Default ==
    \E p \in DOMAIN body :
        /\ At(p, {"default"})
        /\ LET inside == body[Owner(p)].kind = "switch"
           IN  /\ Pass(Top.ending,
                       ErrorIf(~inside, p, "OUTSIDE_SWITCH")
                       \union ErrorIf(Owner(p) \in defaults, p, "SECOND_DEFAULT"))
               /\ defaults' = defaults \union (IF inside THEN {Owner(p)} ELSE {})
        /\ UNCHANGED <<body, unknown, removed, labels, enters, exits, scope, outcome>>

\* Directives with lists: with(), if, for, while, do, and a list of its own.
Block ==
    \E p \in DOMAIN body :
        /\ At(p, LoopKinds \union {"list", "with", "if"})
        /\ Enter(p, {})
        /\ UNCHANGED <<body, removed, labels, enters, exits, defaults, scope, outcome>>

\* The list of a switch must start with a case or a default.
Switch ==
    \E p \in DOMAIN body :
        /\ At(p, {"switch"})
        /\ LET first == Following(p, 1, 0)
           IN  Enter(p, ErrorIf(first <= body[p].sizes[1]
                                /\ Kind(p \o <<1, first>>) \notin {"case", "default"},
                                p, "NO_CASE"))
        /\ UNCHANGED <<body, removed, labels, enters, exits, defaults, scope, outcome>>

\* Mutant: any directive before will do.
FollowsAny(p, kinds) == Before(p) # <<>>

Follows(p, kinds) == Before(p) # <<>> /\ Kind(Before(p)) \in kinds

TryErrors(p) ==
    CASE Kind(p) = "try" ->
            ErrorIf(After(p) = <<>> \/ Kind(After(p)) \notin {"catch", "typed_catch", "finally"},
                    p, "INVALID_TRY")
      [] Kind(p) = "finally" ->
            ErrorIf(~Follows(p, {"try", "catch", "typed_catch"}), p, "NO_TRY")
      [] OTHER ->
            ErrorIf(~Follows(p, {"try", "catch", "typed_catch"}), p, "NO_TRY")
            \union ErrorIf(Follows(p, {"catch"}), p, "NOT_LAST_CATCH")

Try ==
    \E p \in DOMAIN body :
        /\ At(p, {"try", "catch", "typed_catch", "finally"})
        /\ Enter(p, TryErrors(p))
        /\ UNCHANGED <<body, removed, labels, enters, exits, defaults, scope, outcome>>

\* function(): its labels are searched, then its list is compiled.
Function ==
    \E p \in DOMAIN body :
        /\ At(p, FunctionKinds)
        /\ labels' = FindLabels(p, DOMAIN labels)
        /\ Enter(p, Duplicates(p, DOMAIN labels, Again))
        /\ UNCHANGED <<body, removed, enters, exits, defaults, scope, outcome>>

-----------------------------------------------------------------------------
(* directive_list() returns *)

\* Mutant: the namespaces stay in use.
ReturnedInScope ==
    /\ outcome = "running"
    /\ stack # <<>>
    /\ Top.idx > Size(Top)
    /\ scope' = scope

Returned ==
    /\ outcome = "running"
    /\ stack # <<>>
    /\ Top.idx > Size(Top)
    /\ scope' = SubSeq(scope, 1, Top.base)

\* A function which may end without a return is optimized, which removes the
\* unknown directives, and compiled again.
CompileAgain ==
    /\ Returned
    /\ body[Top.owner].kind = "function"
    /\ ~Top.ending /\ ~Top.again
    /\ LET gone == removed \union {p \in unknown : IsPrefix(Top.owner, p)}
       IN  /\ removed' = gone
           /\ stack' = Append(Front(stack), Frame(Top.owner, 1, Top.base, TRUE, gone))
    /\ labels' = FindLabels(Top.owner, DOMAIN labels)
    /\ errors' = errors \union Duplicates(Top.owner, DOMAIN labels, TRUE)
    /\ UNCHANGED <<body, unknown, enters, exits, defaults, outcome>>

\* The else list of an if.
NextList ==
    /\ Returned
    /\ Top.list < Len(body[Top.owner].sizes)
    /\ stack' = Append(Front(stack), Frame(Top.owner, Top.list + 1, Top.base, FALSE, removed))
    /\ unknown' = unknown \union Hidden(Top.owner, Top.list + 1)
    /\ UNCHANGED <<body, removed, labels, enters, exits, defaults, errors, outcome>>

\* Mutant: the flag is left as it is.
FlagsKept(owner) == defaults

\* The DEFAULT flag of a switch is reset, "in case we get compiled a second time".
FlagsAfter(owner) == IF body[owner].kind = "switch" THEN defaults \ {owner} ELSE defaults

\* Mutant: what follows a do is not accessible when the do's own list ends so.
EndingOfDo(frame, before) ==
    IF body[frame.owner].kind \in {"list", "do"} THEN frame.ending ELSE before

\* The result of directive_list() is used only when the list stands by itself.
EndingOf(frame, before) == IF body[frame.owner].kind = "list" THEN frame.ending ELSE before

\* Back to the list around.
Leave ==
    /\ Returned
    /\ ~(body[Top.owner].kind = "function" /\ ~Top.ending /\ ~Top.again)
    /\ Top.list = Len(body[Top.owner].sizes)
    /\ LET rest == Front(stack)
           ending == EndingOf(Top, Last(rest).ending)
       IN  \/ /\ rest = <<>>
              /\ stack' = <<>>
              /\ outcome' = "done"
           \/ /\ rest # <<>>
              /\ stack' = [rest EXCEPT ![Len(rest)] = Advance(@, ending)]
              /\ UNCHANGED outcome
    /\ defaults' = FlagsAfter(Top.owner)
    /\ UNCHANGED <<body, unknown, removed, labels, enters, exits, errors>>

-----------------------------------------------------------------------------
(* add_label() refuses the label of a program. *)

Init ==
    /\ body \in Bodies
    /\ unknown = Hidden(<<>>, 1)
    /\ removed = {}
    /\ labels = [key \in {<<<<>>, Name(p)>> : p \in LabelsOf(<<>>)} |-> FirstNamed(<<>>, key[2])]
    /\ enters = <<>> /\ exits = <<>>
    /\ defaults = {}
    /\ scope = <<>>
    /\ stack = <<Frame(<<>>, 1, 0, FALSE, {})>>
    /\ errors = Duplicates(<<>>, {}, FALSE)
    /\ outcome = IF body[<<>>].kind = "program" /\ LabelsOf(<<>>) # {}
                 THEN "incompatible_type" ELSE "running"

Works ==
    \/ Plain \/ UseNamespace \/ Throw \/ Goto \/ BreakContinue \/ Return
    \/ Case \/ Default \/ Block \/ Switch \/ Try \/ Function
    \/ CompileAgain \/ NextList \/ Leave

Next == Works \/ UseRefused

Spec == Init /\ [][Next]_vars /\ WF_vars(Next)
=============================================================================
