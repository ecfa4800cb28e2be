------------------------------ MODULE Variables ------------------------------
(***************************************************************************)
(* The compilation of variables on demand (compiler_variable.cpp).         *)
(*                                                                         *)
(* The directive list reaches the declaration of a variable and calls      *)
(* var(), which calls variable(v, true): the initializer is compiled only  *)
(* if it has side effects.  Any expression that names the variable, before *)
(* or after its declaration, calls variable(v, false) through the resolver *)
(* (check_name()): the initializer is compiled then, once, and the         *)
(* variables it names are compiled first, on the same C++ stack.  Nothing  *)
(* but the flags of the variable protects it from these re-entrances.      *)
(*                                                                         *)
(* A variable is also a name for attributes (compiler_attributes.cpp): a   *)
(* word before a declaration that names it calls identifier_to_attrs(),    *)
(* which evaluates its initializers and so enters expression(), and        *)
(* variable() of the names in them, at any time, whether or not variable() *)
(* of the same variable is in progress.                                    *)
(*                                                                         *)
(* A frame of `stack' is a call of variable() or identifier_to_attrs()     *)
(* that did not return yet.  How a name is resolved, and what an           *)
(* expression computes, is abstracted: an initializer is the sequence of   *)
(* the variables it names.                                                 *)
(***************************************************************************)
EXTENDS Integers, Sequences, SequencesExt, FiniteSets

CONSTANTS
  Vars,         \* the variables of the program
  Shapes,       \* the kinds of declarations it holds: [typed, sets] records
  MaxRefs,      \* bound: names in one initializer
  Considered(_),\* bound: the programs, out of those that differ by the names only
  AllowCycles,  \* whether initializers may name each other circularly
  MaxWords,     \* bound: attribute words, in the program, that name a variable
  MaxDepth      \* bound: nested calls

\* The expression of a NODE_SET: one of the scoping keywords private and
\* public, an identifier, another expression without side effects, or one
\* with some.  An identifier that names no variable is one of the attributes,
\* as `enumerable', that are not keywords.
SetKinds == {"scope", "name", "pure", "effect"}
Shape == [typed : BOOLEAN, sets : Seq(SetKinds)]

ASSUME VarsFinite == IsFiniteSet(Vars)
ASSUME ShapesAssumption == Shapes \subseteq Shape
ASSUME BoundsAssumption == MaxRefs \in Nat /\ MaxWords \in Nat /\ MaxDepth \in Nat
ASSUME CyclesAssumption == AllowCycles \in BOOLEAN

VARIABLES
  decl,        \* the declarations: a shape and the names in each NODE_SET
  defined,     \* NODE_VARIABLE_FLAG_DEFINED
  compiled,    \* NODE_VARIABLE_FLAG_COMPILED
  inuse,       \* NODE_VARIABLE_FLAG_INUSE
  attributes,  \* NODE_VARIABLE_FLAG_ATTRIBUTES
  lists,       \* the variables converted to NODE_VAR_ATTRIBUTES
  added,       \* how often add_variable() recorded the variable
  calls,       \* how often variable() called expression() on the initializer
  declared,    \* the variables whose declaration was reached
  early,       \* the variables variable() met first at their declaration
  roots,       \* what asked for a compilation from outside of variable()
  done,        \* the NODE_SETs whose expression was compiled to its end
  words,       \* the attribute words resolved
  stack,       \* the calls in progress, outermost first
  exc          \* the exception that ended the compilation, or "none"

flags == <<defined, compiled, inuse, attributes>>
vars == <<decl, flags, lists, added, calls, declared, early, roots, done, words,
          stack, exc>>

\* one sequence of names for each NODE_SET
Decl == {d \in [typed : BOOLEAN, sets : Seq(SetKinds), refs : Seq(Seq(Vars))] :
           Len(d.refs) = Len(d.sets)}

Frame == [var   : Vars,
          \* the two ways through variable(), and identifier_to_attrs()
          stage : {"define", "compile", "attrs"},
          side  : BOOLEAN,                \* side_effects_only
          child : Nat,                    \* 0 is the NODE_TYPE, then the NODE_SETs
          set   : Nat,                    \* the variable set of the function
          busy  : BOOLEAN,                \* expression() was entered
          todo  : Seq(Vars)]              \* the names it did not resolve yet

TypeOK ==
  /\ decl \in [Vars -> Decl]
  /\ defined \in [Vars -> BOOLEAN]
  /\ compiled \in [Vars -> BOOLEAN]
  /\ inuse \in [Vars -> BOOLEAN]
  /\ attributes \in [Vars -> BOOLEAN]
  /\ lists \subseteq Vars
  /\ added \in [Vars -> Nat]
  /\ calls \in [Vars -> Nat]
  /\ declared \subseteq Vars
  /\ early \subseteq Vars
  /\ done \subseteq Vars \X Nat
  /\ words \in Nat
  /\ roots \subseteq Vars
  /\ stack \in Seq(Frame)
  /\ exc \in {"none", "locked_node"}

-----------------------------------------------------------------------------
(***************************************************************************)
(* The program.                                                            *)
(***************************************************************************)

\* the names of the initializer
Names(d, v) == IF d[v].sets = << >> THEN {} ELSE Range(d[v].refs[1])

\* No initializer needs, directly or not, its own variable.
Ordered(d) ==
  \E rank \in [Vars -> 0 .. Cardinality(Vars)] :
    \A v \in Vars : \A w \in Names(d, v) : rank[w] < rank[v]

Initialized(v) == decl[v].sets # << >>

\* A scoping keyword names nothing, an identifier one variable.
NamesFit(d) ==
  \A v \in Vars : \A k \in DOMAIN d[v].sets :
    /\ d[v].sets[k] = "scope" => d[v].refs[k] = << >>
    /\ d[v].sets[k] = "name" => Len(d[v].refs[k]) < 2

NameLists == UNION {[1 .. n -> Vars] : n \in 0 .. MaxRefs}

Declarations ==
  UNION {{[typed |-> s.typed, sets |-> s.sets, refs |-> r] :
            r \in [1 .. Len(s.sets) -> NameLists]} : s \in Shapes}

Init ==
  /\ decl \in [Vars -> Declarations]
  /\ NamesFit(decl) /\ Considered(decl)
  /\ ~AllowCycles => Ordered(decl)
  /\ defined = [v \in Vars |-> FALSE]
  /\ compiled = [v \in Vars |-> FALSE]
  /\ inuse = [v \in Vars |-> FALSE]
  /\ attributes = [v \in Vars |-> FALSE]
  /\ lists = {}
  /\ added = [v \in Vars |-> 0]
  /\ calls = [v \in Vars |-> 0]
  /\ declared = {}
  /\ early = {}
  /\ roots = {}
  /\ done = {}
  /\ words = 0
  /\ stack = << >>
  /\ exc = "none"

-----------------------------------------------------------------------------
(***************************************************************************)
(* variable(): the flags are tested on entry, then one of two frames runs. *)
(***************************************************************************)

DefineFrame(v, side) ==
  [var |-> v, stage |-> "define", side |-> side, child |-> 0, set |-> 0,
   busy |-> FALSE, todo |-> << >>]

CompileFrame(v, names) ==
  [var |-> v, stage |-> "compile", side |-> FALSE, child |-> 1, set |-> 0,
   busy |-> TRUE, todo |-> names]

\* What expression() names in a NODE_SET: nothing once the expression has a
\* type or is a literal, which it may be when it was compiled before.
ToName(v, k) ==
  {decl[v].refs[k]} \cup (IF <<v, k>> \in done THEN {<< >>} ELSE {})

\* without the test of the DEFINED flag
KnownAttributesOnly(v) == attributes[v]
Known(v) == defined[v] \/ attributes[v]

InUse(side) == ~side

MustCompile(v, side) == ~side /\ ~compiled[v] /\ Initialized(v)

\* First call: the flags are set before anything is compiled.
EnterDefine(v, side, below) ==
  /\ ~Known(v)
  /\ defined' = [defined EXCEPT ![v] = TRUE]
  /\ inuse' = [inuse EXCEPT ![v] = InUse(side)]
  /\ early' = IF side THEN early \cup {v} ELSE early
  /\ stack' = Append(below, DefineFrame(v, side))
  /\ UNCHANGED calls

\* Later calls, or the variable was used as an attribute: a reference that
\* finds the initializer not compiled compiles it.
EnterCompile(v, side, below) ==
  /\ Known(v) /\ MustCompile(v, side)
  /\ calls' = [calls EXCEPT ![v] = @ + 1]
  /\ \E names \in ToName(v, 1) : stack' = Append(below, CompileFrame(v, names))
  /\ UNCHANGED <<defined, inuse, early>>

EnterNothing(v, side, below) ==
  /\ Known(v) /\ ~MustCompile(v, side)
  /\ inuse' = [inuse EXCEPT ![v] = @ \/ InUse(side)]
  /\ stack' = below
  /\ UNCHANGED <<defined, calls, early>>

Enter(v, side, below) ==
  /\ \/ EnterDefine(v, side, below)
     \/ EnterCompile(v, side, below)
     \/ EnterNothing(v, side, below)
  /\ UNCHANGED <<decl, compiled, attributes, lists, added, done, exc>>

Idle == stack = << >> /\ exc = "none"

\* var(): the directive list walks over the declaration.
Declare(v) ==
  /\ Idle
  /\ v \notin declared
  /\ declared' = declared \cup {v}
  /\ roots' = IF ~Known(v) /\ Initialized(v) /\ decl[v].sets[1] = "effect"
              THEN roots \cup {v} ELSE roots
  /\ UNCHANGED words
  /\ Enter(v, TRUE, << >>)

\* An expression of the program names the variable: check_name().
Use(v) ==
  /\ Idle
  /\ roots' = roots \cup {v}
  /\ UNCHANGED <<declared, words>>
  /\ Enter(v, FALSE, << >>)

-----------------------------------------------------------------------------
(***************************************************************************)
(* The innermost call.                                                     *)
(***************************************************************************)

Top == Last(stack)
Outer == Front(stack)

\* node_lock ln(variable_node), released early when the type is known, and
\* node_lock ln(resolution) of identifier_to_attrs().
Locked(f) == \/ ~(decl[f.var].typed /\ f.child > 0)
             \/ \E g \in Range(stack) : g.stage = "attrs" /\ g.var = f.var

Continue(f) == stack' = Append(Outer, f)

Running == stack # << >> /\ exc = "none"

\* the same name again and again
SameNames(f) == f.todo
OtherNames(f) == Tail(f.todo)

\* The expression in progress names a variable; expression() and the
\* resolver come back into variable().
Resolve ==
  /\ Running /\ Top.busy /\ Top.todo # << >>
  /\ Len(stack) < MaxDepth
  /\ Enter(Head(Top.todo), FALSE,
           Append(Outer, [Top EXCEPT !.todo = OtherNames(Top)]))
  /\ UNCHANGED <<declared, roots, words>>

-----------------------------------------------------------------------------
(***************************************************************************)
(* identifier_to_attrs() and variable_to_attrs().                          *)
(***************************************************************************)

AttrsFrame(v) ==
  [var |-> v, stage |-> "attrs", side |-> FALSE, child |-> 1, set |-> 0,
   busy |-> FALSE, todo |-> << >>]

\* NODE_VARIABLE_FLAG_ATTRS, set while the call is in progress.
Looping(v, s) == \E f \in Range(s) : f.stage = "attrs" /\ f.var = v

\* The word names v.  resolve_name() finds v without a call of variable(); a
\* variable that is being evaluated is an error, which changes nothing.
EnterAttrs(v, below) ==
  /\ IF Looping(v, stack)
     THEN stack' = below /\ UNCHANGED attributes
     ELSE /\ stack' = Append(below, AttrsFrame(v))
          /\ attributes' = [attributes EXCEPT ![v] = TRUE]
  /\ UNCHANGED <<decl, defined, compiled, inuse, lists, added, calls, declared,
                 early, roots, done, exc>>

\* prepare_attributes() of a node runs between two directives, for a node an
\* expression or the type of a variable names, and for a variable that
\* variable() just marked DEFINED.
Prepares(f) == \/ f.busy
               \/ f.stage = "define" /\ f.child = 0
               \/ f.stage = "define" /\ f.child = 1 /\ decl[f.var].typed

Preparing == exc = "none" /\ (stack # << >> => Prepares(Top))

Word(v) ==
  /\ Preparing
  /\ words < MaxWords /\ Len(stack) < MaxDepth
  /\ words' = words + 1
  /\ EnterAttrs(v, stack)

\* The next NODE_SET; a NODE_TYPE is only reported.
AtAttr == /\ Running /\ Top.stage = "attrs" /\ ~Top.busy
          /\ Top.child \in 1 .. Len(decl[Top.var].sets)

AttrKind == decl[Top.var].sets[Top.child]
AttrNames == decl[Top.var].refs[Top.child]
Evaluated == <<Top.var, Top.child>> \in done

NextAttr == [Top EXCEPT !.child = @ + 1]

\* A keyword, an identifier that is one, or what became true or false: an
\* attribute of the node.
AttrKeyword ==
  /\ AtAttr
  /\ AttrKind = "scope" \/ (AttrKind = "name" /\ AttrNames = << >>) \/ Evaluated
  /\ Continue(NextAttr)
  /\ UNCHANGED <<decl, flags, lists, added, calls, declared, early, roots, done,
                 words, exc>>

\* An identifier: its own initializers are gone through, in the same way.
AttrName ==
  /\ AtAttr /\ AttrKind = "name" /\ AttrNames # << >>
  /\ Len(stack) < MaxDepth
  /\ EnterAttrs(Head(AttrNames), Append(Outer, NextAttr))
  /\ UNCHANGED words

\* Any other expression is compiled, and has to be true or false.
AttrExpression ==
  /\ AtAttr /\ AttrKind \in {"pure", "effect"}
  /\ \E names \in ToName(Top.var, Top.child) :
       Continue([Top EXCEPT !.busy = TRUE, !.todo = names])
  /\ roots' = roots \cup Range(AttrNames)
  /\ UNCHANGED <<decl, flags, lists, added, calls, declared, early, done, words,
                 exc>>

AttrExpressed ==
  /\ Running /\ Top.stage = "attrs" /\ Top.busy /\ Top.todo = << >>
  /\ Continue([Top EXCEPT !.busy = FALSE, !.child = @ + 1])
  /\ done' = done \cup {<<Top.var, Top.child>>}
  /\ UNCHANGED <<decl, flags, lists, added, calls, declared, early, roots, words,
                 exc>>

AttrReturn ==
  /\ Running /\ Top.stage = "attrs" /\ ~Top.busy
  /\ Top.child > Len(decl[Top.var].sets)
  /\ stack' = Outer
  /\ UNCHANGED <<decl, flags, lists, added, calls, declared, early, roots, done,
                 words, exc>>

Attribute == AttrKeyword \/ AttrName \/ AttrExpression \/ AttrExpressed \/ AttrReturn

-----------------------------------------------------------------------------
(***************************************************************************)
(* The loop of variable() over the children of the variable.               *)
(***************************************************************************)

\* The NODE_TYPE, which comes first if there is one.
DefineType ==
  /\ Running /\ Top.stage = "define" /\ ~Top.busy /\ Top.child = 0
  /\ compiled' = [compiled EXCEPT ![Top.var] = @ \/ decl[Top.var].typed]
  /\ Continue([Top EXCEPT !.child = 1])
  /\ UNCHANGED <<decl, defined, inuse, attributes, lists, added, calls,
                 declared, early, roots, done, words, exc>>

AtSet == /\ Top.stage = "define" /\ ~Top.busy
         /\ Top.child \in 1 .. Len(decl[Top.var].sets)

SetKind == decl[Top.var].sets[Top.child]

\* the initializer is compiled whatever it does
CompileNowAlways(f, kind) == kind # "scope" /\ f.set = 0
CompileNow(f, kind) ==
  kind # "scope" /\ f.set = 0 /\ (~f.side \/ kind = "effect")

\* A NODE_SET that is compiled right away: COMPILED is set first.
DefineCompile ==
  /\ Running /\ AtSet /\ CompileNow(Top, SetKind)
  /\ compiled' = [compiled EXCEPT ![Top.var] = TRUE]
  /\ inuse' = [inuse EXCEPT ![Top.var] = TRUE]
  /\ calls' = [calls EXCEPT ![Top.var] = @ + 1]
  /\ \E names \in ToName(Top.var, Top.child) :
       Continue([Top EXCEPT !.busy = TRUE, !.todo = names])
  /\ UNCHANGED <<decl, defined, attributes, lists, added, declared, early, roots,
                 done, words, exc>>

\* A NODE_SET that is only counted; a scoping keyword counts twice.
DefineCount ==
  /\ Running /\ AtSet /\ ~CompileNow(Top, SetKind)
  /\ Continue([Top EXCEPT !.child = @ + 1,
                          !.set = IF SetKind = "scope" THEN @ + 2 ELSE @ + 1])
  /\ UNCHANGED <<decl, flags, lists, added, calls, declared, early, roots, done,
                 words, exc>>

\* expression() returned to the loop over the children.
DefineCompiled ==
  /\ Running /\ Top.stage = "define" /\ Top.busy /\ Top.todo = << >>
  /\ Continue([Top EXCEPT !.busy = FALSE, !.child = @ + 1, !.set = @ + 1])
  /\ done' = done \cup {<<Top.var, Top.child>>}
  /\ UNCHANGED <<decl, flags, lists, added, calls, declared, early, roots, words,
                 exc>>

AtEnd == /\ Top.stage = "define" /\ ~Top.busy
         /\ Top.child > Len(decl[Top.var].sets)

IsList(f) == f.set > 1

DefineReturn ==
  /\ Running /\ AtEnd /\ ~IsList(Top)
  /\ added' = [added EXCEPT ![Top.var] = @ + 1]
  /\ stack' = Outer
  /\ UNCHANGED <<decl, flags, lists, calls, declared, early, roots, done,
                 words, exc>>

\* A list of attributes: to_var_attributes() modifies the node.
DefineList ==
  /\ Running /\ AtEnd /\ IsList(Top) /\ ~Locked(Top)
  /\ lists' = lists \cup {Top.var}
  /\ stack' = Outer
  /\ UNCHANGED <<decl, flags, added, calls, declared, early, roots, done,
                 words, exc>>

\* modifying() throws: every call in progress is unwound, compile() fails.
DefineRefused ==
  /\ Running /\ AtEnd /\ IsList(Top) /\ Locked(Top)
  /\ exc' = "locked_node"
  /\ stack' = << >>
  /\ UNCHANGED <<decl, flags, lists, added, calls, declared, early, roots, done,
                 words>>

\* the flag forgotten
SetCompiledForgotten(v) == compiled' = compiled
SetCompiled(v) == compiled' = [compiled EXCEPT ![v] = TRUE]

\* A later reference: COMPILED and INUSE are set once expression() returned.
CompileReturn ==
  /\ Running /\ Top.stage = "compile" /\ Top.todo = << >>
  /\ SetCompiled(Top.var)
  /\ inuse' = [inuse EXCEPT ![Top.var] = TRUE]
  /\ stack' = Outer
  /\ done' = done \cup {<<Top.var, 1>>}
  /\ UNCHANGED <<decl, defined, attributes, lists, added, calls, declared, early,
                 roots, words, exc>>

Return == DefineType \/ DefineCompile \/ DefineCount \/ DefineCompiled
          \/ DefineReturn \/ DefineList \/ DefineRefused \/ CompileReturn

Next ==
  \/ \E v \in Vars : Declare(v) \/ Use(v) \/ Word(v)
  \/ Resolve
  \/ Attribute
  \/ Return

Spec == Init /\ [][Next]_vars

\* The calls run to their end: nothing in them waits.
FairSpec == Spec /\ WF_vars(Resolve \/ Attribute \/ Return)

-----------------------------------------------------------------------------
(***************************************************************************)
(* Properties.                                                             *)
(***************************************************************************)

\* A call of variable() on v that did not return.
InProgress(v) == \E f \in Range(stack) : f.var = v /\ f.stage # "attrs"

\* Once a call of variable() has compiled the initializer of a variable and
\* returned, no other call compiles it, however the references, the declaration
\* and the attribute words interleave (compiler_variable.cpp:136-158 and
\* 195-201).  It is compiled twice by calls of variable() only inside each
\* other: when initializers are circular, and when a node the initializer
\* names, or the variable itself, has an attribute whose value names the
\* variable.  The resolver links the names of an expression; compiling it again
\* may link them to something else.
CompiledOnce ==
  [][\A v \in Vars : calls'[v] > calls[v] /\ calls[v] > 0 => InProgress(v)]_vars

\* The variables that asking for those of S leads to, through the initializers
\* that variable() compiled.
Needed(S) ==
  LET closed == {C \in SUBSET Vars :
                   /\ S \subseteq C
                   /\ \A v \in C : calls[v] > 0 => Names(decl, v) \subseteq C}
  IN  {v \in Vars : \A C \in closed : v \in C}

HasEffect(v) == Initialized(v) /\ decl[v].sets[1] = "effect"

\* The type of its declaration set COMPILED before anything named the variable,
\* and the declaration compiles side effects only (compiler_variable.cpp:209).
TypedFirst(v) == v \in early /\ decl[v].typed /\ ~HasEffect(v)

\* Neither several values nor attributes: what variable() keeps as a variable.
NoLists ==
  \A v \in Vars : Len(decl[v].sets) < 2 /\ "scope" \notin Range(decl[v].sets)

\* Between two directives, the initializers that variable() compiled are those
\* the program asked for, by a reference, by the value of an attribute or by the
\* declaration of one with side effects, and those they need, no more; and no
\* less, but for the variables whose type came first (compiler_variable.cpp:
\* 107-222).  INUSE, which lets the output drop a variable, is set on the
\* variables asked for, directly or through an initializer, and on no other.
\*
\* The exception is a disagreement of the code with its comment "When variables
\* are used, they are initialized here, we initialize them only if they have
\* side effects" (compiler_variable.cpp:107-109): line 209 sets COMPILED as soon
\* as the walk meets a type, so the 3 of `var x : T = 3', reached before any use
\* of x, is never given to expression(), though x is used afterwards.
CompiledIsNeeded ==
  Idle /\ NoLists =>
    /\ {v \in Vars : inuse[v]} = Needed(roots)
    /\ \A v \in Vars : calls[v] > 0 => v \in Needed(roots) /\ Initialized(v)
    /\ \A v \in Needed(roots) :
         Initialized(v) /\ calls[v] = 0 => TypedFirst(v)

Recorded(v) == added[v] + (IF v \in lists THEN 1 ELSE 0)

\* Between two directives a variable that variable() went through is recorded
\* once in its function, class, package or program, or it is a list of
\* attributes, never both and never twice: a variable recorded twice would be
\* declared twice in the output.
RecordedOnce ==
  /\ \A v \in Vars : Recorded(v) <= 1
  /\ Idle => \A v \in Vars : defined[v] <=> Recorded(v) = 1

\* Every call returns, when the initializers are not circular: the names of a
\* variable are in progress above it on the C++ stack.
VariableReturns == Ordered(decl) => []<>(stack = << >>)

=============================================================================
