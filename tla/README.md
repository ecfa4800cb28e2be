# as2js: specification and proofs

as2js is a compiler of an ECMAScript dialect ("Alex Script"): a library (`as2js/`) that
reads a source, builds a tree of nodes, resolves and optimizes it, flattens it into
operations and then into x86-64 code, writes a binary file, and loads and runs that
file; three command line tools (`tools/`) are around it.  This directory holds TLA+ modules of that
library, the TLC configurations that check them and the proofs TLAPS checks.

The library has no thread.  What makes it hard is elsewhere:

- *re-entrance*: everything is computed lazily, through one mutable tree.  Resolving a
  name may compile a variable, which evaluates an expression, which resolves other
  names and rewrites nodes, while callers up the C++ stack still walk the lists of
  children being rewritten.  Lock counters on nodes, and flags such as DEFINED, ATTRS or
  COMPILED set before or after the work, are its defence.
- *translations in several passes* that must keep a meaning: the parser's functions for
  each precedence, the rules of the optimizer, the temporaries and the registers of the
  generated code, the references resolved when the file is saved.
- *memory owned by hand*: the strings of a running script are shared by the generated
  code, the C++ functions it calls and the host program.

## Inventory

| component | state | operations | hard behaviour | what makes it correct | modules |
|---|---|---|---|---|---|
| node tree (`node/node_tree.cpp`) | `f_parent` (weak), `f_children` (shared), `f_type` | set_parent, append/insert/delete/set_child, replace_with, clean_tree | exceptions between two updates, a loop over a list that changes | both directions agree, the list of a locked node stays, but for replace_with() | NodeTree |
| node locks (`node/node_lock.cpp`) | `f_lock`, the `node_lock` objects | lock, unlock, early unlock, destructor | unwinding; ~node() terminates the process | counters match the objects; no locked node is destroyed | NodeTree |
| attributes (`node/node_attribute.cpp`, `compiler_attributes.cpp`) | attribute bits, DEFINED, ATTRS | set_attribute, prepare_attributes, get_attribute | re-entrant, result cached before it is complete | exclusive groups, circular lists detected, the same answer in any order | Attributes |
| variables (`compiler_variable.cpp`) | DEFINED, COMPILED, INUSE | variable, var, add_variable | an initializer enters others, attributes enter initializers | compiled once, and when needed | Variables |
| directives and statements (`compiler_directive`, `_statement`, `_compile`) | the walk, labels, namespaces in use, NODE_UNKNOWN | directive_list, directive, one function per statement, find_labels | removes nodes of the lists it walks; a function compiled twice | jumps land, nothing reachable is reported, both compilations agree | Statements, ControlFlow |
| functions, classes, packages, names (`compiler_function`, `_class`, `_package`, `_resolver`) | lists of matches, super classes, loaded modules | check_function, select_best_func, find_class, import, resolve_name | cycles of inheritance and of imports, ranking of overloads | termination, a unique best match, each package loaded once | labels and second compilation only, in Statements |
| expressions (`compiler_expression.cpp`) | types of nodes | one function per operator | | | as far as Variables needs |
| streams, lexer (`file/stream.cpp`, `parser/lexer.cpp`) | position, pushed back byte | read_char, get_next_token | UTF-8; `/` is a division or a regular expression | no byte read twice or lost | what the parser tells the lexer, in ParserExpression |
| parser (`parser/`) | current token, pushed back token | one function per construct | precedence, progress after an error | a tree comes back from its text | ParserExpression, Parsing |
| optimizer (`optimizer/`) | the tables of rules | optimize, match_tree, one function per action | rewriting until nothing matches | termination, meaning kept | OptimizerLiterals, OptimizerRules, Optimizer, Optimized |
| flat operations (`output/output.cpp`) | operations, variables, labels | flatten, one function per kind of node | results of nested nodes in temporaries | every operation after those it needs | Flatten |
| code generation (`output/binary.cpp`) | registers, code | generate_*() | registers clobbered, operands read where they are not | the code computes what the script means | Assembler, Generators, Floats, Meaning, Compilation |
| binary file (`output/binary.cpp`, build_file) | frame, tables, strings, relocations | add_*, save, load | layout, alignment, references | slots disjoint, references resolved | BinaryFile |
| run-time strings and host (`output/binary.cpp`, running_file) | variables, heap | load, set_variable, run, clean, strings_*() | ownership of buffers, crashes | one owner per buffer, the texts expected | TextFunctions, Strings, Runtime, Texts |
| messages, positions, options, resources, database, JSON, archive, tools, `rt/`, `scripts/`, `tests/` | | | | | not modelled |

`PROJECT.json` lists every component with its status, the hazards at their line and
the properties that answer them, and the lines each definition stands for.

The parts meet as the compiler chains them: ParserExpression builds trees of the form
Optimizer and Flatten work on; Statements calls clean_tree(), which NodeTree models, and
compiles variables, which Variables models; Compilation composes Flatten, Generators
and a processor; its strings are terms there, memory in Runtime; the slots and addresses
Generators takes for granted are those of BinaryFile.

## Runs

| run | cfg | instance | checks |
|---|---|---|---|
| `tree` | `NodeTree.cfg` | 3 nodes, 3 kinds, 1 node_lock object | `LinksAgree`, `LocksBalanced`, `NeverDestroyedLocked`, `NeverInternalError`, `WellTyped`; `LockedNodeStays`, `RefusedFirst`; `CleanTerminates` under `FairSpec` |
| `tree_four` | `NodeTree4.cfg` | 4 nodes, "branch" and "unknown", no node_lock | `ReplacedInPlace`, `CleanComplete` |
| `tree_loops` | `NodeTreeLoops.cfg` | 2 nodes, any legal call | `Acyclic`, refuted |
| `variables` | `Variables.cfg` | 2 variables of 7 shapes, naming each other or themselves, 2 attribute words | `CompiledOnce`, `CompiledIsNeeded`, `RecordedOnce`; `VariableReturns` under `FairSpec` |
| `attributes` | `Attributes.cfg` | 60 programs of 11 nodes | `Exclusive`, `LoopingIsWalking`, `CircularReported`, `OrderIndependent`; `AttributesReturn` |
| `runtime` | `Runtime.cfg` | %result, one extern string, one temporary, one long constant, 3 buffers, counts from -1 to 2 | `Ownership`; `ImplementsTexts` |
| `binary_file` | `BinaryFile.cfg` | any selection of 7 declarations, 3 constants, code up to 12 bytes | `FrameDisjoint`, `Resolved`, `ReadBack` |
| `compilation` | `Compilation.cfg` | scripts of one or two directives, near and far temporaries, 11 doubles | `Computes`, `CompilesAll`, `StringsOwned` |
| `parsing` | `Parsing.cfg` | trees of operators in operators, short texts of any tokens | `RoundTrip`, `NothingLost`, `Ends` |
| `optimizer` | `Optimizer.cfg` | every rule, in 16 environments | `SameOutcome`, `TreeKept`, `NothingLeft`; `Returns` |
| `statements` | `Statements.cfg` | about 27,000 programs and functions | `JumpsLand`, `InaccessibleIsTrue`, `NamespacesInScope`, `RecompiledAlike`, `TryComplete` |
| `doc_optimizer` | `DocOptimizer.cfg` | the logical expressions of the previous run | `NoEffectInOutput`, refuted |

Deadlock is checked in `tree`, `tree_four`, `attributes` and `runtime`, which
may always go on.  The other systems stop: a compilation ends.

## NodeTree

State: `type`, `parent`, `children` and `lock` are `f_type`, `f_parent`, `f_children`
and `f_lock` of `node.h`.  `held` stands for the shared pointers in local variables,
`guards` for the `node_lock` objects (a null `f_node` once unlocked), `exc` for the
exception in flight and `cleaning` for the stack of clean_tree() calls.  A node exists
while it can be reached from `held`, `guards` and the lists of children: `Settle` ends
every step that may lose a pointer by the destructors, which null the weak pointers.
Identities are reused by `Create`, so a dangling link would be visible.

Actions: one per public function (`CallSetParent`, `CallInsertChild` for insert_child()
and append_child(), `CallDeleteChild`, `CallSetChild`, `CallReplaceWith`, `ToUnknown`),
each an operator from a tree to a tree with the exception it raised; the order of the
tests and of the updates is the code's, so that a late refusal leaves what the code
leaves.  replace_with() runs with the parent's lock forced to 0.  clean_tree() takes a
step per child.  `GuardLock`, `GuardUnlock` and `GuardEnd` are the constructor, the early
unlock and the destructor of node_lock; while an exception is in flight only `GuardEnd`
and `Catch` are possible.  Types of nodes are abstracted to five kinds, by what
set_parent() tests: "branch" and "leaf" (may be children, only the first has any), "root"
(NODE_ROOT and NODE_PROGRAM: children, never a child), "token" (neither), "unknown".

`tree_loops` lets every call through and finds `Acyclic` refuted in a few steps: two branches,
each made the parent of the other.  set_parent() tests locks and types only, whereas
node_display.cpp:466-468 counts on it: "Because the tree cannot generate loops (the
set_parent() function prevents such), we do not have anything that would break the
recursivity of the function".  In a loop display() and clean_tree() never return, and
nothing is left to say about them; in the other runs `AllowLoops` is FALSE: no caller makes
a node a child of one of its own descendants (`NoLoop`).  That is an assumption on the
callers, not something the code ensures, and no absence of loops is claimed from it.

`LockedNodeStays` is exact about replace_with(), which hides the lock of the parent while it
deletes and inserts: when it returns, and the new child was not a sibling, the list of the
locked parent has the new child where the old one was.  Otherwise the list is one child
shorter: the old one is already gone when the new one is refused (two shorter when a sibling
was taken out first).  That contradicts node_tree.cpp:740-742, "the replace is safe [...] in the
sense that the count will remain the same and that specific offset will remain in place",
and is all the property allows beyond it.

What is not in it: `f_offset`, `f_instance`, `f_type_node` and the other weak links, the
reading functions (find_first_child() and the like), allocation failures.

Bounds: one node_lock object is enough for a node locked while the others move, for an
early unlock and for an unwinding (nested locks are left to the proofs, for any number of
objects); the kinds are a node that accepts any link, one that accepts none,
and the one clean_tree() deletes; three nodes make a chain, two siblings and a move between two parents; four a
replacement inside a list of two.  The run has a liveness property, hence no symmetry.  Fairness: weak fairness on the steps of
clean_tree() only.  Once entered the only thread runs nothing else.

Read in the code, without a run: node_tree.cpp:99 advises an index of get_children_size() to
move a child last, but the list is one shorter by the time the index is tested, so that
set_parent() throws with the node already detached; node_tree.cpp:539 gives
set_parent(nullptr, index) as another spelling of delete_child(index): the index is
ignored and the parent itself is detached.

### Proofs

`NodeTreeProofs` proves `Spec => []IInv` for any finite set of nodes, any kinds, any number
of node_lock objects, loops allowed or not.  `IInv` is `TypeOK`, `LinksAgree`,
`LocksBalanced`, `NeverDestroyedLocked` and `NeverInternalError` together: none is
inductive alone.  `LinksAgree` survives destruction because what is alive is closed under
`children`; a node outside is not locked because a node_lock owns its node and the
counter is the number of those (`LocksBalanced`); the internal errors are unreachable
because of `LinksAgree`.  The lemmas go from sequences (`RemoveAt`, `InsertAt`, `Front`
keep a list injective), to trees (`Detach`, `Attach`, then one lemma per function that
it returns a valid tree), to lifetimes (`SettleSound`), to the actions.

`AlwaysWellTyped` says that no link ever has an end whose kind forbids it.  Its invariant
`TypedInv` says so of both ends of every link; set_parent() tests when it links, to_unknown()
only changes to a kind allowed everywhere, and the destroyed nodes, whose identity may
come back with another kind, lose their links.

The lemma `NeverALoop` has the absence of loops from the assumption on the callers, which the
proofs below need: each call moves one node, and a set of nodes all of whose parents are
inside, minus what is below the moved node, would have been one before the call.

The assumptions are `Nodes` finite, `NoNode` not one of them and `Kinds` among the five.

The four action properties follow from `IInv`, and but for `RefusedBeforeAnyChange` from `Acyclic` too,
hence for callers that close no loop:

- `LockProtects`: `LockedNodeStays`, one case per call.  set_parent() tests the locks of the two
  lists it writes; replace_with() hides the lock of the parent from those tests, writes one
  child of its list, and the parent stays where it is only because no node is above itself;
- `RefusedBeforeAnyChange`: `RefusedFirst`; `ReplacesInPlace`: `ReplacedInPlace`, following the list
  of the parent through the removal, the insertion and the destruction of what was lost;
- `CleansAll`: `CleanComplete`, from `CleanInv` on the recursive calls of clean_tree(): the
  children behind the index of a call are clean all the way down, the one under it is the
  node of the next call, and no call but the first is for an unknown node.

Model-checked only: `CleanTerminates`.

## Variables

What it models: `variable()`, `var()` and `add_variable()` of compiler_variable.cpp, and the
way expressions come back into them, and the part of compiler_attributes.cpp that does: a word
in front of a declaration that names a variable.  A declaration is a shape (a NODE_TYPE or not, and
the kinds of its NODE_SETs: a scoping keyword, an expression without side effects, one
with some) and the sequence of the variables its initializer names.  `defined`, `compiled`,
`inuse` and `attributes` are the flags of node.h:351-366; `stack` holds the calls in
progress, as frames of three stages: "define" walks over the children of a
variable met for the first time, "compile" is the branch of a later reference, "attrs" is
identifier_to_attrs() going through the values of the variable a word names.  `calls`
and `added` count the calls variable() makes of expression() on the initializer and of
add_variable(); `lists` are the variables
converted by to_var_attributes(); `exc` is the exception that ends the compilation.

Actions: `Declare` is var(), called by the directive list; `Use` is a reference from the
program; `Word` a word of attributes that names the variable, wherever prepare_attributes() may
run, hence also while variables are compiled; the `Attr...` actions are variable_to_attrs() on
each of its values: a keyword, an identifier (its values are gone through in turn), or an
expression, which is compiled and so enters variable() again for the names in it; `Resolve` takes the next name of the expression in progress and
enters variable() again; the `Define...` actions are the turns of the loop over the children
and its end; `CompileReturn` the end of the later reference.

Abstracted: how a name is found (compiler_resolver.cpp), what an expression computes, the
messages, the expression of a NODE_TYPE (it names classes).  replace_constant_variable()
is not modelled.

Properties: once a call of variable() has compiled an initializer and returned, no other does
(`CompiledOnce`; calls inside each other do, when initializers are circular or an attribute
met on the way names the variable); as long as no variable is a
list of attributes those compiled are those that something asked for needs, INUSE telling what
was asked for (`CompiledIsNeeded`); a variable is recorded once in its frame and a list
of attributes never is (`RecordedOnce`).

`CompiledIsNeeded` has one exception, `TypedFirst`: "when variables are used, they are initialized
here, we initialize them only if they have side effects" (compiler_variable.cpp:107-109) is not
what happens to `var x : T = 3; x;`.  The NODE_TYPE sets COMPILED (209) before the initializer is
reached, the declaration skips the initializer, and no later reference compiles it: x is in
use and its 3 was never given to expression().

Bounds: two variables, each naming one variable or none, the other or itself, circular or
not (one names both), with two words: a word inside a word, a word met while its variable
is being compiled, and a list whose value needs itself.  Each is an expression
without side effects, an identifier, a scoping keyword or a list of both, or, with a type, any
of the three kinds (`FewShapes`).  `Considered` is a CONSTANT operator that chooses among the programs
of `Init`; `MaxDepth` cuts the circular programs only.  Longer chains are left to the proofs, which
have no bound.  Fairness: weak fairness on the steps of
the calls alone, since nothing in them waits; declarations, references and words are not fair.
`VariableReturns` is about programs without circular initializers (`Ordered`).

Read in the code, without a run: a reference to a known variable sets COMPILED only once
expression() has returned (compiler_variable.cpp:149), so that `var a = a; a;` enters the
same initializer again, without end; to_var_attributes() (234) modifies the node while the
node_lock of line 174 holds it, so that a list of attributes never used as one before
throws locked_node, unless a type released the lock.

### Proofs

`VariablesProofs` proves, for any finite set of variables, any shapes, any number of names
and any depth:

- `VariablesTyped`: the type invariant;
- `VariablesRecordedOnce`: `RecordedOnce`, circular initializers included, from `RecordInv`: a
  variable has at most one "define" frame in its life and is DEFINED as soon as it has one;
- `VariablesCompiledOnce`: `CompiledOnce` for every program, circular or not, with attributes
  evaluated at any time: an initializer already entered has COMPILED set or a call of
  variable() for it in progress, and only variable() compiles one.
- `VariablesCompiledAsNeeded`: `CompiledIsNeeded`, circular initializers included, from `NeedInv`, which
  says what is left to do while calls are in progress: a variable asked for is INUSE or a
  call will set it; a name of an initializer that was entered is INUSE, or a call will set
  it, or the call inside that initializer has it to resolve; an initializer in use was
  entered, or its "define" call is about to.  With no call in progress that is the closure.
  The values of attributes ask for what they name.  Nothing is assumed of the program: a variable
  in use whose initializer stays uncompiled is one of `TypedFirst`.

`VariableReturns` (liveness) is model-checked only.

## Attributes

What it models: how the attributes of a node are computed the first time one is asked for,
with everything that the computation enters on its way.

| model | code |
|---|---|
| `attrs`, with "DEFINED" | `node::f_attributes`, NODE_ATTR_DEFINED |
| `looping` | NODE_VARIABLE_FLAG_ATTRS |
| `looped` | the AS_ERR_LOOPING_REFERENCE reported |
| `stack` | the nested calls of prepare_attributes() and identifier_to_attrs(), one frame each |
| `tree` | the program: parents, children, the words in front of a directive, the values of the variables |

Actions: `Request` is get_attribute() called by any part of the compiler while nothing else
is in progress.  prepare_attributes() is `OwnWord` (a turn over the words of the node:
node_to_attrs()), `OwnDone` (enter the parent, or the barrier) and `Inherit` (the copies
from the parent).  identifier_to_attrs() is `CheckName` and `SearchUp` (resolve_name() and
check_name() going backward, then forward, then up; a function on the way is asked for its
attributes by is_constructor() and check_function(), whatever its name), `Found` (the flag
against circular lists), `Value` and `Evaluated` (variable_to_attrs()) and `ListDone`.
`Conflicts` is the switch of verify_exclusive_attributes(), case by case: the properties state
the groups from the comments of node_attribute.cpp instead.

Abstracted: expressions (an item says what node its evaluation asks the attributes of, and
which boolean it is reduced to, if any); names are the variables themselves, so that
nothing is shadowed; words naming something else than a variable of the program, hence
parameters, enumerations, imports and the members of super classes; the functions that
only an interface, a package or a `with` would add to a search; the messages, but for the
error on circular lists.  A list of attributes is plain data here: its own compilation
is `Variables`.

Bounds: the programs have two lists, a function next to them and one inside a class, which
is what it takes for a search to enter another computation, for a list to name itself or
the other one, and for attributes to come down two levels.  The words mix every exclusive
group but that of `switch`.  The order of the requests is free.  `MaxDepth` = 20 is never
reached, deadlock being checked.  Fairness: weak fairness on `Step`, since nothing in a call
waits; requests are not fair.

`OrderIndependent` has the precondition `Plain`: no list names a list, none is used in front
of a variable, and no value asks for an attribute.  It is needed: with it dropped TLC
refutes the property, where a value of the list in front of a class asks for an attribute
of a member.  The member reads the attributes its class has so far, caches what it
inherits, and never sees the "false" that the next word gives the class.

Read in the code, without a run: ATTRS stays set on a list while the names in it are
searched (compiler_attributes.cpp:214-217); the search prepares the functions it goes by,
and one that uses the same list is told that the list "is used circularly (it loops)",
though no list leads back to itself.  `private var a` in a class marks the NODE_VAR, and the
NODE_VARIABLE takes the visibility of its parent only when that is a class or an
interface, so that get_attribute(variable, PRIVATE) (compiler_resolver.cpp:542) is false,
against doc/language/class.html:100.  node_to_attrs() knows `inline`, which
parser_directive.cpp:64-76 never accepts although class.html:85 documents it.

### Proofs

`AttributesProofs` proves, for any set of programs, any nodes and any depth, `Spec => []IInv`
and from it

- `AttributesTyped`: the type invariant;
- `AttributesExclusive`: `Exclusive`.  `Conflicts` is symmetric, hence `SetAttribute` and
  `CopyAttribute` keep a set of attributes compatible (no element conflicts with another),
  hence `Inherited` does, copy after copy; the groups of the comments, without their
  exceptions, are conflicts;
- `AttributesLooping`: `LoopingIsWalking`.  `IInv` says that `looping` is the set of the lists of
  the frames in a stage that walks and that no two such frames have the same list: a frame
  starts to walk only when its list is not in `looping`, and only the top frame changes;
- `AttributesCircular`: `CircularReported`.  `CInv` says of each call in progress that the circular
  lists among the names it went by were reported for its node, but for the one the call
  above is about, and that the list it searches is still in what is left of the search or
  below an ancestor not reached yet; and of each node that is DEFINED that its own were
  reported, unless its call is still in progress.  A call for a circular list that returns
  walked over a name that is circular too, whose call returned before: there is no first
  one not to be reported;
- `AttributesOrderIndependent`: `OrderIndependent`.  `Expected` is a recursion over the ancestors,
  solved with `RecursionExists` (the rank is their number), so that it is an equation
  (`Expected(n)` from the words of n and `Expected` of its parent) that the actions can be
  compared with.  `OInv` has three parts, for a plain program:
  `Chained`, each call was made by the one below it, for the next word, for its parent or for
  what its search goes by, with what the words before that one give, and no call in progress
  is for an ancestor of the node of a call above it (`Apart`); `TopOwn`, what the innermost
  call has so far is what the words it has gone by give; `Answered`, a node that is DEFINED
  and whose own call is not in progress has `Expected`.  With `Apart` nobody inherits from a
  node half prepared, and only its own call changes a node.

`IInv` also has what the actions need to stay typed: no frame is for the program, and the
position of a value being evaluated is inside its list.  Assumptions: `NoNode` is no node,
nodes are not words, there are finitely many nodes, and the tree is one: a node is among the
children of its parent and of no other, nothing is above itself, a "variable" is in a "var"
and a "var" in a list of directives has only variables (parser_variable.cpp:77-92).

Only `AttributesReturn` (liveness) is model-checked and not proved.

## Statements and ControlFlow

`Statements` is directive_list() and directive() of compiler_directive.cpp, the handlers of
compiler_statement.cpp, find_labels(), and what function() and program() do around them.
A program or function is a map from paths to directives: `<<1, 3, 2, 1>>` is the first
directive of the second list of the third directive of the first list of the top.
`unknown` are the directives changed to NODE_UNKNOWN, `removed` those that clean_tree() took
out; `labels` is `f_labels`, `enters` and `exits` are `f_goto_enter` and `f_goto_exit`, `defaults`
the flag of a switch, `scope` is `f_scope`, `stack` the nested calls of directive_list(), `errors`
what was reported, where, and in which compilation.

There is an action per kind of directive, that ends with the work of the loop of
directive_list() (the end of the list after a terminating directive, the report of an
inaccessible one), `NextList` and `Leave` for the lists of a compound directive, and
`CompileAgain`: function() optimizes a function that must return a value and does not end
with a terminating directive, which removes the unknown nodes, and compiles it again.

`ControlFlow` is the reference: which directive may be executed after which, every
condition being true or false, that of a do after a continue too, every try ending with an
exception or not, and every catch after it skipped or not, so that what follows a try or a
catch in its list, a finally or another catch, may be executed however those end.  It is an
over-approximation; `InaccessibleIsTrue` needs no more.  `JumpsLand` states where a break,
continue or goto means to go from the words of the program, not from the search of the
code.  `NamespacesInScope` relates `f_scope` to the text; `RecompiledAlike` the errors of both
compilations; `TryComplete` the local tests of try, catch and finally to the whole statement.

Bounds (`MCStatements`): all functions and programs with up to two directives of any kind,
a compound directive of two between a label and another, directives three deep with
labels before each, both branches of an if, up to four directives around a try, and
declarations marked false between others, two catches among them.  Three levels are what a jump needs to go by a
directive of its own that does not take it.  One weakly fair step at a time: `WF_vars(Next)`.

Left out: expressions, which neither add nor remove directives; conditions that are
literals (those are the optimizer's); classes, packages, imports and enumerations met in a
list; the results of user scripts; a list that the optimizer merges in its parent; the
functions marked UNUSED, ABSTRACT or NATIVE, those of type Never and the constructors
(compiler_function.cpp:170, 323, 389, 399-402).  The internal_error of use_namespace() for a
qualifier that is not a string (compiler_statement.cpp:712-715), where the parser gives an
identifier, is modelled: the expression may or may not turn it into a string.

What the run shows the code does, named in the properties: a label in a program makes
add_label() throw incompatible_type, though compiler_compile.cpp:128 says "function may also be
a program or a package"; find_labels() is called again for the second compilation
(compiler_function.cpp:405) and reports every label as defined twice; a label after a goto is
reported as not accessible; a declaration marked false between a label and its loop, or
between a try and its catch, breaks their adjacency in the first compilation; and when the
directive reported as inaccessible is such a declaration, the second compilation reports
the next one.

The second compilation may also name a catch differently: where a declaration marked false stands
between two catches, the first compilation says the second catch has no try; once the declaration
is removed it says that the first one is not the last.  `RecompiledAlike` allows it; the proof of the
invariant on the complaints showed the case, and `Separated` in `MCStatements` holds it.

### Proofs

`ControlFlowProofs` and `ControlFlowJumps` prove all five properties, for every set of
programs of any size and depth.  `BodiesAssumption` is all they assume: a program is a finite map
in which every directive is at a place of a list of another (`IsBody`).  Only the directives that
accept attributes may be marked false, since the parser drops the attributes in front of the others
(parser_directive.cpp:293-382): labels, jumps, loops and try are never unknown, but functions,
declarations, `use` and lists may be.

`CallsInvariant` is the induction the others rest on.  `CallsInv` says of the calls of
directive_list() that each is for the directive at which the one below is, that none is in a
directive marked false, that in the lists entered those marked are unknown and that nothing else
is; what clean_tree() removed is unknown; and each call has its part of `scope`, from its `base`
to that of the next.  `Seen` tells what was compiled from the calls alone, and `CallsStep` says of
every action what it makes of it: a directive is seen for the first time when the innermost call
is at it, and what the second compilation starts again had all been seen.  Four shapes of a step
are enough: a directive is passed, a list is entered, another list starts, a call is over.

- `NamespacesAreInScope`: the parts of `scope` are the `use` directives that each call has passed, in
  their order; those of all the calls are those written earlier in the lists around.
- `TryIsCompleteAlways`: `TryInv` says that a try, catch or finally that was compiled was complained
  about, or that what is beside it in the *list as written* is as it should be.  It has to allow for what is
  removed: a handler after a directive that was removed had been complained about (`Displaced`).
  From the neighbours to the whole statement is an induction along the list.
- `JumpsLandAlways`: for break and continue, `JumpInv` says that those compiled have the innermost
  directive they may mean, or were complained about.  What may be meant grows as declarations
  between a label and a loop are removed, but only in the function compiled again, whose jumps are
  then compiled again too (`MeantElsewhere`).  The walk of break_continue() is a recursive function:
  `WalkEquation` gets its equation from `Recursion`, `WalkFinds` is an induction on the tree.  For
  goto, `GotoInv` says that the labels known are those of the functions being compiled; find_labels()
  takes the first of a name, which exists because directives that are not in each other are
  ordered (`FirstExists`); the smallest list around a goto and its label is where the ways to them
  part because neither has directives of its own.

- `InaccessibleIsTrueAlways`: `Ended` is read off the body alone: the terminating directives, and
  the lists that hold one of either with no case or default after it.  It is a greatest fixed point, so
  that no recursion is needed.  `EndsInv` says that a call whose `ending` is set is past one of them,
  and that what was reported is after one in its list (`Cut`), whatever was removed or compiled
  again; `LandInv` that breaks and continues lead to a directive around them in their function.
  `Executable` is a recursive function of a number of steps; `ReachStays` shows that it stays in any set
  that holds its start and that no step leaves.  `Open(R)` is such a set: in a function `R` without
  a goto it leaves out what is cut off, all that is in it, and the exits of what is in `Ended`.

- `RecompiledAlikeAlways`: the two compilations are never in one state, so the invariant speaks of the
  first one from the body.  `Wrong(p, what)` is what the tests of the code find wrong with a
  directive as it is written, declarations already removed left out: more removals never make a
  directive wrong that was not.  `Known(p, stack)`: it was compiled once, at least in a function
  that is now compiled again.  `OnceInv` says that whatever is wrong with a known directive was
  reported by the first compilation.  `SaysRight` ties it to the code: a step reports only what is
  wrong, and all of it when the directive is reached for the first time.  Three facts about the calls
  are needed: only functions are compiled again, and what is removed is in one (`AgainInv`);
  `end_list` and what a call has reported are given by the directives before (`TurnsInv`); the
  switches with a default are those being compiled that are past one (`DefaultsInv`).  Without
  `Wrong` read off the body the induction fails: what was in the way in the first compilation
  may be gone in the second, which is where the two exceptions in `RecompiledAlike` come from.

## Parser: ParserExpression and Parsing

`ParserExpression` has an operator per function of parser_expression.cpp, from expression() to
primary_expression(), with the argument lists, the literals of arrays and objects, the
template strings, the token pushed back after a look ahead, and the errors.  A node is
`[op, name, kids]`; the parser is a record that says which token is next.  The tokens are those of
the lexer, with the one decision the parser forces on it: whether a `/` begins a regular
expression.  The entry of conditional_expression() without assignments and keyword `function` are
those of other functions of the parser.

`Parsing` writes a tree as somebody would who knows the precedence of the operators
(`Table`, from ECMAScript and the comments on the extensions), then parses the text.
`RoundTrip` says that the tree comes back *exactly when* `Understood`, which names what does
not: a property that fails as soon as another operator breaks, or one named is mended.
`NothingLost` is about any text: a text accepted without an error is in its tree, token for
token.  `Ends` names the tokens at which the loop over the fields of an object never ends.

Bounds: each operator alone, an operator of each level inside one of each level, on both
sides, divisions in divisions, texts of up to three tokens of any kind, longer ones in
parentheses, braces and template strings; with and without the extended operators.
Precedence being a relation of pairs, pairs are enough.  The functions call each other
through `Call`, the one operator of the module where they recurse.

What it shows: `a || b || c` is not parsed, nor `&&`, `^^`, `|`, `^`, `&`, `<?` and `>?` repeated
(an `if` where a `while` is meant, parser_expression.cpp:343-467); nothing may follow `a::b` (794);
`f((a, b))` is parsed as `f(a, b)` (829-843); `[]` and `{}` report errors; a `/` after `)`, `]`, `}`, a
member, `++` or `private` with a later `/` on the line is read as a regular expression
(lexer.cpp:2486-2521); `f(a / b / c)` throws an internal error (the token pushed back, 92-128
and parser.cpp:76-79); object_literal_expression() (1267-1434) never ends at a token that
neither a field nor an expression takes.

## Optimizer

`OptimizerLiterals` has the values and the conversions of node_value.cpp, floating_point and
string.cpp that the rules use; integers have `Width` bits and wrap, doubles are finite
integers, infinities and NaN.  `OptimizerRules` is the tables `optimizer_*.ci`, rule by rule: what
each matches and the actions it applies.  `Optimizer` is optimizer.cpp and
optimizer_optimize.cpp: a heap of nodes, the stack of the calls of optimize_tree(), a pass over
the tables per node until no rule matches (`SinglePass` for the tables without a second), and clean_tree() at the
end.  `Optimized` is the reference: what a tree computes in an environment, its calls in order
included, written from the meaning of the operators.

`SameOutcome`: at every step the tree computes what it computed, in every environment, but for
the rules named in `Changing`.  `TreeKept`: links and stack are those of a tree whatever was
moved.  `NothingLeft`: no rule matches at the end.  `Returns`: the rewriting ends, under weak
fairness of the one thread, written `[]<>(phase # "optimize") \/ []<><<Next>>_vars`.

Bounds: every operator on every pair of kinds of literals, with variables and calls on either
side, chains of three unary operators, rules that apply one after another, loops and
blocks; 4 bits and two turns of a loop.  Every rule of the tables is applied.  The conversion
of a negative double to an unsigned integer is undefined in C++ and is not enumerated.

Findings: `doc_optimizer` shows that `a && b || c` becomes `a ? b : c` (optimizer_logical.ci:686-691),
which is not `c` when a is true and b false.  The two others of `Changing`: `a |= NaN`, `^=`, `<<=`
and the like become `a = 0` (optimizer_assignments.ci:237-242), right only for `&=`; `do { break; }
while(false)` becomes its body (optimizer_statements.ci:496), with a break of no loop.  Also met:
get_string() of a literal that is no string and an invalid regular expression end MATCH with
an internal error (optimizer_optimize.cpp:592-595); optimize() calls clean_tree() on the node it
was given (optimizer.cpp:150-167), and when that one was replaced unknown nodes remain; 0/0
of two integers is +Infinity; `0.0 - a` becomes `-a`, which may be an integer.

## Code: Flatten, Assembler, Generators, Meaning, Compilation

`Flatten` is flatten_nodes of output.cpp: a script becomes a sequence of operations on data
(variables, literals, temporaries).  `Generators` is one operator per generate_*() function of
binary_assembler, giving the instructions it emits in order; `Assembler` has their forms: which
operand is in which register, in the frame or in the file, near or far (an 8 or 32 bit
displacement).  Encodings are left out.  `Compilation` is the chain: flatten, generate, and
a processor that runs the instructions.  A value is the term that computes it, so that the
same code is checked for all values at once; the truth of a condition is chosen when it is first tested,
and so are the bits of a double whose bits an instruction looks at.

`Meaning` is the reference, an evaluation of the tree with names of its own: a comparison is
"less" or FloatCompare(), a logical operator is "both" or "either" of two truths, a conversion to
an integer cuts as node::to_integer() does, an assignment converts to the type of the variable, a range of
a string is strings_substr().  What an instruction computes (SETL after CMP, CMPSD and a shift by
63, AND of two booleans) is related to those names by laws of the processor, in `Computed`.  The
names of arithmetic (an addition is "add") are the processor's on both sides.

`Floats` has what must be looked at bit by bit, on narrow IEEE doubles (`ExponentBits`, `MantissaBits`) with
every kind of value: floating_point::compare(), nearly_equal() and node::to_boolean() on the
side of the meaning; on the side of the code the long sequence of `~=`, the sign of a
difference for `<=>`, and the test of `!`.

`Computes`: the result and the variables are those of the meaning *exactly when* the script has
no operation, and met no double, among those `Miscompiled` names.  The exception to "exactly" is a
script with a wrong operation that also tests the bits of a double (`WrongOperation /\ inspected # {}`):
it may find the right result by chance.  `CompilesAll`: a script is refused exactly when `Unsupported`
names it.  `StringsOwned`: each temporary string is initialized once before its first use, freed once, and
no function that frees is given a number.

Bounds: every operator on variables, on literals and on results of other operators, an
operator on each kind of node that jumps, stores, calls or chooses, pairs of directives; zeros,
a tiny number, 1.0, 1.75 (whose bits a 2.0 shares none of), 2.0, an infinity and NaNs of both
signs (`MCDoubleBits`).  No script has a conditional whose cases have different types.
An operation clobbers at most the registers its neighbours use, which pairs exercise.

What `Miscompiled` names: a comparison with an integer literal is generated as a move
(generate_reg_mem_integer(), binary.cpp:4946-4995, 7595-7663); the SSE instructions read far
temporaries relative to the code instead of the frame (5700-5715); CVT2I of a temporary
reads a stale register; Integer temporaries are loaded as doubles; temporaries with numbers are
passed to functions that take variables; an operand is read late (`i + i++`); a last
directive that is a variable leaves no result; a double variable is rounded by CVTSD2SI where
to_integer() and a literal are cut (`RoundsOperand`); a number assigned to a variable of the
other numeric type moves its bits (`StoresRawNumber`); a range of a string is taken for its start
(`IgnoresRange`, where the comment at 7973 says subtr()).  And the doubles: `!x` is true for 0 < |x| < 2, since
CMOVG compares the doubled bits with 0xFFE0000000000001 as signed integers and takes them for NaNs
(`NegatesSmall`, 9254-9261); `<=>` orders NaNs, an infinity and itself, and -0.0 and 0.0
(`OrdersEqual`, 7504-7541); `~=` misses nearly equal doubles that share no bit, such as 2.0 and
the double before it, and finds infinities nearly equal to numbers (`MissesNearlyEqual`, 7287-7499).  What `Unsupported` names: a literal double as
second operand of a comparison, a shift by a double literal, a computed right side of `&&`, `||`
and `^^`, a literal as one case of a conditional, a variable of type Range as an index, a script
that ends with a conditional, and an empty script.  Also met: `&&` and `||` evaluate both sides.

## BinaryFile

build_file from the first variable to save(), and running_file::load().  State: the
temporaries with their slots, the extern and private tables, the constants, the
strings, the code as a sequence of bytes, the relocations, then the image.  A byte is `<<kind, name,
k>>`, byte k of that object, so that a reference can be followed to what it names.
Actions: `AddVariable`, `AdjustTemporaries`, `AddConstant`, `Generate`, `Instruction`,
`PlaceLabel`, `Return`, `Save`, `Load`.

`FrameDisjoint`: the slots of the temporaries do not overlap, are aligned and are inside the
frame.  `Resolved`: each reference of the saved code leads to the byte it names.  `ReadBack`:
load() finds every variable under its name with its value and its text.

Bounds: any selection and order of seven variables: temporaries of 1 and of 8 bytes and
strings, an extern, privates, names that fit in `f_name` and names that do not; texts longer
than `f_data`; a number; 12 bytes of code hold two references of different kinds and a label.

Proof: `FrameAlwaysDisjoint`, for any declarations and sizes.  `FrameInv` has the types, that
the 8 byte slots are stacked below each other (`Stacked8`) and that the 1 byte ones are
numbered below those (`Numbered1`); an action that does not touch the frame keeps it
(`SameFrame`).

`ReferencesResolved` and `FileReadBackAlways`: `Resolved` and `ReadBack` for any declarations,
constants, labels, code and sizes.  The argument has three parts:

- the layout.  Total() and FlattenSeq() are recursive functions: what one size or one part
  more does to them (`TotalOne`, `FlattenOne`) comes from `Recursion`, and an induction as a fact
  about a set gives `FlattenPlaces`, a part of a file is where the sizes before it end.  With
  `NineParts`, `FileLaidOut` says that Written() has every byte of the code, of each table and of
  each string where the offsets of the file say (`LaidOut`), the alignment before the strings
  and the padding at the end included;
- `FileInv`, which has the file `Sound` at every step: a name or a text too long for its field
  is `Held` by the strings at the offset of its entry, the constants have different texts,
  a relocation names an entry that is there and has the offset of the next instruction, a label
  is not after the end of the code; and the image is that of the file.  Neither property is inductive:
  before save() there is no image to speak of.  TLC checked `FileInv` on the instance of
  the run before it was proved;
- from both, a displacement leads to a byte (`FileResolved`, one case per kind of reference) and an
  entry of the table to its name and its text (`ExternFound`, `PrivateFound`, `FileReadBack`).

Assumptions: `SizesAssumption` (fields and entries are not empty, an entry is a multiple of eight
bytes), `OffsetsAssumption` (f_data and f_data_size are inside an entry), `DeclarationsAssumption`
and `NamesAssumption`: sizes are numbers, the counter of add_constant() (binary.cpp:3043) has a
name for every text, and "@s..." is no name of a variable nor of a number, as no identifier has
an @ and a number is "@" and digits (2989).

## Run-time: TextFunctions, Strings, Runtime, Texts

`Strings` is the memory of the strings_*() functions of binary.cpp: a string that fits in a word
is kept in its variable, a longer one in a buffer of the heap that the variable owns or in a
literal of the file; `fault` is the first thing the allocator or the processor refuses.  Each
function is an operator from memory to memory with the frees, allocations and copies in
the order of the code, and what they refuse (a negative count of strings_multiply(), 1023-1028, an
index out of range of strings_char_at()): an exception across generated code, which ends the
process.  `TextFunctions` is what they compute on texts.  `Runtime` is the host
(`Load`, `SetVariable`, `Clean`, `Run`, `Return` of running_file and of the generated code), a script that calls the functions
in any order on the variables and the temporaries, and a new process after a crash
(`Restart`).  Variables are found by the lower_bound() of find_variable(), over names that the
functions copy along.

`Ownership`: every live buffer has one owner that knows its size, no variable has a buffer that
was freed, nothing is freed twice.  `ImplementsTexts` is a refinement: `Texts` is a map from
variables to texts, with no memory in it, where each operation has a name, a destination and
operands, and gives its destination the one text it makes of them; what it makes (`AtOf`,
`ShiftOf`...) is a parameter of `Texts`.  `Runtime` implements it with `text` as what each variable
shows and `call` as the last call and its arguments, so that a step of strings_at() has to be an
`At` of `Texts` with the same index and not a stutter, nor another operation.

`Texts` has one exception, named (`Left`): strings_at() out of range, strings_unconcat() of "",
strings_shift() with nothing left, and strings_substr(), slice and substring with start > end or
a negative bound, only call strings_free(), which resets what is in the heap and nothing else: a destination
whose text fits in a word, or is a shared literal, keeps its OLD text.  The comments say the result is "":
"if count >= s->f_data_size then output is going to be "" (binary.cpp:909), and the one of
strings_at() (1140-1141).

Bounds: words of one character, hence texts of two are in buffers; three buffers for the
three variables, interchangeable; texts longer than two characters are not followed; counts and
indexes are -1, 0, 1 and 2, below, at and beyond both ends.  No step reads `call`, which the
VIEW leaves out of the states, but not out of the steps the refinement is checked on.

What it shows: substr(), slice() and substring() with a result longer than a word write to
the buffer they just freed (fault "write"); strings_char_at() out of range throws an exception
across generated code, which ends the process; strings_concat() copies the name of its operand (512-529), and
the variable may no longer be found.

Proof: `OwnershipAlways`, for any variables, buffers and texts.  `IInv` is `Owned(mem, {})`
and that no temporary owns anything outside of a run (`Idle`); `Owned(m, X)` lets the buffers of X live without an
owner, which strings_concat_params() needs for a while.  What the operations compute is
never looked at, only the sizes.  Assumptions: a word is not empty, `Null`, the buffers and
the addresses of literals are distinct, and so are the variables of each kind.

`TextsImplemented` is the refinement, `Spec => ImplementsTexts`, for any variables, buffers,
literals, inputs and counts: each operation is the one of its name in `Texts`.  Three layers:

- `Recursion` has what the proofs about recursive functions need, stated without operators as
  parameters: induction as a fact about a set, a recursion whose step is a function and looks
  at lower ranks only has a solution (`RecursionExists`), computing place after place does too
  (`PlaceAfterPlace`), and FlattenSeq() of sequences is one;
- what each function of `TextFunctions` computes is a text (`ExpansionText` and `ReplaceText` by
  `RecursionExists`), so that what is written in a word or a buffer is read back;
- `Gives(m, n, d, text)`: from memory m to n, d has the text and no other variable has another.
  It is proved of each piece (the free, the word, the buffer, the shared literal), then of
  each string function, whatever its branch: `Made` with what `Functions` offers.

`TInv` adds to `IInv` that a text in a word has the size the variable says, that nothing was
refused before the process ends, that every text is one of `Followed` and that the constants
are those of the file.  A function that only frees is `OnlyFreed`, a refusal
`Refused`.  `BoundsAssumption`: the counts are integers, what is followed are texts, the empty
one, the inputs and the literals among them; what is not followed is not claimed.

## What is proved, what is model-checked

The thirty theorems are in `NodeTreeProofs`, `VariablesProofs`, `AttributesProofs`,
`RuntimeProofs`, `BinaryFileProofs`, `ControlFlowProofs` and `ControlFlowJumps` (all but the first
two over the lemmas of `Recursion`); each follows from an inductive invariant of the specification without its
fairness, for every value of the constants under the named ASSUMEs of the modules.

Only model-checked, and why:

- the liveness properties (`CleanTerminates`, `VariableReturns`, `AttributesReturn`, `Returns`):
  TLAPS has no ENABLED;
- the parser, the optimizer and the generated code: what recursive definitions
  compute for every input needs inductions over data, and those modules declare RECURSIVE
  operators.

## Not modelled

- classes, packages, imports and the search of names in them: the recursion over super
  classes and files loaded on demand; the overloads of functions and their ranking;
- the types compiler_expression.cpp gives to operators and assignments;
- the directives of the parser, its classes, functions and pragmas; the characters of the
  lexer and of the streams (UTF-8), numbers and strings;
- JSON, the package database, the resources, the archive: sequential code on a state of
  its own, with files;
- arrays and the texts of booleans and numbers at run time, UTF-8 characters of several
  bytes;
- the encodings of instructions; the arithmetic of doubles, and their fractions but in the tests of `Floats`;
- node flags, display, messages, options and tools: accessors, tables, printing, I/O.

What would come next: inheritance and its cycles with the visibility of members; imports and the
database, a package loaded once as an abstract specification; the ranking of overloads
against a reference.
