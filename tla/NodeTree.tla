------------------------------ MODULE NodeTree ------------------------------
(***************************************************************************)
(* The tree of nodes every phase of the compiler works on: the parent and  *)
(* children links (node_tree.cpp), the lock counter that protects a list   *)
(* of children while a loop walks it (node_lock.cpp) and the lifetime of   *)
(* the nodes, which are owned through their parent's list of children, by  *)
(* the local variables of the program and by its node_lock objects.        *)
(*                                                                         *)
(* The library is single threaded.  What interleaves is the code of the    *)
(* compiler: any of its functions may be entered while a caller up the C++ *)
(* stack still walks, and locks, the nodes it is about to change.  Each    *)
(* public member function of node is one action; a thrown exception is the *)
(* value of exc and is followed by the unwinding of the node_lock objects  *)
(* up to the catch.  clean_tree() is a loop and takes one step per child.  *)
(***************************************************************************)
EXTENDS Integers, Sequences, SequencesExt, FiniteSets

CONSTANTS
  Nodes,       \* identities of the node objects; a destroyed one is reused
  NoNode,      \* the null pointer
  Kinds,       \* the kinds of node types the program creates
  MaxGuards,   \* bound: number of node_lock objects on the C++ stack
  AllowLoops   \* whether callers may give a node one of its descendants as parent

AllKinds        == {"branch", "leaf", "root", "token", "unknown"}
AcceptsChildren == {"branch", "root", "unknown"}
CanBeChild      == {"branch", "leaf", "unknown"}

ASSUME NodesAssumption == NoNode \notin Nodes
ASSUME NodesFinite == IsFiniteSet(Nodes)
ASSUME KindsAssumption == Kinds \subseteq AllKinds
ASSUME GuardsAssumption == MaxGuards \in Nat
ASSUME LoopsAssumption == AllowLoops \in BOOLEAN

VARIABLES
  type,      \* [Nodes -> AllKinds], node::f_type
  parent,    \* node::f_parent, a weak pointer: NoNode once its target is destroyed
  children,  \* node::f_children
  lock,      \* node::f_lock
  held,      \* nodes referenced by local variables of the program
  guards,    \* the node_lock objects alive, oldest first; NoNode once unlocked
  exc,       \* the exception in flight, or "none"
  cleaning   \* the frames of clean_tree() calls, outermost first

vars == <<type, parent, children, lock, held, guards, exc, cleaning>>

Exceptions == {"locked_node", "incompatible_type", "out_of_range",
               "no_parent", "invalid_data", "internal_error"}

Frame == [node : Nodes, idx : Nat]

TypeOK ==
  /\ type \in [Nodes -> AllKinds]
  /\ parent \in [Nodes -> Nodes \cup {NoNode}]
  /\ children \in [Nodes -> Seq(Nodes)]
  /\ lock \in [Nodes -> Nat]
  /\ held \subseteq Nodes
  /\ guards \in Seq(Nodes \cup {NoNode})
  /\ exc \in Exceptions \cup {"none"}
  /\ cleaning \in Seq(Frame)

-----------------------------------------------------------------------------
(***************************************************************************)
(* Lifetime.  A node exists as long as a shared pointer to it does.        *)
(***************************************************************************)

Closed(S, kids) == \A n \in S : Range(kids[n]) \subseteq S

\* The nodes of `from' and everything below them.
Below(from, kids) ==
  LET all == {S \in SUBSET Nodes : from \subseteq S /\ Closed(S, kids)}
  IN  {n \in Nodes : \A S \in all : n \in S}

\* The shared pointers that are not in a list of children: the program's
\* variables and the f_node of its node_lock objects.
OwnersRawGuard(hd, gs) == hd
Owners(hd, gs) == hd \cup (Range(gs) \ {NoNode})

Live(hd, gs, kids) == Below(Owners(hd, gs), kids)

Alive == Live(held, guards, children)

\* What is left of the links once the destructors ran: a destroyed node has
\* none, and a weak pointer to it is null.
ReapedParent(up, live) ==
  [n \in Nodes |-> IF n \in live /\ up[n] \in live THEN up[n] ELSE NoNode]
ReapedChildren(kids, live) ==
  [n \in Nodes |-> IF n \in live THEN kids[n] ELSE << >>]
ReapedType(live) == [n \in Nodes |-> IF n \in live THEN type[n] ELSE "unknown"]

-----------------------------------------------------------------------------
(***************************************************************************)
(* The links, as functions from a tree to a tree: a tree is a record with  *)
(* the parent pointers, the lists of children and the exception raised.    *)
(* The type of each node and the lock counters are those of the caller.    *)
(***************************************************************************)

Tree == [up : [Nodes -> Nodes \cup {NoNode}],
         kids : [Nodes -> Seq(Nodes)],
         exc : Exceptions \cup {"none"}]

CurrentTree == [up |-> parent, kids |-> children, exc |-> "none"]

Raise(t, e) == [t EXCEPT !.exc = e]

\* std::find() in the list of children, from 1.
Position(kids, p, n) == CHOOSE i \in DOMAIN kids[p] : kids[p][i] = n

\* The locks set_parent() looks at; the mutant does not look at the node's own
MayMoveLocked(lk, p, n, q) ==
  /\ q # NoNode => lk[q] = 0
  /\ p # q /\ p # NoNode => lk[p] = 0
MayMove(lk, p, n, q) ==
  /\ lk[n] = 0
  /\ q # NoNode => lk[q] = 0
  /\ p # q /\ p # NoNode => lk[p] = 0

CompatibleParent(n, q) == q # NoNode => type[q] \in AcceptsChildren
Compatible(n, q) ==
  /\ q # NoNode => type[q] \in AcceptsChildren
  /\ type[n] \in CanBeChild

RemoveLink(t, n, p) ==
  [t EXCEPT !.kids[p] = RemoveAt(t.kids[p], Position(t.kids, p, n)),
            !.up[n] = NoNode]

\* the f_parent.reset() forgotten
DetachKeepingParent(t, n) ==
  IF t.up[n] = NoNode THEN t
  ELSE [t EXCEPT !.kids[t.up[n]] = RemoveAt(@, Position(t.kids, t.up[n], n))]
Detach(t, n) == IF t.up[n] = NoNode THEN t ELSE RemoveLink(t, n, t.up[n])

\* index is counted from 0, as in the code
Attach(t, n, q, index) ==
  [t EXCEPT !.kids[q] = InsertAt(t.kids[q], index + 1, n),
            !.up[n] = q]

AttachAt(t, n, q, index) ==
  IF q = NoNode THEN t
  ELSE IF index = -1 THEN Attach(t, n, q, Len(t.kids[q]))
  ELSE IF index > Len(t.kids[q]) THEN Raise(t, "out_of_range")
  ELSE Attach(t, n, q, index)

\* node::set_parent()
SetParent(t, lk, n, q, index) ==
  LET p == t.up[n] IN
  IF ~ MayMove(lk, p, n, q) THEN Raise(t, "locked_node")
  ELSE IF q = p /\ index = -1 THEN t
  ELSE IF ~ Compatible(n, q) THEN Raise(t, "incompatible_type")
  ELSE IF p # NoNode /\ n \notin Range(t.kids[p]) THEN Raise(t, "internal_error")
  ELSE AttachAt(Detach(t, n), n, q, index)

\* node::delete_child(); vector::at() raises std::out_of_range
DeleteChild(t, lk, p, index) ==
  IF index \notin 0 .. Len(t.kids[p]) - 1 THEN Raise(t, "out_of_range")
  ELSE SetParent(t, lk, t.kids[p][index + 1], NoNode, -1)

\* node::insert_child() and, with index -1, node::append_child()
InsertChild(t, lk, p, index, c) ==
  IF c = NoNode THEN Raise(t, "invalid_data")
  ELSE SetParent(t, lk, c, p, index)

\* node::set_child(); one mutant tests the arguments too late, the other adds
\* the new child last
SetChildTestingLate(t, lk, p, index, c) ==
  LET d == DeleteChild(t, lk, p, index)
  IN  IF d.exc # "none" THEN d ELSE InsertChild(d, lk, p, index, c)
SetChildLast(t, lk, p, index, c) ==
  LET d == DeleteChild(t, lk, p, index) IN
  IF c = NoNode THEN Raise(t, "invalid_data")
  ELSE IF d.exc # "none" THEN d
  ELSE InsertChild(d, lk, p, -1, c)
SetChild(t, lk, p, index, c) ==
  LET d == DeleteChild(t, lk, p, index) IN
  IF c = NoNode THEN Raise(t, "invalid_data")
  ELSE IF d.exc # "none" THEN d
  ELSE InsertChild(d, lk, p, index, c)

\* node::get_offset(), from 0
Offset(t, n) == Position(t.kids, t.up[n], n) - 1

\* node::replace_with(): the safe_variable makes the parent look unlocked for
\* the duration of the call, whatever its outcome.
ReplaceWith(t, lk, n, c) ==
  LET p == t.up[n] IN
  IF c = NoNode THEN Raise(t, "invalid_data")
  ELSE IF p = NoNode THEN Raise(t, "no_parent")
  ELSE IF n \notin Range(t.kids[p]) THEN Raise(t, "internal_error")
  ELSE SetChild(t, [lk EXCEPT ![p] = 0], p, Offset(t, n), c)

-----------------------------------------------------------------------------
(***************************************************************************)
(* The actions.                                                            *)
(***************************************************************************)

Init ==
  /\ type = [n \in Nodes |-> "unknown"]
  /\ parent = [n \in Nodes |-> NoNode]
  /\ children = [n \in Nodes |-> << >>]
  /\ lock = [n \in Nodes |-> 0]
  /\ held = {}
  /\ guards = << >>
  /\ exc = "none"
  /\ cleaning = << >>

\* The program runs its own code: no exception is unwinding the stack and
\* clean_tree() is not running.
Running == exc = "none" /\ cleaning = << >>

\* The state once a call produced the tree t and the program holds hd and gs.
Settle(t, hd, gs) ==
  LET live == Live(hd, gs, t.kids) IN
  /\ parent' = ReapedParent(t.up, live)
  /\ children' = ReapedChildren(t.kids, live)
  /\ type' = ReapedType(live)
  /\ held' = hd
  /\ guards' = gs

Finish(t) ==
  /\ exc' = t.exc
  /\ Settle(t, held, guards)
  /\ UNCHANGED lock

\* No function checks that the new parent is not below the node: not to make
\* a loop is up to the caller.  (Nodes on a loop own each other and are never
\* destroyed: the lifetime of the model is that of trees without loops.)
NoLoop(n, q) == AllowLoops \/ q \notin Below({n}, children)

Indexes == -1 .. Cardinality(Nodes)

CallSetParent(n, q, index) ==
  /\ Running
  /\ NoLoop(n, q)
  /\ Finish(SetParent(CurrentTree, lock, n, q, index))
  /\ UNCHANGED cleaning

CallInsertChild(p, index, c) ==
  /\ Running
  /\ c # NoNode => NoLoop(c, p)
  /\ Finish(InsertChild(CurrentTree, lock, p, index, c))
  /\ UNCHANGED cleaning

CallDeleteChild(p, index) ==
  /\ Running
  /\ Finish(DeleteChild(CurrentTree, lock, p, index))
  /\ UNCHANGED cleaning

CallSetChild(p, index, c) ==
  /\ Running
  /\ c # NoNode => NoLoop(c, p)
  /\ Finish(SetChild(CurrentTree, lock, p, index, c))
  /\ UNCHANGED cleaning

CallReplaceWith(n, c) ==
  /\ Running
  /\ c # NoNode /\ parent[n] # NoNode => NoLoop(c, parent[n])
  /\ Finish(ReplaceWith(CurrentTree, lock, n, c))
  /\ UNCHANGED cleaning

\* node::to_unknown(), which only writes f_type
ToUnknown(n) ==
  /\ Running
  /\ IF lock[n] = 0
     THEN /\ type' = [type EXCEPT ![n] = "unknown"]
          /\ UNCHANGED exc
     ELSE /\ exc' = "locked_node"
          /\ UNCHANGED type
  /\ UNCHANGED <<parent, children, lock, held, guards, cleaning>>

-----------------------------------------------------------------------------
(***************************************************************************)
(* clean_tree(): from the last child to the first, and recursively.        *)
(***************************************************************************)

Top == cleaning[Len(cleaning)]

\* where the loop over the children of p starts
CleanFromBeforeLast(p) == IF children[p] = << >> THEN 0 ELSE Len(children[p]) - 1
CleanFrom(p) == Len(children[p])

CallCleanTree(n) ==
  /\ Running
  /\ n \in held
  /\ cleaning' = << [node |-> n, idx |-> CleanFrom(n)] >>
  /\ UNCHANGED <<type, parent, children, lock, held, guards, exc>>

\* The index passed to delete_child(), after the --idx of the loop.
ChildIndex == Top.idx - 1

\* the mutant only counts the children it deletes
NextTurnDeleted ==
  [cleaning EXCEPT ![Len(cleaning)].idx =
     IF type[children[Top.node][@]] = "unknown" THEN @ - 1 ELSE @]
NextTurn == [cleaning EXCEPT ![Len(cleaning)].idx = @ - 1]

\* One turn of the while loop.
CleanChild ==
  /\ exc = "none" /\ cleaning # << >> /\ Top.idx > 0
  /\ \E c \in Nodes :
       /\ c = children[Top.node][Top.idx]
       /\ \/ /\ type[c] = "unknown"
             /\ Finish(DeleteChild(CurrentTree, lock, Top.node, ChildIndex))
             /\ cleaning' = IF exc' = "none" THEN NextTurn ELSE << >>
          \/ /\ type[c] # "unknown"
             /\ cleaning' = Append(NextTurn, [node |-> c, idx |-> CleanFrom(c)])
             /\ UNCHANGED <<type, parent, children, lock, held, guards, exc>>

CleanReturn ==
  /\ exc = "none" /\ cleaning # << >> /\ Top.idx = 0
  /\ cleaning' = Front(cleaning)
  /\ UNCHANGED <<type, parent, children, lock, held, guards, exc>>

-----------------------------------------------------------------------------
(***************************************************************************)
(* The program's pointers and its node_lock objects.                       *)
(***************************************************************************)

\* std::make_shared<node>(kind)
Create(n, kind) ==
  /\ Running
  /\ n \notin Alive
  /\ type' = [type EXCEPT ![n] = kind]
  /\ held' = held \cup {n}
  /\ UNCHANGED <<parent, children, lock, guards, exc, cleaning>>

\* A variable is set to a node reached from another, get_child() for example.
Hold(n) ==
  /\ Running
  /\ n \in Alive
  /\ held' = held \cup {n}
  /\ UNCHANGED <<type, parent, children, lock, guards, exc, cleaning>>

\* The last variable that refers to the node goes out of scope.
Drop(n) ==
  /\ Running
  /\ n \in held
  /\ Settle(CurrentTree, held \ {n}, guards)
  /\ UNCHANGED <<lock, exc, cleaning>>

\* node_lock::node_lock(); a null pointer is accepted
GuardLock(n) ==
  /\ Running
  /\ Len(guards) < MaxGuards
  /\ guards' = Append(guards, n)
  /\ lock' = IF n = NoNode THEN lock ELSE [lock EXCEPT ![n] = @ + 1]
  /\ UNCHANGED <<type, parent, children, held, exc, cleaning>>

\* node_lock::unlock() and what it leaves in f_node
UnlockedKeepingNode(gs, i) == gs
Unlocked(gs, i) == [gs EXCEPT ![i] = NoNode]

\* node::unlock() throws when the counter is not positive
CanUnlock(n) == n # NoNode => lock[n] > 0

ReleaseLock(n) ==
  IF n # NoNode /\ CanUnlock(n) THEN [lock EXCEPT ![n] = @ - 1] ELSE lock

\* node_lock::unlock() called before the end of the scope, on any guard
GuardUnlock(i) ==
  /\ Running
  /\ i \in DOMAIN guards
  /\ lock' = ReleaseLock(guards[i])
  /\ IF CanUnlock(guards[i])
     THEN /\ Settle(CurrentTree, held, Unlocked(guards, i))
          /\ UNCHANGED exc
     ELSE /\ exc' = "internal_error"
          /\ UNCHANGED <<type, parent, children, held, guards>>
  /\ UNCHANGED cleaning

\* node_lock::~node_lock(): the end of the scope, or an exception leaving it;
\* it swallows the exception of unlock()
GuardEnd ==
  /\ cleaning = << >>
  /\ guards # << >>
  /\ lock' = ReleaseLock(Last(guards))
  /\ Settle(CurrentTree, held, Front(guards))
  /\ UNCHANGED <<exc, cleaning>>

\* The exception is caught at this level of the stack.
Catch ==
  /\ exc # "none"
  /\ exc' = "none"
  /\ UNCHANGED <<type, parent, children, lock, held, guards, cleaning>>

-----------------------------------------------------------------------------
Next ==
  \/ \E n \in Alive, q \in Alive \cup {NoNode}, i \in Indexes : CallSetParent(n, q, i)
  \/ \E p \in Alive, c \in Alive \cup {NoNode}, i \in Indexes : CallInsertChild(p, i, c)
  \/ \E p \in Alive, i \in Indexes : CallDeleteChild(p, i)
  \/ \E p \in Alive, c \in Alive \cup {NoNode}, i \in Indexes : CallSetChild(p, i, c)
  \/ \E n \in Alive, c \in Alive \cup {NoNode} : CallReplaceWith(n, c)
  \/ \E n \in Alive : ToUnknown(n)
  \/ \E n \in Nodes : CallCleanTree(n)
  \/ CleanChild
  \/ CleanReturn
  \/ \E n \in Nodes, k \in Kinds : Create(n, k)
  \/ \E n \in Nodes : Hold(n)
  \/ \E n \in Nodes : Drop(n)
  \/ \E n \in Alive \cup {NoNode} : GuardLock(n)
  \/ \E i \in 1 .. MaxGuards : GuardUnlock(i)
  \/ GuardEnd
  \/ Catch

Spec == Init /\ [][Next]_vars

\* Once clean_tree() is entered, the thread that runs it has nothing else to do.
FairSpec == Spec /\ WF_vars(CleanChild \/ CleanReturn)

-----------------------------------------------------------------------------
(***************************************************************************)
(* Safety.                                                                 *)
(***************************************************************************)

ValidLinks(up, kids) ==
  /\ \A p \in Nodes : IsInjective(kids[p])
  /\ \A c, p \in Nodes : c \in Range(kids[p]) <=> up[c] = p

\* The two directions of the tree agree, and a node is at one place only: it
\* is a child of the node its weak parent pointer names, once, and of no other.
\* set_parent() updates both sides in several steps, some of which can throw.
LinksAgree == ValidLinks(parent, children)

\* No set of nodes has all its parents inside, so that the recursive functions
\* (clean_tree(), find_descendent(), display(), the compiler) terminate.  A
\* comment of display() says that set_parent() prevents loops; it tests nothing
\* of the kind, and the property only holds of callers that never give a node
\* one of its descendants as parent (AllowLoops = FALSE).
Acyclic ==
  \A S \in (SUBSET Nodes) \ {{}} : \E n \in S : parent[n] \notin S

\* The counter of a node is the number of node_lock objects that still hold
\* it, whatever was unlocked early or unwound by an exception, so that the
\* destructor never unlocks a node once too many and never leaves one locked.
LocksBalanced ==
  \A n \in Nodes : lock[n] = Cardinality({i \in DOMAIN guards : guards[i] = n})

\* ~node() terminates the process when the node is still locked: a node whose
\* memory is gone is not locked and nothing in the tree refers to it.
NeverDestroyedLocked ==
  \A n \in Nodes \ Alive :
     /\ lock[n] = 0
     /\ parent[n] = NoNode /\ children[n] = << >>
     /\ \A m \in Nodes : parent[m] # n

\* "This should never occur" in get_offset(), and the matching test of
\* set_parent(): the parent always knows its child.  And node::unlock() is never
\* called for a node that is not locked.
NeverInternalError == exc # "internal_error"

\* Only nodes of a type made to have children have any, and the types that
\* only the parser uses as delimiters never enter a list of children.
WellTyped ==
  \A n \in Nodes :
     /\ children[n] # << >> => type[n] \in AcceptsChildren
     /\ parent[n] # NoNode => type[n] \in CanBeChild

\* The inductive invariant behind the above.  LinksAgree needs the lifetime to
\* be right, NeverDestroyedLocked needs the count of the node_lock objects.
IInv ==
  /\ TypeOK
  /\ LinksAgree
  /\ LocksBalanced
  /\ NeverDestroyedLocked
  /\ NeverInternalError

-----------------------------------------------------------------------------
(***************************************************************************)
(* What a step may do.                                                     *)
(***************************************************************************)

Locked(n) == lock[n] > 0 /\ lock'[n] > 0

\* replace_with() removes the node and then inserts the new one.  When this one
\* is refused, the node is gone already; when it was a sibling, it left its own
\* place first, which may leave no place at the offset of the node.
ListReplaced(p, n, c) ==
  LET list == children[p]
      k    == Offset(CurrentTree, n) + 1
  IN  IF parent[c] # p
      THEN children'[p] = IF exc' = "none" THEN [list EXCEPT ![k] = c] ELSE RemoveAt(list, k)
      ELSE Range(children'[p]) =
             Range(list) \ (IF exc' = "out_of_range" THEN {n, c} ELSE {n})

ReplacedIn(p) ==
  \E n \in Alive, c \in Alive :
     parent[n] = p /\ CallReplaceWith(n, c) /\ ListReplaced(p, n, c)

\* A locked node stays where it is, and keeps its type; it may only lose its
\* parent by the destruction of that parent.  Only replace_with() on one of its
\* children writes its list of children, and "the count will remain the same",
\* as the code says when it hides the lock, exactly when the call returns and
\* the new child was not a sibling: otherwise the list lost one child or two.
LockedNodeStays ==
  [][\A n \in Nodes : Locked(n) =>
        /\ type'[n] = type[n]
        /\ children'[n] # children[n] => ReplacedIn(n)
        /\ parent'[n] # parent[n] => parent[n] \notin Alive']_vars

\* replace_with(), when it returns and the replacement was not a sibling, puts
\* it exactly where the node was: all other children keep their offset.
ReplacedInPlace ==
  [][\A n, c \in Alive :
        LET p == parent[n] IN
        /\ exc' = "none" /\ p # NoNode /\ parent[c] # p
        /\ CallReplaceWith(n, c)
        => children'[p] = [children[p] EXCEPT ![Offset(CurrentTree, n) + 1] = c]
    ]_vars

\* set_child() refused for its arguments (a null child, an index without a
\* child, a locked child to remove) leaves the tree as it was: it is only once
\* the old child left that a refusal of the new one comes too late.
RefusedFirst ==
  [][children' # children =>
       \A p \in Alive, c \in Alive \cup {NoNode}, i \in Indexes :
          \/ c = NoNode
          \/ i \notin 0 .. Len(children[p]) - 1
          \/ lock[children[p][i + 1]] > 0
          => ~ CallSetChild(p, i, c)]_vars

\* When clean_tree() returns, no NODE_UNKNOWN is left anywhere below the node
\* it was called for, although it deletes from the lists it walks; and nothing
\* but unknown nodes left their parent on the way.
CleanComplete ==
  [][/\ cleaning # << >> /\ cleaning' = << >> /\ exc' = "none"
        => \A n \in Below({cleaning[1].node}, children) \ {cleaning[1].node} :
              type[n] # "unknown"
     /\ CleanChild
        => \A n \in Nodes : parent'[n] # parent[n] =>
              type[n] = "unknown" \/ parent[n] \notin Alive']_vars

\* clean_tree() returns or throws, whatever the shape of the tree.
CleanTerminates == cleaning # << >> ~> cleaning = << >>
=============================================================================
