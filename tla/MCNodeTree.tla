----------------------------- MODULE MCNodeTree -----------------------------
(***************************************************************************)
(* NodeTree on a few nodes, which are interchangeable.                     *)
(***************************************************************************)
EXTENDS NodeTree

CONSTANTS n1, n2, n3, n4

NodeSymmetry == Permutations(Nodes)
=============================================================================
