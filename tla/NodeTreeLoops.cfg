CONSTANTS
  n1 = n1
  n2 = n2
  n3 = n3
  n4 = n4
  NoNode = NoNode
  Nodes = {n1, n2}
  Kinds = {"branch"}
  MaxGuards = 0
  AllowLoops = TRUE
SPECIFICATION Spec
INVARIANTS Acyclic
SYMMETRY NodeSymmetry
