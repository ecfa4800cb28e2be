CONSTANTS
  n1 = n1
  n2 = n2
  n3 = n3
  n4 = n4
  NoNode = NoNode
  Nodes = {n1, n2, n3, n4}
  Kinds = {"branch", "unknown"}
  MaxGuards = 0
  AllowLoops = FALSE
SPECIFICATION Spec
PROPERTIES ReplacedInPlace CleanComplete
SYMMETRY NodeSymmetry
