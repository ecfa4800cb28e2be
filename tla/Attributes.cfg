SPECIFICATION FairSpec
CONSTANTS
  prog = prog
  d = d
  va = va
  a = a
  vb = vb
  b = b
  f = f
  cls = cls
  e = e
  m = m
  s = s
  NoNode = NoNode
  Nodes = {prog, d, va, a, vb, b, f, cls, e, m, s}
  Trees <- AllTrees
  MaxDepth = 20
INVARIANTS Exclusive LoopingIsWalking CircularReported OrderIndependent
PROPERTIES AttributesReturn
