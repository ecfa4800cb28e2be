SPECIFICATION FairSpec
CONSTANTS
  v1 = v1
  v2 = v2
  Vars = {v1, v2}
  Shapes <- FewShapes
  Considered <- FewNames
  MaxRefs = 2
  AllowCycles = TRUE
  MaxWords = 2
  MaxDepth = 9
INVARIANTS CompiledIsNeeded RecordedOnce
PROPERTIES CompiledOnce VariableReturns
CHECK_DEADLOCK FALSE
