CONSTANTS
  n1 = n1
  n2 = n2
  n3 = n3
  n4 = n4
  NoNode = NoNode
  Nodes = {n1, n2, n3}
  Kinds = {"branch", "token", "unknown"}
  MaxGuards = 1
  AllowLoops = FALSE
SPECIFICATION FairSpec
INVARIANTS LinksAgree LocksBalanced NeverDestroyedLocked NeverInternalError WellTyped
PROPERTIES LockedNodeStays RefusedFirst CleanTerminates
