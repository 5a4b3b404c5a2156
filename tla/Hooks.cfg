SPECIFICATION Spec
CONSTANTS
  k1 = k1
  k2 = k2
  None = None
  Card <- Cards
  Name <- Names
  Session <- Sessions
  Proc <- Procs
  Github = "github"
  Who <- People
  Menu <- HookAsks
  Config <- HookBoard
  Mortal = {}
  MaxOpen = 2
  MaxReturns = 1
PROPERTIES ApprovalIsForOneCard LiftedByDone
CHECK_DEADLOCK FALSE
