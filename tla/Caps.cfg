SPECIFICATION Spec
CONSTANTS
  k1 = k1
  k2 = k2
  k3 = k3
  k4 = k4
  k5 = k5
  None = None
  Card <- Cards
  Name <- Names
  Session <- Sessions
  Proc <- Procs
  Github = "github"
  Who <- People
  Menu <- CapAsks
  Config <- CapBoard
  Mortal = {}
  MaxOpen = 1
  MaxReturns = 1
SYMMETRY Alike
INVARIANTS WipBound OwnerCap
CHECK_DEADLOCK FALSE
