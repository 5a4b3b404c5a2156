SPECIFICATION Spec
CONSTANTS
  k1 = k1
  None = None
  Card = {k1}
  Name <- Names
  Session <- Sessions
  Proc <- Procs
  Github = "github"
  Who <- People
  Menu <- ClaimAsks
  Config <- Defaults
  Mortal = {"rev"}
  MaxOpen = 2
  MaxReturns = 1
INVARIANTS NoSelfClaim
PROPERTIES CloseAnswers ClaimPassesFromDead
