SPECIFICATION Spec
CONSTANTS
  k1 = k1
  None = None
  Card = {k1}
  Name <- Names
  Session <- Sessions
  Proc <- Procs
  Github = "github"
  Who <- People
  Menu <- WorkAsks
  Config <- WorkBoard
  Mortal = {"rev"}
  MaxOpen = 2
  MaxReturns = 1
INVARIANTS TypeOK OwnedByColumn
PROPERTIES WorkIsReviewed NoteIsFresh ImplementsCardFlow
