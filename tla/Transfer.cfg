SPECIFICATION FairSpec
CONSTANTS
  home = home
  office = office
  ann = ann
  bob = bob
  mvAnn = mvAnn
  mvBob = mvBob
  w1 = w1
  w2 = w2
  note = note
  None = None
  Board = {home, office}
  MaxId = 2
  Work = {w1, w2}
  FiledOn <- MCFiledOn
  Entry = {note}
  Name = {bob}
  Mover = {mvAnn, mvBob}
  NameOf <- MCNameOf
  Forcing = {}
INVARIANTS Whereabouts OneCopy AckedKept BlockNamesItsCard
PROPERTY MovesEnd
CHECK_DEADLOCK FALSE
