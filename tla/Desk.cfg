SPECIFICATION DeskSpec
CONSTANTS
  p1 = p1
  p2 = p2
  p3 = p3
  MaxId = 4
  Github = "github"
  Unset = Unset
  None = None
  Bad = Bad
  Calendar <- MCCalendar
  Proc = {p1, p2, p3}
  Worlds <- MCWorlds
  Mortal = {p3}
INVARIANTS TypeOK
PROPERTIES BulkWhole SessionKeeps StreamComplete
CHECK_DEADLOCK FALSE
