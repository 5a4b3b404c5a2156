SPECIFICATION Spec
CONSTANTS
  default = default
  work = work
  p1 = p1
  p2 = p2
  p3 = p3
  f1 = f1
  f2 = f2
  f3 = f3
  f4 = f4
  Hot = Hot
  None = None
  Proc = {p1, p2, p3}
  Plans <- MCPlans
  Mortal = {p1, p2}
  Name = {default, work}
  Default = default
  File = {f1, f2, f3, f4}
  Worlds <- MCWorlds
SYMMETRY NewFiles
PROPERTIES PickerCreates
CHECK_DEADLOCK FALSE
