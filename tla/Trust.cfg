SPECIFICATION Spec
CONSTANTS
  p1 = p1  p2 = p2  p3 = p3
  h1 = h1  h2 = h2  v1 = v1  v2 = v2  q1 = q1  q2 = q2
  f1 = f1  f2 = f2  x1 = x1  x2 = x2  b1 = b1  b2 = b2
  Proc = {p1, p2, p3}
  Mortal = {p1}
  Hook = {h1, h2}  Argv = {v1, v2}  Path = {q1, q2}  File = {f1, f2}  Bytes = {x1, x2}
  Board = {b1, b2}
  None = None
  MaxDepth = 2
  MaxMeddle = 1
  Worlds <- MCWorlds
INVARIANTS LeftWhole RanConfirmed Gated
PROPERTIES KeysKept HangsEnd
CHECK_DEADLOCK FALSE
