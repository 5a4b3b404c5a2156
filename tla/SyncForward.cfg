SPECIFICATION ScreenSpec
CONSTANTS
  p1 = p1
  p2 = p2
  p3 = p3
  MaxId = 3
  Github = "github"
  Unset = Unset
  None = None
  Bad = Bad
  Calendar <- MCCalendar
  Proc = {p1, p2, p3}
  Worlds <- MCWorlds
  Mortal = {}
  Hub <- MCHub
  Worker = {"bo", "cy"}
  Reaper = "tb-reap"
  Protected = {"orch"}
  MaxChecks = 1
  MinDays = 1
  MaxDay = 2
  Tui = p1
  Me = "me"
  AwayRepo = "t"
PROPERTIES SyncForward
CHECK_DEADLOCK FALSE
