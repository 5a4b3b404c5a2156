SPECIFICATION FairSpec
CONSTANTS
  steady = steady
  frail = frail
  hasty = hasty
  None = None
  Dead = Dead
  Proc <- Procs
  MaxTicket = 3
  Frail = {frail}
  Sleepy = {frail}
  Hasty = {hasty}
  Nested = {hasty}
  Sitting = {frail}
INVARIANTS FirstCome TicketsApart NoStrayTicket
PROPERTY Served
