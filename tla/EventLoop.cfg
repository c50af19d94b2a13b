CONSTANTS
  c1 = c1  c2 = c2
  None = None  Timer = Timer  Listen = Listen
  Clients = {c1, c2}
  Roles <- PromptAndAny
  Leavers = {c2}
  Conns = {1, 2}
  Slots = 2
  Timeout = 3
  MaxTick = 3
  MaxNoMem = 1
  BatchMax = 2
  MaxCmds = 1
  MaxLag = 2
SPECIFICATION LoopSpec
INVARIANTS
  WheelInv
  OwnSession
  StallsOnlyOnReuse
PROPERTIES
  ClosesOnTime
  PunctualClients
  CommandsEnd
  SecondsTicked
CHECK_DEADLOCK FALSE
