CONSTANTS
  s1 = s1  s2 = s2
  Servers = {s1, s2}
  Origin = s1
  Size = 3
  InitialSources <- TwoSources
  MaxCuts = 0
  MaxKills = 0
  MaxChanges = 0
  ChangeAnyTime = FALSE
SPECIFICATION Spec
INVARIANTS
  FreshTicketAccepted
