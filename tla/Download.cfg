CONSTANTS
  s1 = s1  s2 = s2
  Servers = {s1, s2}
  Origin = s1
  Size = 3
  InitialSources <- AnyStart
  MaxCuts = 2
  MaxKills = 1
  MaxChanges = 1
  ChangeAnyTime = FALSE
SPECIFICATION FairSpec
INVARIANTS
  DownloadInv
  MergeExact
  TicketSpent
PROPERTIES
  KeepsProgress
  DownloadEnds
