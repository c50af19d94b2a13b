CONSTANTS
  s1 = s1  s2 = s2
  Servers = {s1, s2}
  Origin = s1
  Size = 3
  InitialSources <- OneSource
  MaxCuts = 1
  MaxKills = 0
  MaxChanges = 1
  ChangeAnyTime = TRUE
SPECIFICATION Spec
INVARIANTS
  MergeExact
