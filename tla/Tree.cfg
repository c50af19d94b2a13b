CONSTANTS
  u1 = u1  u2 = u2  NoUser = NoUser
  s1 = s1  s2 = s2  t1 = t1  a = a
  Users = {u1, u2}
  Sessions = {s1, s2}
  Threads = {t1}
  Host <- OwnServer
  Names = {a}
  MaxDepth = 2
  MaxId = 3
  MaxTickets = 1
  MaxFaults = 1
  Careless = {u2}
SYMMETRY SessionsAlike
VIEW Observed
SPECIFICATION Spec
INVARIANTS
  TreeInv
  TreeWhole
  LsShowsDirectory
  PromptShowsSession
