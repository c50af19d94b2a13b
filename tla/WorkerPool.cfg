CONSTANTS
  w1 = w1  w2 = w2  k1 = k1  k2 = k2  k3 = k3  f1 = f1  f2 = f2
  d1 = d1  None = None
  Workers = {w1, w2}
  Conns = {k1, k2, k3}
  Fds = {f1, f2}
  Links = {d1}
  MaxQueries = 2
SPECIFICATION FairSpec
INVARIANTS
  PoolInv
  NoLostWakeup
  ExitShutsTransfers
PROPERTIES
  QueuedServed
  ExitCompletes
