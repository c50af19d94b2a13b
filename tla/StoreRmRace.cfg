CONSTANTS
  n1 = n1  n2 = n2  n3 = n3
  s1 = s1  s2 = s2  t1 = t1  t2 = t2  c1 = c1  c2 = c2  big = big  nil = nil
  Servers = {s1}
  Threads = {t1, t2}
  Controls = {c1}
  Host <- OneServer
  Names = {n1, n2}
  Hashes = {big, nil}
  Size <- Lengths1
  Empty = nil
  Requests = {"puts", "rm"}
  Overlap = "any"
  MaxFileId = 3
  MaxFaults = 0
  MaxCrashes = 0
SPECIFICATION Spec
PROPERTIES
  RecycledOnlyWhenUnlinked
