SPECIFICATION Spec

CONSTANTS
  m1 = m1
  m2 = m2
  m3 = m3
  g1 = g1
  g2 = g2
  Message = {m1, m2, m3}
  Group = {g1, g2}
  GroupOf <- MCGroupOf
  NotBase64 = {}
  NotTask = {m3}
  FetchMode = "batch"
  Prefetch = 2
  BatchSize = 2
  MaxLate = 1
  Restarts = TRUE

INVARIANTS
  TypeOK
  OldestFirst
  NoDuplicate
  AloneUnlessLate
