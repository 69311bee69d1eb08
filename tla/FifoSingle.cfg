SPECIFICATION FairSpec

CONSTANTS
  m1 = m1
  m2 = m2
  m3 = m3
  g1 = g1
  g2 = g2
  Message = {m1, m2, m3}
  Group = {g1, g2}
  GroupOf <- MCGroupOf
  NotBase64 = {m3}
  NotTask = {}
  FetchMode = "single"
  Prefetch = 1
  BatchSize = 2
  MaxLate = 0
  Restarts = FALSE

PROPERTIES
  EveryTaskRuns
