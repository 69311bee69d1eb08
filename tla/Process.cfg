SPECIFICATION FairSpec

CONSTANTS
  Caller = {1, 2}
  TaskOf <- MCTaskOf
  Large = {1}
  Stopper = {s1, s2}
  Logger = logger
  Self = self
  MaxTasks = 2
  MaxLines = 2
  LongLines = TRUE
  Scripts = {"shipped", "conforming"}

CHECK_DEADLOCK FALSE

INVARIANTS
  TypeOK
  OwnResult

PROPERTIES
  KeepsContract
  ReadersEnd
  StopEndsChild
