SPECIFICATION Spec

CONSTANTS
  Caller = {1}
  TaskOf <- MCTaskOf
  Large = {}
  Stopper = {s1}
  Logger = logger
  Self = self
  MaxTasks = 2
  MaxLines = 2
  LongLines = FALSE
  Scripts = {"conforming"}

CHECK_DEADLOCK FALSE

INVARIANTS
  ResultKept
