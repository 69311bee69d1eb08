SPECIFICATION FairSpec

CONSTANTS
  Worker = {w1}
  Monitor = monitor
  Main = main
  Task = {t1, t2}
  Large = {t1}
  ProcessID = {1, 2}
  MinProcesses = 1
  MaxProcesses = 1
  MaxTasksPerProcess = 1
  MaxExits = 1
  NoProcess = NoProcess
  NoTask = NoTask

ACTION_CONSTRAINTS
  InOrder
  Apart

INVARIANTS
  CleanStop

PROPERTIES
  StopReturns
  EveryCallReturns
