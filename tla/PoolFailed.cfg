SPECIFICATION Spec

CONSTANTS
  Worker = {w1}
  Monitor = monitor
  Main = main
  Task = {t1}
  Large = {}
  ProcessID = {p1}
  MinProcesses = 1
  MaxProcesses = 1
  MaxTasksPerProcess = 1
  MaxExits = 1
  NoProcess = NoProcess
  NoTask = NoTask

SYMMETRY Symmetry
ACTION_CONSTRAINT NoSignal

INVARIANTS
  FailedNotOffered
