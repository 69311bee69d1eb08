SPECIFICATION Spec

CONSTANTS
  Worker = {w1}
  Monitor = monitor
  Main = main
  Task = {t1}
  Large = {}
  ProcessID = {p1, p2, p3}
  MinProcesses = 1
  MaxProcesses = 1
  MaxTasksPerProcess = 1
  MaxExits = 0
  NoProcess = NoProcess
  NoTask = NoTask

SYMMETRY Symmetry
ACTION_CONSTRAINT NoSignal

INVARIANTS
  WithinMaxProcesses
