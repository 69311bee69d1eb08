SPECIFICATION Spec

CONSTANTS
  Worker = {w1, w2}
  Monitor = monitor
  Main = main
  Task = {t1, t2}
  Large = {t1, t2}
  ProcessID = {p1, p2}
  MinProcesses = 1
  MaxProcesses = 2
  MaxTasksPerProcess = 1
  MaxExits = 1
  NoProcess = NoProcess
  NoTask = NoTask

SYMMETRY Symmetry
ACTION_CONSTRAINT NoSignal

INVARIANTS
  TypeOK
  ExclusiveUse
  NoOrphanChild
  TaskQuota
  NoUseAfterError
  CallKept

PROPERTIES
  AnsweredOnce
  KeepsContract
