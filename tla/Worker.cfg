SPECIFICATION FairSpec

CONSTANTS
  Message <- MCMessage
  Body <- MCBody
  Prefetch = 2
  MaxStarted = 2

INVARIANTS
  TypeOK
  InterruptedKept
  CountedOnce
  InfoSettles

PROPERTIES
  TaskSettles
