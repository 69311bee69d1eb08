SPECIFICATION Spec

CONSTANTS
  Message <- MCMessage
  Body <- MCBody
  Prefetch = 2
  MaxStarted = 2

INVARIANTS
  AckAfterSuccess
