SPECIFICATION Spec
CONSTANTS
  MaxLines = 3
  MaxHunks = 2
  MaxBody = 3
  Bodies <- PlainBodies
INVARIANTS
  AppliedIsUnifiedDiff
CHECK_DEADLOCK FALSE
