SPECIFICATION Spec
CONSTANTS
  MaxLines = 3
  MaxHunks = 2
  MaxBody = 3
  Bodies <- MCBodies
INVARIANTS
  AppliedIsReference
  FittingIsApplied
CHECK_DEADLOCK FALSE
