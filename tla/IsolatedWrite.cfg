SPECIFICATION Spec
CONSTANTS
  Path = {1, 2, 3, 4, 5}
  Tracked = {1, 2, 3}
  Task = {1, 5}
  Auxiliary = {4}
  Ignored = {4}
  Protected = {3}
  MaxFiles = 3
  MaxTotal = 2
  Proposals <- MCProposals
  MaxDisturbances = 1
INVARIANTS
  RuntimeHonest
  AcceptedIsDifference
  SoundProposalAccepted
CHECK_DEADLOCK FALSE
