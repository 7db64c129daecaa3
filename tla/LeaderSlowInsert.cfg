SPECIFICATION Spec
CONSTANTS
  k1 = k1
  k2 = k2
  k3 = k3
  k4 = k4
  x1 = x1
  NoBallot = NoBallot
  Keys <- MCKeys
  priKey <- MCPriKey
  VoteSets <- MCSingleVotes
  EpochEnds = {}
  Prompt = FALSE
  MaxBlock = 2
INVARIANT InsertedWithQuorum
CHECK_DEADLOCK FALSE
