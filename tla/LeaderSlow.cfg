SPECIFICATION Spec
CONSTANTS
  k1 = k1
  k2 = k2
  k3 = k3
  k4 = k4
  x1 = x1
  NoBallot = NoBallot
  Keys <- MCKeys
  priKey <- MCTwoOwnKeys
  VoteSets <- MCTwoVotes
  EpochEnds = {2}
  Prompt = FALSE
  MaxBlock = 3

  
  
PROPERTY CommitSigsGrow
CHECK_DEADLOCK FALSE
