SPECIFICATION FairSpec
CONSTANTS
  k1 = k1
  k2 = k2
  k3 = k3
  k4 = k4
  NoBallot = NoBallot
  Keys <- MCKeys
  Blocks <- MCBlocks
  Committed <- MCCommitted
  Wire <- WireThree
  Start <- Genesis
  StartSig <- NoPayload
  VerifierAtStart = TRUE
  EpochEnds = {2}
  UpdateModes = {"Normal"}
  MaxBlockNumDiff = 1
  MaxSyncs = 0
INVARIANTS
  OnlyCommittedChain
  NothingLeftBehind
PROPERTIES
  ReplayDelivers
CHECK_DEADLOCK FALSE
