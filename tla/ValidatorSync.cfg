SPECIFICATION Spec
CONSTANTS
  k1 = k1
  k2 = k2
  k3 = k3
  k4 = k4
  NoBallot = NoBallot
  Keys <- MCKeys
  Blocks <- MCBlocks
  Committed <- MCCommitted
  Wire <- WireSync
  Start <- b1
  StartSig <- StartSig67
  VerifierAtStart = FALSE
  EpochEnds = {2}
  UpdateModes = {"Normal", "Syncing", "Listening"}
  MaxBlockNumDiff = 1
  MaxSyncs = 2
INVARIANTS
  HeightFollowsHead
PROPERTIES
  CommitSigsImprove
CHECK_DEADLOCK FALSE
