SPECIFICATION MCSpec
CONSTANTS
  None = None
  k1 = k1
  k2 = k2
  o = o
  ShardKeys <- MCShardKeys
  MyKeys <- MCKeys
  Committees <- MCCommittees
  EpochLen = 2
  RandomnessStart = 0
  MaxHeight = 3
  MaxSyncs = 1
  MaxFailures = 1
  MaxStarts = 1
  Networks <- MCNetworks
  HmyAccounts <- MCHmyAccounts
  FnAccounts <- MCFnAccounts
  Epochs <- MCEpochs
  SlotKeys = {"k1", "k2", "k3", "k4"}
  AddressOf <- MCAddressOf
  Stakes = {0, 1, 3}
  One = 1000
  HarmonyPercent = 680
  MaxSlots = 4
  Signers = {"l", "k1", "k2", "k3"}
  LeaderSigner = "l"
  Owner <- MCOwner
  Proposals = {"A", "B", "C"}
  NumberOf <- MCNumberOf
  Multisigs <- MCMultisigs
  LastHeight = 2
INVARIANTS
  LoopConsistent
  EpochsConsistent
  RosterConsistent
  EvidenceConsistent
PROPERTIES
  LoopProgress
CHECK_DEADLOCK FALSE
