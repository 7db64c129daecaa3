SPECIFICATION MCSpec
CONSTANTS
  None = None
  addr1 = addr1
  addr2 = addr2
  KeyFiles = {1, 2}
  NewFiles = {2}
  KeyAddrs = {addr1, addr2}
  MaxEdits = 1
  MaxChanges = 2
  WalletAccounts <- Accts
  Users = {"user"}
  UpdatesCap = 2
  MaxCacheSteps = 2
  Clients = {c1, c2}
  Passes = {"p", "q"}
  Paths = {1, 2}
  OldFiles <- Old
  MaxCalls = 4

  
  
PROPERTIES
  StaysUnlocked
  
CHECK_DEADLOCK FALSE
