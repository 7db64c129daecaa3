SPECIFICATION TransactionsSpec
CONSTANTS
  None = None
  Base = 4
  Word = 4
  AddressCells = 3
  Arguments <- MCArguments
  MaxArguments = 3
  Fields <- MCFields
  MaxFields = 4
  ListTxs = {1, 2, 3, 4, 5}
  ListNonce <- MCListNonce
  ListPrice <- MCListPrice
  ListCost <- MCListCost
  ListGas <- MCListGas
  ListBump = 10
  SigKeys = {"ka", "kb"}
  WordBits = 10
  ChainIds <- MCChainIds
  Batches <- MCBatches
  CacherThreads = 2
  Feeders <- MCFeeders
  Askers <- MCAskers
  Requests = {1, 2, 3}
  RequestArgs <- MCArgs
  Wallets = {"ka"}
  PriceBump = 10
  MaxHeads = 1
INVARIANTS
  CodecConsistent
  ListConsistent
  SendersConsistent
  NoncesConsistent
PROPERTIES
  CutsComplete
  CallsEnd
CHECK_DEADLOCK FALSE
