SPECIFICATION PoolsSpec
CONSTANTS
  Txs = {1, 2, 3, 4, 5, 6, 7}
  Accounts = {"a", "b"}
  Sender <- MCSender
  Nonce <- MCNonce
  Price <- MCPrice
  Cost <- MCCost
  Gas <- MCGas
  Blocks = {"g", "x", "y"}
  Genesis = "g"
  ParentOf <- MCParent
  TxsIn <- MCTxsIn
  Number <- MCNumber
  StateNonce <- MCStateNonce
  Balance <- MCBalance
  GlobalSlots = 2
  GlobalQueue = 2
  AccountSlots = 1
  AccountQueue = 1
  PriceBump = 10
  Prices = {1, 2}
  MaxDepth = 64
  Batches <- MCBatches
  LocalBatches <- MCLocalBatches
  MaxAdds = 3
  MaxEvents = 2
  None = None
  ShardTxs <- MCShardTxs
  NumTryBroadCast = 2
  MaxBoots = 2
  MaxQueries = 1
INVARIANTS
  PoolConsistent
  
PROPERTIES
  DropsRight
CHECK_DEADLOCK FALSE
