SPECIFICATION Spec
CONSTANTS
  g = g
  a1 = a1
  a2 = a2
  b1 = b1
  b2 = b2
  t1 = t1
  t2 = t2
  None = None
  Genesis = g
  Blocks <- MCBlocks
  Parent <- MCParent
  Number <- MCNumber
  Root <- MCRoot
  Delay <- MCDelay
  Txs <- MCTxs
  TxsOf <- MCTxsOf
  Modes = {"shipped", "strict", "light"}
  Fresh = FALSE
  MaxChain = 2
  MaxDown = 2
INVARIANTS
  ChainConsistent
PROPERTIES
  ImplementsLedger
  RepairsAndRewinds
  
