------------------------------- MODULE MCPools ------------------------------
(***************************************************************************)
(* One pool in detail, or the pools of the node's shards with the journal  *)
(* that they share: part is chosen in the initial state.                   *)
(***************************************************************************)
EXTENDS MCTxPool, Backend

VARIABLE part

\* One transaction of each shard, and one that crosses.
ShardTx(i, shard, to) == [id |-> i, shard |-> shard, to |-> to]
MCShardTxs == {ShardTx(1, 1, 1), ShardTx(2, 2, 2), ShardTx(3, 1, 2)}

PoolsInit == /\ part \in {"pool", "back"}
             /\ Init /\ BackInit
             /\ part # "back" => shards = Shards

PoolsNext ==
  \/ part = "pool" /\ Next /\ UNCHANGED <<backVars, part>>
  \/ part = "back" /\ BackNext /\ UNCHANGED <<vars, part>>

PoolsSpec == PoolsInit /\ [][PoolsNext]_<<vars, backVars, part>>

==============================================================================
