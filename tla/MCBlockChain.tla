--------------------------- MODULE MCBlockChain ---------------------------
(* BlockChain on a tree of five blocks: a1 - a2 and b1 - b2 from the       *)
(* genesis block g; b1 states a root that is not in the database, the      *)
(* timestamps of a2 and b2 are ahead, and t1 is in a2 and in b1.            *)
EXTENDS BlockChain, TLC

CONSTANTS g, a1, a2, b1, b2, t1, t2

MCBlocks == {g, a1, a2, b1, b2}
MCParent == a1 :> g @@ a2 :> a1 @@ b1 :> g @@ b2 :> b1
MCNumber == g :> 0 @@ a1 :> 1 @@ a2 :> 2 @@ b1 :> 1 @@ b2 :> 2
MCRoot == [b \in MCBlocks |-> IF b = b1 THEN 1 ELSE 0]
MCDelay == [b \in MCBlocks |-> IF b = a2 THEN 1 ELSE IF b = b2 THEN 2 ELSE 0]
MCTxs == {t1, t2}
MCTxsOf == [b \in MCBlocks |-> IF b = a2 THEN {t1} ELSE IF b = b1 THEN {t1, t2} ELSE {}]
===========================================================================
