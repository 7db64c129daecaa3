------------------------------ MODULE MCTxPool ------------------------------
(***************************************************************************)
(* Two accounts.  The first has nonces 0 to 2 and a dearer transaction of  *)
(* nonce 0; the second has nonces 0 to 2, the last with a gas limit.  The  *)
(* first loses a part of its balance in block x, the second in block y.    *)
(***************************************************************************)
EXTENDS TxPool

MCSender == <<"a", "a", "a", "a", "b", "b", "b">>
MCNonce  == << 0,   0,   1,   2,   0,   1,   2 >>
MCPrice  == << 1,   2,   1,   2,   2,   1,   2 >>
MCCost   == << 1,   1,   2,   1,   1,   1,   1 >>
MCGas    == << 0,   0,   0,   0,   0,   0,   1 >>

MCBatches == {<<2>>, <<1, 3, 4>>, <<5, 6>>, <<6, 7>>}
MCLocalBatches == {<<2>>, <<3, 4>>}

MCParent == [g |-> "none", x |-> "g", y |-> "g"]
MCTxsIn == [g |-> {}, x |-> {1}, y |-> {5}]
MCNumber == [g |-> 0, x |-> 1, y |-> 1]
MCStateNonce == [g |-> [a |-> 0, b |-> 0], x |-> [a |-> 1, b |-> 0], y |-> [a |-> 0, b |-> 1]]
MCBalance == [g |-> [a |-> 2, b |-> 2], x |-> [a |-> 1, b |-> 2], y |-> [a |-> 2, b |-> 1]]
==============================================================================
