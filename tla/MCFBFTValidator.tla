--------------------------- MODULE MCFBFTValidator ---------------------------
(* FBFTValidator on a committee of four keys (quorum three) and a chain of *)
(* three blocks with a competitor at height two.                           *)
EXTENDS FBFTValidator, TLC

CONSTANTS k1, k2, k3, k4

MCKeys == {k1, k2, k3, k4}

b1 == [num |-> 1, hash |-> 2, parent |-> 1]
b2 == [num |-> 2, hash |-> 3, parent |-> 2]
c2 == [num |-> 2, hash |-> 4, parent |-> 2]
b3 == [num |-> 3, hash |-> 5, parent |-> 3]

MCBlocks == {b1, b2, c2, b3}
MCCommitted == {b1, b2, b3}

Sigs(b, signers) == [agg |-> {[signers |-> {k}, hash |-> b.hash] : k \in signers},
                     bitmap |-> signers]

Msg(type, b, payload) == [type |-> type, num |-> b.num, hash |-> b.hash,
                          verified |-> FALSE, payload |-> payload]

Quorum3 == {k1, k2, k3}

Announce(b) == Msg("ANNOUNCE", b, NoPayload)
Prepared(b) == Msg("PREPARED", b, Sigs(b, Quorum3))
Committed67(b) == Msg("COMMITTED", b, Sigs(b, Quorum3))
Committed100(b) == Msg("COMMITTED", b, Sigs(b, MCKeys))

\* Fewer signers than a quorum.
CommittedShort(b) == Msg("COMMITTED", b, Sigs(b, {k1, k2}))

\* The bitmap names a key whose signature is not in the aggregate.
CommittedBad(b) == Msg("COMMITTED", b, [Sigs(b, Quorum3) EXCEPT !.bitmap = MCKeys])

Rounds(bs) == {Prepared(b) : b \in bs} \cup {Committed67(b) : b \in bs}

WireThree == Rounds({b1, b2, b3}) \cup {Prepared(c2), CommittedShort(c2)}

\* The node led height one; an equal, a better and a defective COMMITTED of it may
\* still arrive.
WireSync == Rounds({b2}) \cup {Announce(b2), Committed67(b3)} \cup
            {Committed67(b1), Committed100(b1), CommittedBad(b1)}

StartSig67 == Sigs(b1, Quorum3)
==============================================================================
