------------------------------- MODULE FBFTLog -------------------------------
(***************************************************************************)
(* consensus/fbft_log.go: the blocks and messages a node has received for  *)
(* the heights it is working on.                                           *)
(*                                                                         *)
(* A log is a set of messages and a set of blocks.  A message is a record  *)
(*   [type, num, hash, payload, verified]                                  *)
(* and a block a record [num, hash, parent].  All messages kept here come  *)
(* from the one leader key and carry view 0 (New calls                     *)
(* SetCurBlockViewID(0) and nothing else sets it), so type and hash are    *)
(* the whole of a message's id.                                            *)
(***************************************************************************)
EXTENDS Integers, FiniteSets

\* id: type, view, hash and sender.
SameId(m, n) == m.type = n.type /\ m.hash = n.hash

\* messages[msg.id()] = msg, after setting the Verified flag.
Store(msgs, m) == {n \in msgs : ~SameId(n, m)} \cup {m}

AddVerifiedMessage(msgs, m) == Store(msgs, [m EXCEPT !.verified = TRUE])

AddNotVerifiedMessage(msgs, m) == Store(msgs, [m EXCEPT !.verified = FALSE])

\* blocks[block.Hash()] = block.
AddBlock(blocks, b) == {c \in blocks : c.hash # b.hash} \cup {b}

\* GetBlockByHash: the block with this hash, as a set of at most one.
GetBlockByHash(blocks, hash) == {b \in blocks : b.hash = hash}

GetMessagesByTypeSeq(msgs, type, num) ==
  {m \in msgs : m.type = type /\ m.num = num /\ m.verified}

GetMessagesByTypeSeqHash(msgs, type, num, hash) ==
  {m \in GetMessagesByTypeSeq(msgs, type, num) : m.hash = hash}

GetNotVerifiedCommittedMessages(msgs, num, hash) ==
  {m \in msgs : /\ m.type = "COMMITTED"
                /\ m.num = num
                /\ m.hash = hash
                /\ ~m.verified}

HasMatchingAnnounce(msgs, num, hash) ==
  GetMessagesByTypeSeqHash(msgs, "ANNOUNCE", num, hash) # {}

HasMatchingPrepared(msgs, num, hash) ==
  GetMessagesByTypeSeqHash(msgs, "PREPARED", num, hash) # {}

\* GetCommittedBlockAndMsgsFromNumber: one of the verified COMMITTED messages
\* of this height whose block is in the log (the map is walked in any order);
\* no pair at all is errFBFTLogNotFound.
GetCommittedBlockAndMsgsFromNumber(blocks, msgs, num) ==
  {p \in [blk : blocks, msg : GetMessagesByTypeSeq(msgs, "COMMITTED", num)] :
     p.blk.hash = p.msg.hash}

DeleteLessThan(entries, num) == {e \in entries : e.num >= num}

\* PruneCacheBeforeBlock keeps the height before bn; the same for blocks
\* (DeleteBlocksLessThan) and for messages (DeleteMessagesLessThan).
PruneCacheBeforeBlock(entries, bn) == DeleteLessThan(entries, bn - 1)
==============================================================================
