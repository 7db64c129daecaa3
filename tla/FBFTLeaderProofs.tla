-------------------------- MODULE FBFTLeaderProofs ---------------------------
(***************************************************************************)
(* Proofs about FBFTLeader for every committee, every set of own keys and  *)
(* validators and any number of heights: first with no assumption about    *)
(* timing, then, about what it commits, with timers that are prompt.       *)
(***************************************************************************)
EXTENDS FBFTLeader, FiniteSetTheorems, TLAPS

------------------------------------------------------------------------------
(* The votes of the decider, for every committee. *)

\* Two sets of keys that each pass IsQuorumAchievedByMask share more than a
\* third of the committee: the threshold n*2/3+1, with its integer division,
\* is right for every n, so that with at most a third of faulty keys two
\* quorums share a correct one.
THEOREM QuorumsIntersect ==
  ASSUME NEW A \in SUBSET Keys, NEW B \in SUBSET Keys,
         IsQuorumAchievedByMask(A), IsQuorumAchievedByMask(B)
  PROVE  3 * Cardinality(A \cap B) > Cardinality(Keys)
<1> DEFINE n == Cardinality(Keys)
           a == Cardinality(A)
           b == Cardinality(B)
           u == Cardinality(A \cup B)
           c == Cardinality(A \cap B)
<1>1. IsFiniteSet(A) /\ IsFiniteSet(B) /\ IsFiniteSet(A \cup B)
  BY KeysAssumption, FS_Subset, Zenon
<1>2. n \in Nat /\ a \in Nat /\ b \in Nat /\ u \in Nat /\ c \in Nat
  BY <1>1, KeysAssumption, FS_CardinalityType, FS_Intersection, Zenon
<1>3. u <= n
  BY KeysAssumption, FS_Subset, A \cup B \subseteq Keys, Zenon
<1>4. u = a + b - c
  BY <1>1, FS_Union, Zenon
<1>5. a >= (n * 2) \div 3 + 1 /\ b >= (n * 2) \div 3 + 1
  BY Zenon DEF IsQuorumAchievedByMask, TwoThirdsSignersCount
<1>6. 3 * ((n * 2) \div 3) >= n * 2 - 2 /\ (n * 2) \div 3 \in Int
  <2> HIDE DEF n
  <2>1. n * 2 \in Nat
    BY <1>2
  <2> QED BY <2>1, Z3
<1>7. QED
  <2> DEFINE q == (n * 2) \div 3
  <2> HIDE DEF n, a, b, u, c, q
  <2>1. 3 * q >= n * 2 - 2 /\ q \in Int
    BY <1>6, Zenon DEF q
  <2>2. a >= q + 1 /\ b >= q + 1
    BY <1>5, Zenon DEF q
  <2>3. 3 * c > n
    BY <2>1, <2>2, <1>2, <1>3, <1>4
  <2> QED BY <2>3, Zenon DEF n, c

\* submitVote keeps a box coherent and adds exactly the message's keys.
LEMMA SubmitCoherent ==
  ASSUME NEW box, NEW ballot, Coherent(box),
         ballot # NoBallot,
         ballot.signers \subseteq Keys,
         CanSubmit(box, ballot.signers)
  PROVE  /\ Coherent(submitVote(box, ballot))
         /\ Voted(submitVote(box, ballot)) = Voted(box) \cup ballot.signers
<1> DEFINE new == submitVote(box, ballot)
<1>1. \A k \in Keys : new[k] = IF k \in ballot.signers THEN ballot ELSE box[k]
  BY Zenon DEF submitVote
<1>2. Voted(new) = Voted(box) \cup ballot.signers
  BY <1>1, Zenon DEF Voted, ReadBallot, CanSubmit
<1>3. ASSUME NEW k \in Voted(new)
      PROVE  /\ k \in new[k].signers
             /\ \A j \in new[k].signers : j \in Keys /\ new[j] = new[k]
  <2> HIDE DEF new
  <2>1. CASE k \in ballot.signers
    BY <2>1, <1>1
  <2>2. CASE k \notin ballot.signers
    <3>1. k \in Voted(box) /\ k \in Keys /\ new[k] = box[k]
      BY <2>2, <1>1, <1>2, Zenon DEF Voted
    <3>2. k \in box[k].signers /\ \A j \in box[k].signers : j \in Keys /\ box[j] = box[k]
      BY <3>1, Zenon DEF Coherent
    <3>3. ASSUME NEW j \in box[k].signers
          PROVE  j \notin ballot.signers
      BY <3>1, <3>2, Zenon DEF Voted, ReadBallot, CanSubmit
    <3> QED BY <3>1, <3>2, <3>3, <1>1, Zenon
  <2> QED BY <2>1, <2>2, Zenon
<1> QED BY <1>2, <1>3, Zenon DEF Coherent

\* The order in which AggregateVotes walks a coherent box does not matter: the
\* aggregate is all of the ballots, and its signers are the keys that voted.
LEMMA AggregateAll ==
  ASSUME NEW box, Coherent(box), NEW agg \in AggregateVotes(box)
  PROVE  /\ agg = ReadAllBallots(box)
         /\ SignersOf(agg) = Voted(box)
<1>1. agg \subseteq ReadAllBallots(box)
  BY Zenon DEF AggregateVotes
<1>2. \A b, c \in ReadAllBallots(box) : Overlap(b, c) => b = c
  <2> SUFFICES ASSUME NEW j \in Voted(box), NEW k \in Voted(box), NEW x,
                      x \in box[j].signers, x \in box[k].signers
               PROVE  box[j] = box[k]
    BY Zenon DEF ReadAllBallots, Overlap
  <2> QED BY Zenon DEF Coherent
<1>3. agg = ReadAllBallots(box)
  BY <1>1, <1>2 DEF AggregateVotes
<1>4. SignersOf(ReadAllBallots(box)) = Voted(box)
  <2>1. ASSUME NEW k \in Voted(box)
        PROVE  k \in SignersOf(ReadAllBallots(box))
    <3>1. box[k] \in ReadAllBallots(box) /\ k \in box[k].signers
      BY Zenon DEF ReadAllBallots, Coherent
    <3> QED BY <3>1, Zenon DEF SignersOf
  <2>2. ASSUME NEW x \in SignersOf(ReadAllBallots(box))
        PROVE  x \in Voted(box)
    <3>1. PICK k \in Voted(box) : x \in box[k].signers
      BY Zenon DEF SignersOf, ReadAllBallots
    <3>2. x \in Keys /\ box[x] = box[k]
      BY <3>1, Zenon DEF Coherent
    <3> QED BY <3>1, <3>2, Zenon DEF Voted, ReadBallot
  <2> QED BY <2>1, <2>2, Zenon
<1> QED BY <1>3, <1>4, Zenon

------------------------------------------------------------------------------
USE DEF EmptyHash

\* What the assumption on the constants says of their types.
LEMMA Constants ==
  /\ MaxBlock \in Nat
  /\ VoteSets \subseteq SUBSET Keys
  /\ Len(priKey) \in Nat
  /\ DOMAIN priKey = 1..Len(priKey)
  /\ NoBallot \notin BallotSet
BY LeaderAssumption DEF BallotSet

\* The absent payload is a payload.
LEMMA NoPayloadType == NoPayload \in Payload
BY Zenon DEF NoPayload, Payload

\* The absent block and the genesis block are blocks.
LEMMA NoBlockType == NoBlock \in Block /\ Genesis \in Block
BY Zenon DEF NoBlock, Genesis, Block

\* A message that is put together from its fields is a message.
LEMMA MsgType ==
  ASSUME NEW type \in {"ANNOUNCE", "PREPARED", "COMMITTED", "NONE"},
         NEW num \in Nat, NEW hash \in Nat, NEW payload \in Payload
  PROVE  Msg(type, num, hash, payload) \in Message
BY Zenon DEF Msg, Message

\* The absent message is a message.
LEMMA NoMsgType == NoMsg \in Message
BY MsgType, NoPayloadType, Zenon DEF NoMsg

\* The aggregates of a typed box are typed.
LEMMA PayloadType ==
  ASSUME NEW box \in [Keys -> BallotSet \cup {NoBallot}],
         NEW bitmap \in SUBSET Keys,
         NEW p \in constructQuorumSigAndBitmap(box, bitmap)
  PROVE  p \in Payload
<1>1. PICK a \in AggregateVotes(box) : p = [agg |-> a, bitmap |-> bitmap]
  BY Zenon DEF constructQuorumSigAndBitmap
<1>2. a \subseteq BallotSet
  BY DEF AggregateVotes, ReadAllBallots, Voted, ReadBallot
<1> QED BY <1>1, <1>2, Zenon DEF Payload

\* A vote put into a ballot box leaves a ballot box.
LEMMA SubmitType ==
  ASSUME NEW box \in [Keys -> BallotSet \cup {NoBallot}], NEW ballot \in BallotSet
  PROVE  submitVote(box, ballot) \in [Keys -> BallotSet \cup {NoBallot}]
BY Zenon DEF submitVote

\* The log stays a set of messages when a verified one is added.
LEMMA AddVerifiedType ==
  ASSUME NEW M \in SUBSET Message, NEW m \in Message
  PROVE  AddVerifiedMessage(M, m) \in SUBSET Message
BY Zenon DEF AddVerifiedMessage, Store, Message

\* A vote for a message that was sent makes a ballot.
LEMMA BallotType ==
  ASSUME sent \subseteq Message, NEW type, NEW v \in Votes(type)
  PROVE  /\ Ballot(v) \in BallotSet
         /\ v.hash \in Nat /\ v.num \in Nat /\ v.signers \in SUBSET Keys
<1>1. PICK V \in VoteSets, m \in sent : v = [signers |-> V, num |-> m.num, hash |-> m.hash]
  BY DEF Votes
<1>2. m.num \in Nat /\ m.hash \in Nat /\ V \in SUBSET Keys
  BY Constants, Zenon DEF Message
<1> QED BY <1>1, <1>2, Zenon DEF Ballot, BallotSet

\* The node proposes blocks.
LEMMA ProposeType ==
  ASSUME TypeOK, NEW h \in Nat, Propose(h)
  PROVE  minted' \in Nat /\ blockChannel' \subseteq Block
<1>1. minted \in Nat /\ head.num \in Nat /\ head.hash \in Nat /\ blockChannel \subseteq Block
  BY Zenon DEF TypeOK, Block
<1>2. [num |-> head.num + 1, hash |-> minted + 1, parent |-> head.hash, last |-> h] \in Block
  BY <1>1 DEF Block
<1> QED BY <1>1, <1>2 DEF Propose

\* The initial states have the types.
LEMMA InitType == Init => TypeOK
<1> SUFFICES ASSUME Init PROVE TypeOK
  BY Zenon
<1>1. Idle \in [pc : {"idle", "set", "log", "sign", "vote"}, blk : Block, i : Nat,
                msg : Message]
  BY NoBlockType, NoMsgType, Zenon DEF Idle
<1>2. NotRunning \in [pc : {"none", "start", "insert", "setup", "send"}, blk : Block,
                      msg : Message]
  BY NoBlockType, NoMsgType, Zenon DEF NotRunning
<1>3. EmptyBox \in [Keys -> BallotSet \cup {NoBallot}]
  BY Zenon DEF EmptyBox
<1>4. commitSigs \in [0..MaxBlock -> Payload]
  BY NoPayloadType, Zenon DEF Init
<1>5. ready \subseteq [kind : {"Sync", "Async"}, num : Nat]
  BY DEF Init
<1> QED BY <1>1, <1>2, <1>3, <1>4, <1>5, NoBlockType, NoMsgType, Zenon DEF Init, TypeOK

\* What TypeOK needs of AnnounceInv: a vote is cast for a committee key.
LEMMA TypeStep ==
  ASSUME TypeOK, main.pc = "vote" => priKey[main.i] \in Keys, [Next]_vars
  PROVE  TypeOK'
<1> DEFINE MainSet == [pc : {"idle", "set", "log", "sign", "vote"}, blk : Block, i : Nat,
                       msg : Message]
           FinalSet == [pc : {"none", "start", "insert", "setup", "send"}, blk : Block,
                        msg : Message]
<1> USE DEF consensusVars, voteVars, logVars, chainVars, sendVars, proposerVars
<1>idle. Idle \in MainSet
  BY NoBlockType, NoMsgType, Zenon DEF Idle
<1>notRunning. NotRunning \in FinalSet
  BY NoBlockType, NoMsgType, Zenon DEF NotRunning
<1>nextKey. NextKey \in MainSet
  BY DEF TypeOK, NextKey
<1>1. CASE ReceiveProposal
  BY <1>1, <1>idle, ZenonT(60) DEF ReceiveProposal, TypeOK
<1>2. CASE AnnounceSet
  BY <1>2, Zenon DEF AnnounceSet, TypeOK, Block
<1>3. CASE AnnounceLog
  <2> DEFINE m == construct("ANNOUNCE", NoPayload)
  <2>1. m \in Message
    BY MsgType, NoPayloadType, Zenon DEF TypeOK, construct
  <2>2. AddVerifiedMessage(msgs, m) \in SUBSET Message
    BY <2>1, AddVerifiedType, Zenon DEF TypeOK
  <2>3. AddBlock(blocks, main.blk) \in SUBSET Block
    BY Zenon DEF TypeOK, AddBlock
  <2> HIDE DEF m
  <2>4. main' \in MainSet
    BY <1>3, <2>1, Zenon DEF TypeOK, AnnounceLog, m
  <2> QED BY <1>3, <2>2, <2>3, <2>4, Zenon DEF TypeOK, AnnounceLog, m
<1>4. CASE AnnounceSetKey
  <2>1. main' \in MainSet
    <3>1. [main EXCEPT !.pc = "vote"] \in MainSet
      BY Zenon DEF TypeOK
    <3> QED BY <1>4, <3>1, <1>nextKey, Zenon DEF AnnounceSetKey
  <2>2. prepareBitmap' \subseteq Keys
    BY <1>4, Zenon DEF AnnounceSetKey, TypeOK
  <2> QED BY <1>4, <2>1, <2>2, Zenon DEF AnnounceSetKey, TypeOK
<1>5. CASE AnnounceVote
  <2> DEFINE ballot == [signers |-> {priKey[main.i]}, hash |-> blockHash]
  <2>1. ballot \in BallotSet
    BY <1>5, Zenon DEF AnnounceVote, TypeOK, BallotSet
  <2>2. submitVote(prepare, ballot) \in [Keys -> BallotSet \cup {NoBallot}]
    BY <2>1, SubmitType, Zenon DEF TypeOK
  <2>3. prepare' \in [Keys -> BallotSet \cup {NoBallot}]
    BY <1>5, <2>2, Zenon DEF AnnounceVote, TypeOK
  <2>4. main' \in MainSet
    <3>1. [NextKey EXCEPT !.pc = "sign"] \in MainSet
      BY <1>nextKey, Zenon
    <3> QED BY <1>5, <3>1, <1>idle, Zenon DEF AnnounceVote
  <2> QED BY <1>5, <2>3, <2>4, Zenon DEF AnnounceVote, TypeOK
<1>6. CASE AnnounceSend
  BY <1>6, <1>idle, Zenon DEF AnnounceSend, TypeOK
<1>7. CASE OnPrepare
  <2>1. PICK v \in Votes("ANNOUNCE") : onPrepare(v)
    BY <1>7, Zenon DEF OnPrepare
  <2>2. Ballot(v) \in BallotSet /\ v.signers \in SUBSET Keys
    BY BallotType, Zenon DEF TypeOK
  <2>3. /\ prepare' \in [Keys -> BallotSet \cup {NoBallot}]
        /\ prepareBitmap' \in SUBSET Keys
    BY <2>1, <2>2, SubmitType, Zenon DEF onPrepare, TypeOK
  <2>4. CASE didReachPrepareQuorum(prepare', prepareBitmap')
    <3>1. PICK p \in constructQuorumSigAndBitmap(prepare', prepareBitmap') :
            LET m == construct("PREPARED", p)
                refused == FirstRefused(commit)
                voting == OwnKeys(refused - 1)
            IN /\ msgs' = AddVerifiedMessage(msgs, m)
               /\ IF block = NoBlock
                  THEN UNCHANGED <<commit, commitBitmap, sendVars>>
                  ELSE /\ commit' = [k \in Keys |->
                                       IF k \in voting
                                       THEN [signers |-> {k}, hash |-> block.hash]
                                       ELSE commit[k]]
                       /\ IF refused <= Len(priKey)
                          THEN /\ commitBitmap' = commitBitmap \cup OwnKeys(refused)
                               /\ UNCHANGED sendVars
                          ELSE /\ commitBitmap' = commitBitmap \cup voting
                               /\ sent' = sent \cup {m}
                               /\ committedRetry' = NoMsg
      BY <2>4, Zenon DEF didReachPrepareQuorum
    <3>2. p \in Payload
      BY <2>3, PayloadType, Zenon
    <3> DEFINE m == construct("PREPARED", p)
    <3>3. m \in Message
      BY <3>2, MsgType, Zenon DEF TypeOK, construct
    <3>4. msgs' \in SUBSET Message
      BY <3>1, <3>3, AddVerifiedType, Zenon DEF TypeOK
    <3> HIDE DEF m
    <3>5. commit' \in [Keys -> BallotSet \cup {NoBallot}]
      <4>1. \A k \in Keys : [signers |-> {k}, hash |-> block.hash] \in BallotSet
        BY Zenon DEF TypeOK, BallotSet, Block
      <4> QED BY <3>1, <4>1 DEF TypeOK
    <3>6. commitBitmap' \in SUBSET Keys
      <4>1. \A n : OwnKeys(n) \in SUBSET Keys
        BY Zenon DEF OwnKeys
      <4> QED BY <3>1, <4>1, Zenon DEF TypeOK
    <3>7. sent' \in SUBSET Message /\ committedRetry' \in Message
      BY <3>1, <3>3, NoMsgType, Zenon DEF TypeOK, m
    <3> QED BY <2>1, <2>3, <3>4, <3>5, <3>6, <3>7, Zenon DEF onPrepare, TypeOK
  <2>5. CASE UNCHANGED <<msgs, commit, commitBitmap, sendVars>>
    BY <2>1, <2>3, <2>5, Zenon DEF onPrepare, TypeOK
  <2> QED BY <2>1, <2>4, <2>5, Zenon DEF onPrepare
<1>8. CASE OnCommit
  <2>1. PICK v \in Votes("PREPARED") : onCommit(v)
    BY <1>8, Zenon DEF OnCommit
  <2>2. Ballot(v) \in BallotSet /\ v.signers \in SUBSET Keys
    BY BallotType, Zenon DEF TypeOK
  <2>3. /\ commit' \in [Keys -> BallotSet \cup {NoBallot}]
        /\ commitBitmap' \in SUBSET Keys
    BY <2>1, <2>2, SubmitType DEF onCommit, TypeOK
  <2>4. final' \in FinalSet
    BY <2>1, <1>notRunning DEF onCommit, TypeOK
  <2>5. grace' \in Nat
    BY <2>1 DEF onCommit, TypeOK
  <2>6. pre' \subseteq [pc : {"log", "insert", "send"}, blk : Block, msg : Message]
    <3>1. CASE UNCHANGED pre
      BY <3>1, Zenon DEF TypeOK
    <3>2. CASE \E b \in GetBlockByHash(blocks, v.hash) :
                 preCommitAndPropose(b, commit', commitBitmap')
      <4>1. PICK b \in GetBlockByHash(blocks, v.hash),
                 p \in constructQuorumSigAndBitmap(commit', commitBitmap') :
              pre' = pre \cup {[pc |-> "log", blk |-> b,
                                msg |-> construct("COMMITTED", p)]}
        BY <3>2, Zenon DEF preCommitAndPropose
      <4>2. construct("COMMITTED", p) \in Message
        BY <2>3, PayloadType, MsgType, Zenon DEF TypeOK, construct
      <4>3. b \in Block
        BY Zenon DEF GetBlockByHash, TypeOK
      <4> QED BY <4>1, <4>2, <4>3 DEF TypeOK
    <3> QED BY <2>1, <3>1, <3>2, Zenon DEF onCommit
  <2> QED BY <2>1, <2>3, <2>4, <2>5, <2>6, Zenon DEF onCommit, TypeOK
<1>9. CASE PreLog
  <2>1. PICK g \in pre : /\ msgs' = AddVerifiedMessage(msgs, g.msg)
                         /\ pre' = (pre \ {g}) \cup {[g EXCEPT !.pc = "insert"]}
    BY <1>9, Zenon DEF PreLog
  <2>2. msgs' \in SUBSET Message
    BY <2>1, AddVerifiedType, Zenon DEF TypeOK
  <2> QED BY <1>9, <2>1, <2>2 DEF PreLog, TypeOK
<1>10. CASE PreInsert
  <2>1. PICK g \in pre :
          IF CanInsert(g.blk)
          THEN /\ InsertChain(g.blk, g.msg.payload)
               /\ pre' = (pre \ {g}) \cup {[g EXCEPT !.pc = "send"]}
          ELSE /\ pre' = pre \ {g}
               /\ UNCHANGED <<head, chain>>
    BY <1>10, Zenon DEF PreInsert
  <2>2. g.blk \in Block /\ g.msg.payload \in Payload
    BY Zenon DEF TypeOK, Message
  <2>3. head' \in Block /\ chain' \subseteq [blk : Block, sig : Payload]
    BY <2>1, <2>2 DEF InsertChain, TypeOK
  <2>4. pre' \subseteq [pc : {"log", "insert", "send"}, blk : Block, msg : Message]
    BY <2>1 DEF TypeOK
  <2> QED BY <1>10, <2>3, <2>4, Zenon DEF PreInsert, TypeOK
<1>11. CASE PreSend
  <2>1. PICK g \in pre : /\ sent' = sent \cup {g.msg}
                         /\ committedRetry' = g.msg
                         /\ ready' = ready \cup {[kind |-> "Async", num |-> g.blk.num]}
                         /\ pre' = pre \ {g}
    BY <1>11, Zenon DEF PreSend
  <2>2. g.msg \in Message /\ g.blk.num \in Nat
    <3>1. g \in [pc : {"log", "insert", "send"}, blk : Block, msg : Message]
      BY Zenon DEF TypeOK
    <3> QED BY <3>1, Zenon DEF Block
  <2>3. ready' \subseteq [kind : {"Sync", "Async"}, num : Nat]
    BY <2>1, <2>2 DEF TypeOK
  <2> QED BY <1>11, <2>1, <2>2, <2>3, Zenon DEF PreSend, TypeOK
<1>12. CASE GraceFire
  BY <1>12, <1>notRunning DEF GraceFire, TypeOK
<1>13. CASE FinalStart
  <2>1. PICK p \in constructQuorumSigAndBitmap(commit, commitBitmap) :
          LET m == construct("COMMITTED", p)
              found == GetBlockByHash(blocks, blockHash)
          IN /\ msgs' = AddVerifiedMessage(msgs, m)
             /\ IF found = {}
                THEN /\ final' = NotRunning
                     /\ UNCHANGED commitSigs
                ELSE \E b \in found :
                       /\ commitSigs' = [commitSigs EXCEPT ![b.num] = p]
                       /\ final' = [pc |-> IF head.num < b.num THEN "insert" ELSE "setup",
                                    blk |-> b, msg |-> m]
    BY <1>13, Zenon DEF FinalStart
  <2>2. p \in Payload
    BY PayloadType, Zenon DEF TypeOK
  <2> DEFINE m == construct("COMMITTED", p)
  <2>3. m \in Message
    BY <2>2, MsgType, Zenon DEF TypeOK, construct
  <2>4. msgs' \in SUBSET Message
    BY <2>1, <2>3, AddVerifiedType, Zenon DEF TypeOK
  <2> HIDE DEF m
  <2>5. final' \in FinalSet /\ commitSigs' \in [0..MaxBlock -> Payload]
    <3>1. \A b \in GetBlockByHash(blocks, blockHash) : b \in Block
      BY Zenon DEF GetBlockByHash, TypeOK
    <3> QED BY <2>1, <2>2, <2>3, <3>1, <1>notRunning DEF TypeOK, m
  <2> QED BY <1>13, <2>4, <2>5, Zenon DEF FinalStart, TypeOK
<1>14. CASE FinalInsert
  BY <1>14 DEF FinalInsert, InsertChain, TypeOK, Message
<1>15. CASE FinalSetup
  <2>0. final.blk.num \in Nat /\ EmptyBox \in [Keys -> BallotSet \cup {NoBallot}]
    BY Zenon DEF TypeOK, Block, EmptyBox
  <2>1. /\ blockNum' \in Nat /\ blockHash' \in Nat /\ block' \in Block
        /\ prepare' \in [Keys -> BallotSet \cup {NoBallot}]
        /\ commit' \in [Keys -> BallotSet \cup {NoBallot}]
    BY <1>15, <2>0, NoBlockType DEF FinalSetup, SetupForNewConsensus, ResetState
  <2>2. /\ blocks' \subseteq Block /\ msgs' \subseteq Message
        /\ prepareBitmap' = {} /\ commitBitmap' = {}
    BY <1>15, Zenon DEF FinalSetup, SetupForNewConsensus, ResetState, PruneCacheBeforeBlock,
                 DeleteLessThan, TypeOK
  <2> QED BY <1>15, <2>1, <2>2, Zenon DEF FinalSetup, TypeOK
<1>16. CASE FinalSend
  <2>1. [num |-> final.blk.num, sig |-> final.msg.payload] \in [num : Nat, sig : Payload]
    BY Zenon DEF TypeOK, Block, Message
  <2>2. [kind |-> "Sync", num |-> final.blk.num] \in [kind : {"Sync", "Async"}, num : Nat]
    BY Zenon DEF TypeOK, Block
  <2> QED BY <1>16, <2>1, <2>2, <1>notRunning DEF FinalSend, TypeOK
<1>17. CASE RetryCommitted
  BY <1>17, Zenon DEF RetryCommitted, TypeOK
<1>18. CASE SigSenderTimeout
  BY <1>18, Zenon DEF SigSenderTimeout, TypeOK
<1>19. CASE ProposeSync
  <2>1. minted' \in Nat /\ blockChannel' \subseteq Block
    <3>1. head.num \in Nat
      BY Zenon DEF TypeOK, Block
    <3> QED BY <1>19, <3>1, ProposeType, Zenon DEF ProposeSync
  <2> QED BY <1>19, <2>1, Zenon DEF ProposeSync, TypeOK
<1>20. CASE ProposeAsync
  BY <1>20, Zenon DEF ProposeAsync, TypeOK
<1>21. CASE ReceiveCommitSig
  <2>1. PICK s \in sigSenders : sigSenders' = sigSenders \ {s} /\ Propose(s.num)
    BY <1>21, Zenon DEF ReceiveCommitSig
  <2>2. s.num \in Nat
    BY Zenon DEF TypeOK
  <2>3. minted' \in Nat /\ blockChannel' \subseteq Block
    BY <2>1, <2>2, ProposeType, Zenon
  <2> QED BY <1>21, <2>3, Zenon DEF ReceiveCommitSig, TypeOK
<1>22. CASE UNCHANGED vars
  BY <1>22, Zenon DEF vars, TypeOK
<1> QED
  BY <1>1, <1>2, <1>3, <1>4, <1>5, <1>6, <1>7, <1>8, <1>9, <1>10, <1>11, <1>12, <1>13, Zenon,
     <1>14, <1>15, <1>16, <1>17, <1>18, <1>19, <1>20, <1>21, <1>22
  DEF Next, MainStep, PreStep, FinalStep, ProposerStep

------------------------------------------------------------------------------
(* The inductive invariant.                                                *)

\* The leader's own keys, one after the other: each signing step adds its key when the key is in
\* the committee.
LEMMA OwnKeysFacts ==
  /\ OwnKeys(0) = {}
  /\ OwnKeys(Len(priKey)) # {}
  /\ \A i \in 1..Len(priKey) :
       /\ priKey[i] \in Keys => /\ OwnKeys(i) = OwnKeys(i - 1) \cup {priKey[i]}
                                /\ priKey[i] \in OwnKeys(Len(priKey))
       /\ priKey[i] \notin Keys => OwnKeys(i) = OwnKeys(i - 1)
       /\ OwnKeys(i) \subseteq OwnKeys(Len(priKey))
<1>1. OwnKeys(0) = {}
  BY DEF OwnKeys
<1>2. OwnKeys(Len(priKey)) # {}
  BY LeaderAssumption, Constants, Zenon DEF OwnKeys
<1>3. ASSUME NEW i \in 1..Len(priKey)
      PROVE  /\ priKey[i] \in Keys => /\ OwnKeys(i) = OwnKeys(i - 1) \cup {priKey[i]}
                                     /\ priKey[i] \in OwnKeys(Len(priKey))
             /\ priKey[i] \notin Keys => OwnKeys(i) = OwnKeys(i - 1)
             /\ OwnKeys(i) \subseteq OwnKeys(Len(priKey))
  <2>1. 1..i = 1..(i - 1) \cup {i} /\ i \in Nat
    BY Constants
  <2>2. {priKey[j] : j \in 1..i} = {priKey[j] : j \in 1..(i - 1)} \cup {priKey[i]}
    BY <2>1, Zenon
  <2>3. 1..i \subseteq 1..Len(priKey)
    BY Constants
  <2> QED BY <2>2, <2>3, Zenon DEF OwnKeys
<1> QED BY <1>1, <1>2, <1>3, Zenon

\* A step that leaves the prepare round and the announced hashes alone.
LEMMA AnnounceKeep ==
  ASSUME AnnounceInv, Fresh', OnlyCommitted', Announced' = Announced,
         UNCHANGED <<blockHash, prepare, prepareBitmap, main>>,
         main.pc = "log" => final'.pc \in {"none", "start"}
  PROVE  AnnounceInv'
<1>1. Coherent(prepare)' /\ Voted(prepare)' = Voted(prepare)
  BY Zenon DEF AnnounceInv, Coherent, Voted, ReadBallot
<1>2. (Clean' <=> Clean) /\ (OwnVoted' <=> OwnVoted)
  BY <1>1, Zenon DEF Clean, OwnVoted, OwnKeys
<1>3. LoopState' <=> LoopState
  BY <1>1, Zenon DEF LoopState, OwnKeys
<1>4. BeforeLoop' /\ HashSet'
  BY <1>1, <1>2, Zenon DEF AnnounceInv, BeforeLoop, HashSet
<1>5. InLoop'
  BY <1>1, <1>3, Zenon DEF AnnounceInv, InLoop, OwnKeys
<1> QED BY <1>1, <1>2, <1>4, <1>5, Zenon DEF AnnounceInv

\* The same, when the proposals do not change either.
LEMMA AnnounceFrame ==
  ASSUME AnnounceInv, OnlyCommitted', Announced' = Announced,
         UNCHANGED <<blockHash, prepare, prepareBitmap, blocks, main, blockChannel, minted>>,
         main.pc = "log" => final'.pc \in {"none", "start"}
  PROVE  AnnounceInv'
<1>1. Fresh'
  BY Zenon DEF AnnounceInv, Fresh
<1> QED BY <1>1, AnnounceKeep, Zenon

\* Only an ANNOUNCE announces.
LEMMA AnnouncedSame ==
  ASSUME sent \subseteq Message,
         \/ sent' = sent
         \/ \E m : m.type # "ANNOUNCE" /\ sent' = sent \cup {m}
  PROVE  Announced' = Announced
BY Zenon DEF Announced

\* Nothing is announced at the start.
LEMMA AnnounceInit == Init => AnnounceInv
<1> SUFFICES ASSUME Init PROVE AnnounceInv
  BY Zenon
<1>1. Announced = {} /\ blocks = {} /\ blockChannel = {} /\ minted = 1
  BY Zenon DEF Init, Announced
<1>2. main.pc = "idle" /\ main.i = 1
  BY Zenon DEF Init, Idle
<1>3. Fresh
  BY <1>1, <1>2 DEF Fresh
<1>4. Voted(prepare) = {} /\ prepareBitmap = {}
  BY Zenon DEF Init, Voted, ReadBallot, EmptyBox
<1>5. Coherent(prepare)
  BY <1>4, Zenon DEF Coherent
<1>6. OnlyCommitted
  BY DEF Init, OnlyCommitted, NotRunning, NoMsg, Msg
<1> QED BY <1>1, <1>2, <1>3, <1>4, <1>5, <1>6, Zenon DEF AnnounceInv, BeforeLoop, HashSet, InLoop

\* announce up to its loop.
LEMMA AnnounceStepBefore ==
  ASSUME TypeOK, AnnounceInv, ReceiveProposal \/ AnnounceSet \/ AnnounceLog
  PROVE  AnnounceInv'
<1> USE DEF consensusVars, voteVars, logVars, chainVars, sendVars, proposerVars
<1>1. Announced' = Announced /\ OnlyCommitted'
  BY Zenon DEF ReceiveProposal, AnnounceSet, AnnounceLog, Announced, AnnounceInv, OnlyCommitted
<1>2. /\ prepare' = prepare /\ prepareBitmap' = prepareBitmap
      /\ Voted(prepare)' = Voted(prepare) /\ Coherent(prepare)'
      /\ OwnVoted' <=> OwnVoted
  <2>1. prepare' = prepare /\ prepareBitmap' = prepareBitmap
    BY Zenon DEF ReceiveProposal, AnnounceSet, AnnounceLog
  <2>2. Voted(prepare)' = Voted(prepare)
    BY <2>1, Zenon DEF Voted, ReadBallot
  <2>3. Coherent(prepare)'
    BY <2>1, <2>2, Zenon DEF Coherent, AnnounceInv
  <2> QED BY <2>1, <2>2, <2>3, Zenon DEF OwnVoted, OwnKeys
<1>3. CASE ReceiveProposal
  <2>1. PICK b \in blockChannel :
          /\ blockChannel' = blockChannel \ {b}
          /\ main' = IF b.num < blockNum THEN Idle
                     ELSE [Idle EXCEPT !.pc = "set", !.blk = b]
    BY <1>3, ZenonT(60) DEF ReceiveProposal
  <2>2. main.pc = "idle" /\ blocks' = blocks /\ minted' = minted /\ blockHash' = blockHash
    BY <1>3, Zenon DEF ReceiveProposal
  <2>3. main'.i = 1 /\ (main'.pc = "idle" \/ (main'.pc = "set" /\ main'.blk = b))
    BY <2>1, Zenon DEF Idle
  <2>4. Fresh'
    BY <2>1, <2>2, <2>3, <1>1 DEF AnnounceInv, Fresh
  <2>5. Clean' <=> Clean
    BY <2>2, <1>2, Zenon DEF Clean
  <2> QED BY <2>2, <2>3, <2>4, <2>5, <1>1, <1>2, Zenon DEF AnnounceInv, BeforeLoop, HashSet, InLoop
<1>4. CASE AnnounceSet
  <2>1. /\ main.pc = "set" /\ main'.pc = "log" /\ main'.blk = main.blk /\ main'.i = main.i
        /\ blockHash' = main.blk.hash /\ final' = final /\ final.pc = "none"
        /\ UNCHANGED <<blocks, blockChannel, minted>>
    BY <1>4, Zenon DEF AnnounceSet, MutexFree, TypeOK
  <2>2. Fresh'
    BY <2>1, <1>1, Zenon DEF AnnounceInv, Fresh
  <2>3. blockHash' \notin Announced'
    BY <2>1, <1>1, Zenon DEF AnnounceInv, Fresh
  <2> QED BY <2>1, <2>2, <2>3, <1>1, <1>2, Zenon DEF AnnounceInv, BeforeLoop, HashSet, InLoop
<1>5. CASE AnnounceLog
  <2>1. /\ main.pc = "log" /\ main'.pc = "sign" /\ main'.blk = main.blk /\ main'.i = main.i
        /\ main'.msg = construct("ANNOUNCE", NoPayload)
        /\ UNCHANGED <<blockHash, final, blockChannel, minted>>
        /\ blocks' = AddBlock(blocks, main.blk)
    BY <1>5, Zenon DEF AnnounceLog, TypeOK
  <2>2. Fresh'
    BY <2>1, <1>1, Zenon DEF AnnounceInv, Fresh, AddBlock
  <2>3. /\ blockHash' = main.blk.hash /\ blockHash' \notin Announced' /\ main.i = 1
        /\ main'.msg.type = "ANNOUNCE" /\ main'.msg.hash = main.blk.hash
    BY <2>1, <1>1 DEF AnnounceInv, BeforeLoop, HashSet, Fresh, construct, Msg
  <2>4. LoopState'
    <3>1. CASE Voted(prepare) = {} /\ prepareBitmap = {}
      <4>1. OwnKeys(main'.i - 1) = {}
        BY <2>1, <2>3, OwnKeysFacts
      <4> QED BY <3>1, <4>1, <2>1, <1>2, Zenon DEF LoopState, OwnKeys
    <3>2. CASE OwnVoted
      <4>1. PICK j \in 1..Len(priKey) : priKey[j] \in Voted(prepare)
        BY <3>2, Zenon DEF OwnVoted, OwnKeys
      <4> QED BY <4>1, <2>1, <2>3, <1>2, Zenon DEF LoopState
    <3> QED BY <3>1, <3>2, <2>1, Zenon DEF AnnounceInv, BeforeLoop
  <2>5. main'.i \in 1..(Len(priKey) + 1)
    BY <2>1, <2>3, Constants
  <2> QED BY <2>1, <2>2, <2>3, <2>4, <2>5, <1>1, <1>2, Zenon DEF AnnounceInv, BeforeLoop, HashSet, InLoop
<1> QED BY <1>3, <1>4, <1>5, Zenon

\* A step within the loop.
LEMMA AnnounceInLoop ==
  ASSUME AnnounceInv, Fresh', OnlyCommitted', Coherent(prepare)', Announced' = Announced,
         blockHash' = blockHash, blockHash \notin Announced,
         main'.pc \in {"sign", "vote"}, InLoop'
  PROVE  AnnounceInv'
BY Zenon DEF AnnounceInv, BeforeLoop, HashSet

\* A step that ends the loop with a clean round.
LEMMA AnnounceAtRest ==
  ASSUME Fresh', OnlyCommitted', Coherent(prepare)', EmptyHash \notin Announced', Clean', OwnVoted',
         main'.pc = "idle", main'.i = 1
  PROVE  AnnounceInv'
BY Zenon DEF AnnounceInv, BeforeLoop, HashSet, InLoop

\* The loop over the own keys and the sending of ANNOUNCE.
LEMMA AnnounceStepLoop ==
  ASSUME TypeOK, AnnounceInv, AnnounceSetKey \/ AnnounceVote \/ AnnounceSend
  PROVE  AnnounceInv'
<1> USE DEF consensusVars, voteVars, logVars, chainVars, sendVars, proposerVars
<1> DEFINE n == Len(priKey)
<1>0. n \in Nat
  BY Constants, Zenon
<1>1. OnlyCommitted'
  BY Zenon DEF AnnounceSetKey, AnnounceVote, AnnounceSend, AnnounceInv, OnlyCommitted
<1>2. /\ UNCHANGED <<blockHash, blocks, blockChannel, minted>>
      /\ main.pc \in {"sign", "vote"}
      /\ main.i \in 1..(n + 1) /\ main.i \in Nat
      /\ main.msg.type = "ANNOUNCE" /\ main.msg.hash = main.blk.hash
      /\ 1 < main.blk.hash /\ main.blk.hash <= minted /\ main.blk.hash \notin Announced
      /\ blockHash \notin Announced
  <2>1. /\ UNCHANGED <<blockHash, blocks, blockChannel, minted>>
        /\ main.pc \in {"sign", "vote"}
    BY Zenon DEF AnnounceSetKey, AnnounceVote, AnnounceSend
  <2>2. /\ main.i \in 1..(n + 1)
        /\ main.msg.type = "ANNOUNCE" /\ main.msg.hash = main.blk.hash
    BY <2>1, Zenon DEF AnnounceInv, InLoop
  <2>3. /\ 1 < main.blk.hash /\ main.blk.hash <= minted
        /\ main.blk.hash \notin Announced
    BY <2>1, Zenon DEF AnnounceInv, Fresh
  <2>4. blockHash \notin Announced
    BY <2>1, <2>3, Zenon DEF AnnounceInv, InLoop
  <2>5. main.i \in Nat
    BY <2>2, <1>0
  <2> QED BY <2>1, <2>2, <2>3, <2>4, <2>5, Zenon
<1>3. CASE AnnounceSetKey
  <2>0. main.pc = "sign" /\ main.i \in 1..n /\ prepare' = prepare /\ sent' = sent
    BY <1>3, <1>2, <1>0 DEF AnnounceSetKey
  <2>1. /\ main'.pc \in {"sign", "vote"} /\ main'.blk = main.blk /\ main'.msg = main.msg
        /\ main'.i \in 1..(n + 1)
        /\ main'.pc = "vote" => main'.i <= n /\ priKey[main'.i] \in Keys
    BY <1>3, <2>0, <1>0 DEF AnnounceSetKey, NextKey, TypeOK
  <2>2. Announced' = Announced
    BY <2>0, Zenon DEF Announced
  <2>3. Fresh'
    BY <2>1, <2>2, <1>2, ZenonT(60) DEF AnnounceInv, Fresh
  <2>4. Voted(prepare)' = Voted(prepare) /\ Coherent(prepare)'
    <3>1. Voted(prepare)' = Voted(prepare)
      BY <2>0, Zenon DEF Voted, ReadBallot
    <3> QED BY <3>1, <2>0, Zenon DEF Coherent, AnnounceInv
  <2>5. CASE blockHash = EmptyHash
    <3>1. /\ Voted(prepare)' \subseteq OwnKeys(n)'
          /\ main'.pc = "sign" /\ Voted(prepare)' = {} => prepareBitmap' = {}
      BY <1>3, <2>0, <2>4, <2>5, <1>2 DEF AnnounceSetKey, AnnounceInv, InLoop, OwnKeys, TypeOK
    <3> QED BY <3>1, <1>1, <1>2, <2>1, <2>2, <2>3, <2>4, <2>5, AnnounceInLoop, Zenon DEF InLoop
  <2>6. CASE blockHash = main.blk.hash /\ LoopState
    <3>1. CASE \E j \in main.i..n : priKey[j] \in Voted(prepare)
      <4>1. PICK j \in main.i..n : priKey[j] \in Voted(prepare)
        BY <3>1, Zenon
      <4>2. j \in main'.i..n
        BY <4>1, <1>3, <2>0, <1>0, <1>2 DEF AnnounceSetKey, NextKey, TypeOK, Voted
      <4>3. LoopState'
        BY <4>1, <4>2, <2>4, Zenon DEF LoopState
      <4> QED BY <4>3, <1>1, <1>2, <2>1, <2>2, <2>3, <2>4, <2>6, AnnounceInLoop, Zenon DEF InLoop
    <3>2. CASE /\ Voted(prepare) = OwnKeys(main.i - 1)
               /\ prepareBitmap = OwnKeys(main.i - 1)
               /\ \A k \in Voted(prepare) : prepare[k].hash = blockHash
      <4>1. CASE priKey[main.i] \in Keys
        <5>1. main'.i = main.i /\ main'.pc = "vote" /\ prepareBitmap' = OwnKeys(main.i)
          BY <4>1, <3>2, <1>3, <2>0, OwnKeysFacts, ZenonT(60) DEF AnnounceSetKey, TypeOK
        <5>2. LoopState'
          BY <5>1, <3>2, <2>0, <2>4, <1>2, Zenon DEF LoopState, OwnKeys
        <5> QED BY <5>2, <1>1, <1>2, <2>1, <2>2, <2>3, <2>4, <2>6, AnnounceInLoop, Zenon DEF InLoop
      <4>2. CASE priKey[main.i] \notin Keys
        <5>1. main'.i = main.i + 1 /\ main'.pc = "sign" /\ prepareBitmap' = prepareBitmap
          BY <4>2, <1>3, <2>0, Zenon DEF AnnounceSetKey, NextKey, TypeOK
        <5>2. OwnKeys(main'.i - 1) = OwnKeys(main.i - 1)
          <6>1. main'.i - 1 = main.i
            BY <5>1, <1>2
          <6> QED BY <6>1, <4>2, <2>0, OwnKeysFacts, Zenon
        <5>3. LoopState'
          BY <5>1, <5>2, <3>2, <2>0, <2>4, <1>2, Zenon DEF LoopState, OwnKeys
        <5> QED BY <5>3, <1>1, <1>2, <2>1, <2>2, <2>3, <2>4, <2>6, AnnounceInLoop DEF InLoop
      <4> QED BY <4>1, <4>2, Zenon
    <3> QED BY <3>1, <3>2, <2>6, <2>0, Zenon DEF LoopState
  <2> QED BY <2>5, <2>6, <2>0, Zenon DEF AnnounceInv, InLoop
<1>4. CASE AnnounceVote
  <2> DEFINE key == priKey[main.i]
             ballot == [signers |-> {key}, hash |-> blockHash]
  <2>0. /\ main.pc = "vote" /\ main.i \in 1..n /\ key \in Keys /\ sent' = sent
        /\ prepareBitmap' = prepareBitmap
    BY <1>4, <1>2, <1>0 DEF AnnounceVote, AnnounceInv, InLoop
  <2>1. Announced' = Announced
    BY <2>0, Zenon DEF Announced
  <2>2. key \in OwnKeys(n) /\ OwnKeys(main.i) = OwnKeys(main.i - 1) \cup {key}
    BY <2>0, OwnKeysFacts, Zenon
  <2>3. CASE CanSubmit(prepare, ballot.signers)
    <3>1. /\ main'.pc = "sign" /\ main'.i = main.i + 1
          /\ main'.blk = main.blk /\ main'.msg = main.msg
      BY <1>4, <2>3, Zenon DEF AnnounceVote, NextKey, TypeOK
    <3>2. prepare' = submitVote(prepare, ballot)
      BY <1>4, <2>3, Zenon DEF AnnounceVote
    <3>3. ballot \in BallotSet /\ ballot # NoBallot /\ ballot.signers \subseteq Keys
      BY <2>0, Constants DEF BallotSet, TypeOK
    <3>4. Coherent(prepare)' /\ Voted(prepare)' = Voted(prepare) \cup {key}
      <4>1. /\ Coherent(submitVote(prepare, ballot))
            /\ Voted(submitVote(prepare, ballot)) = Voted(prepare) \cup ballot.signers
        BY <2>3, <3>3, SubmitCoherent, ZenonT(60) DEF AnnounceInv
      <4> QED BY <3>2, <4>1, Zenon DEF Coherent, Voted, ReadBallot
    <3>5. main'.i \in 1..(n + 1) /\ main'.i - 1 = main.i
      BY <3>1, <2>0, <1>0
    <3>6. Fresh'
      BY <2>1, <3>1, <1>2, Zenon DEF AnnounceInv, Fresh
    <3>7. key \notin Voted(prepare)
      BY <2>3, Zenon DEF CanSubmit, Voted
    <3>8. CASE blockHash = EmptyHash
      <4>1. Voted(prepare)' \subseteq OwnKeys(n)' /\ Voted(prepare)' # {}
        <5>1. Voted(prepare) \subseteq OwnKeys(n)
          <6>1. main.blk.hash # EmptyHash
            <7>1. 1 < main.blk.hash
              BY <1>2, Zenon
            <7> QED BY <7>1 DEF EmptyHash
          <6> QED BY <6>1, <2>0, <3>8, Zenon DEF AnnounceInv, InLoop
        <5>2. OwnKeys(n)' = OwnKeys(n)
          BY Zenon DEF OwnKeys
        <5> QED BY <5>1, <5>2, <3>4, <2>2, Zenon
      <4> QED BY <4>1, <1>1, <1>2, <2>1, <3>1, <3>4, <3>5, <3>6, <3>8, AnnounceInLoop, Zenon DEF InLoop
    <3>9. CASE blockHash = main.blk.hash /\ LoopState
      <4>1. LoopState'
        <5>1. CASE \E j \in main.i..n : priKey[j] \in Voted(prepare)
          <6>1. PICK j \in main.i..n : priKey[j] \in Voted(prepare)
            BY <5>1
          <6>2. j # main.i /\ j \in main'.i..n
            BY <6>1, <3>7, <3>1, <2>0, <1>0
          <6> QED BY <6>1, <6>2, <3>4, Zenon DEF LoopState
        <5>2. CASE /\ Voted(prepare) = OwnKeys(main.i - 1)
                   /\ prepareBitmap = OwnKeys(main.i)
                   /\ \A k \in Voted(prepare) : prepare[k].hash = blockHash
          <6>1. Voted(prepare)' = OwnKeys(main'.i - 1)
            BY <5>2, <3>4, <3>5, <2>2, Zenon
          <6>2. prepareBitmap' = OwnKeys(main'.i - 1)
            BY <5>2, <2>0, <3>5, Zenon
          <6>3. \A k \in Voted(prepare)' : prepare'[k].hash = blockHash'
            BY <5>2, <3>2, <3>4, <3>7, <1>2, Zenon DEF submitVote, Voted
          <6> QED BY <6>1, <6>2, <6>3, <3>1, Zenon DEF LoopState, OwnKeys
        <5> QED BY <5>1, <5>2, <3>9, <2>0, Zenon DEF LoopState
      <4> QED BY <4>1, <1>1, <1>2, <2>1, <3>1, <3>4, <3>5, <3>6, <3>9, AnnounceInLoop, Zenon DEF InLoop
    <3> QED BY <3>8, <3>9, <1>2, Zenon DEF AnnounceInv, InLoop
  <2>4. CASE ~CanSubmit(prepare, ballot.signers)
    <3>1. main' = Idle /\ prepare' = prepare
      BY <1>4, <2>4, Zenon DEF AnnounceVote
    <3>2. main'.pc = "idle" /\ main'.i = 1
      BY <3>1, Zenon DEF Idle
    <3>3. Voted(prepare)' = Voted(prepare) /\ Coherent(prepare)'
      BY <3>1, Zenon DEF Voted, ReadBallot, Coherent, AnnounceInv
    <3>4. OwnVoted'
      <4>1. key \in Voted(prepare)
        BY <2>4, <2>0, Zenon DEF CanSubmit, Voted
      <4> QED BY <4>1, <3>3, <2>2, Zenon DEF OwnVoted, OwnKeys
    <3>5. Fresh'
      BY <2>1, <3>2, <1>2, Zenon DEF AnnounceInv, Fresh
    <3> QED BY <1>1, <1>2, <2>1, <3>2, <3>3, <3>4, <3>5, Zenon
        DEF AnnounceInv, BeforeLoop, HashSet, InLoop
  <2> QED BY <2>3, <2>4, Zenon
<1>5. CASE AnnounceSend
  <2>0. /\ main.pc = "sign" /\ main.i = n + 1 /\ sent' = sent \cup {main.msg}
        /\ prepare' = prepare /\ prepareBitmap' = prepareBitmap
    <3>1. /\ main.pc = "sign" /\ main.i > n /\ sent' = sent \cup {main.msg}
          /\ prepare' = prepare /\ prepareBitmap' = prepareBitmap
      BY <1>5, Zenon DEF AnnounceSend
    <3>2. main.i = n + 1
      BY <3>1, <1>2, <1>0
    <3> QED BY <3>1, <3>2, Zenon
  <2>1. main'.pc = "idle" /\ main'.i = 1
    BY <1>5, Zenon DEF AnnounceSend, Idle
  <2>2. Announced' = Announced \cup {main.blk.hash}
    BY <2>0, <1>2, Zenon DEF Announced
  <2>3. Fresh'
    BY <2>1, <2>2, <1>2, Zenon DEF AnnounceInv, Fresh
  <2>4. Voted(prepare)' = Voted(prepare) /\ Coherent(prepare)' /\ (OwnVoted' <=> OwnVoted)
    BY <2>0, Zenon DEF Voted, ReadBallot, Coherent, AnnounceInv, OwnVoted, OwnKeys
  <2>5. CASE blockHash = EmptyHash
    <3>1. (Voted(prepare) = {} /\ prepareBitmap = {}) \/ OwnVoted
      <4>1. main.blk.hash # EmptyHash
        BY <1>2 DEF EmptyHash
      <4>2. /\ Voted(prepare) \subseteq OwnKeys(n)
            /\ Voted(prepare) = {} => prepareBitmap = {}
        BY <4>1, <2>0, <2>5, Zenon DEF AnnounceInv, InLoop
      <4> QED BY <4>2, Zenon DEF OwnVoted
    <3>2. blockHash' \notin Announced'
      BY <2>2, <2>5, <1>2
    <3> QED BY <3>1, <3>2, <1>1, <1>2, <2>0, <2>1, <2>2, <2>3, <2>4, ZenonT(60)
            DEF AnnounceInv, BeforeLoop, HashSet, InLoop
  <2>6. CASE blockHash = main.blk.hash /\ LoopState
    <3>1. ~\E j \in main.i..n : priKey[j] \in Voted(prepare)
      BY <2>0, <1>0
    <3>2. main.i - 1 = n
      BY <2>0, <1>0
    <3>3. /\ Voted(prepare) = OwnKeys(n) /\ prepareBitmap = OwnKeys(n)
          /\ \A k \in Voted(prepare) : prepare[k].hash = blockHash
      BY <3>1, <3>2, <2>6, <2>0, Zenon DEF LoopState
    <3>4. Clean' /\ OwnVoted'
      <4>1. Clean'
        <5>1. \A k \in Voted(prepare)' : prepare'[k].hash = blockHash'
          BY <3>3, <2>0, <2>4, <1>2, Zenon
        <5>2. prepareBitmap' = Voted(prepare)'
          BY <3>3, <2>0, <2>4, Zenon
        <5> QED BY <5>1, <5>2, Zenon DEF Clean
      <4>2. OwnVoted
        BY <3>3, OwnKeysFacts, Zenon DEF OwnVoted
      <4> QED BY <4>1, <4>2, <2>4, Zenon
    <3>5. EmptyHash \notin Announced'
      BY <2>2, <1>2 DEF AnnounceInv, EmptyHash
    <3> QED BY <3>4, <3>5, <1>1, <2>1, <2>3, <2>4, AnnounceAtRest, Zenon
  <2> QED BY <2>5, <2>6, <1>2 DEF AnnounceInv, InLoop
<1> QED BY <1>3, <1>4, <1>5

\* A validator votes for what was announced.
LEMMA VoteHash ==
  ASSUME NEW v \in Votes("ANNOUNCE")
  PROVE  v.hash \in Announced
<1>1. PICK V \in VoteSets, m \in {n \in sent : n.type = "ANNOUNCE"} :
        v = [signers |-> V, num |-> m.num, hash |-> m.hash]
  BY DEF Votes
<1>2. v.hash = m.hash
  BY <1>1, Zenon
<1> QED BY <1>2, Zenon DEF Announced

\* Every other step.
LEMMA AnnounceStepOther ==
  ASSUME TypeOK, AnnounceInv,
         \/ OnPrepare \/ OnCommit \/ PreStep \/ FinalStep \/ ProposerStep \/ GraceFire
         \/ RetryCommitted \/ SigSenderTimeout
  PROVE  AnnounceInv'
<1> USE DEF consensusVars, voteVars, logVars, chainVars, sendVars, proposerVars
<1>0. ASSUME NEW m, m \in {committedRetry, final.msg} \cup {g.msg : g \in pre}
      PROVE  m.type # "ANNOUNCE"
  BY <1>0, Zenon DEF AnnounceInv, OnlyCommitted
<1>1. CASE OnPrepare
  <2>1. PICK v \in Votes("ANNOUNCE") : onPrepare(v)
    BY <1>1, Zenon DEF OnPrepare
  <2>2. v.hash = blockHash /\ blockHash \in Announced
    <3>1. v.hash = blockHash
      BY <2>1, Zenon DEF onPrepare
    <3> QED BY <3>1, VoteHash, Zenon
  <2>3. main.pc \in {"idle", "set"} /\ Clean /\ OwnVoted /\ main.i = 1
    <3>1. Clean /\ OwnVoted
      BY <2>2, Zenon DEF AnnounceInv
    <3>2. main.pc # "log" /\ main.pc \notin {"sign", "vote"}
      BY <2>2, Zenon DEF AnnounceInv, Fresh, HashSet, InLoop
    <3>3. main.pc \in {"idle", "set"}
      BY <3>2, Zenon DEF TypeOK
    <3> QED BY <3>1, <3>3, Zenon DEF AnnounceInv, BeforeLoop
  <2>4. /\ Ballot(v) \in BallotSet /\ Ballot(v) # NoBallot
        /\ Ballot(v).signers = v.signers /\ v.signers \subseteq Keys
        /\ Ballot(v).hash = blockHash
    <3>0. sent \subseteq Message
      BY Zenon DEF TypeOK
    <3>1. Ballot(v) \in BallotSet /\ v.signers \in SUBSET Keys
      BY <3>0, BallotType, Zenon
    <3>2. Ballot(v).signers = v.signers /\ Ballot(v).hash = v.hash
      BY Zenon DEF Ballot
    <3>3. Ballot(v) # NoBallot
      BY <3>1, Constants, Zenon
    <3> QED
      BY <2>2, <3>1, <3>2, <3>3, Zenon
  <2>5. /\ prepare' = submitVote(prepare, Ballot(v))
        /\ prepareBitmap' = prepareBitmap \cup v.signers
        /\ UNCHANGED <<blockHash, blocks, main, blockChannel, minted, final, pre>>
    BY <2>1, Zenon DEF onPrepare
  <2>6. Coherent(prepare)' /\ Voted(prepare)' = Voted(prepare) \cup v.signers
    <3>1. CanSubmit(prepare, Ballot(v).signers)
      BY <2>1, <2>4, ZenonT(60) DEF onPrepare
    <3>2. /\ Coherent(submitVote(prepare, Ballot(v)))
          /\ Voted(submitVote(prepare, Ballot(v))) = Voted(prepare) \cup Ballot(v).signers
      BY <2>4, <3>1, SubmitCoherent, ZenonT(60) DEF AnnounceInv
    <3> QED BY <2>4, <2>5, <3>2, Zenon DEF Coherent, Voted, ReadBallot
  <2>7. Clean'
    <3>1. \A k \in Voted(prepare)' : prepare'[k].hash = blockHash
      BY <2>3, <2>4, <2>5, <2>6, Zenon DEF Clean, submitVote, Voted
    <3> QED BY <3>1, <2>3, <2>5, <2>6, ZenonT(60) DEF Clean
  <2>8. OwnVoted'
    <3>1. Voted(prepare) \subseteq Voted(prepare)'
      BY <2>6, Zenon
    <3> QED BY <3>1, <2>3, Zenon DEF OwnVoted, OwnKeys
  <2>9. Announced' = Announced /\ OnlyCommitted'
    <3>1. \/ UNCHANGED <<sent, committedRetry>>
          \/ \E p : /\ sent' = sent \cup {construct("PREPARED", p)}
                    /\ committedRetry' = NoMsg
      BY <2>1, Zenon DEF onPrepare, didReachPrepareQuorum
    <3>2. \A p : construct("PREPARED", p).type = "PREPARED"
      BY Zenon DEF construct, Msg
    <3>3. Announced' = Announced
      BY <3>1, <3>2, AnnouncedSame, Zenon DEF TypeOK
    <3>4. NoMsg.type = "NONE"
      BY Zenon DEF NoMsg, Msg
    <3>5. committedRetry' \in {committedRetry, NoMsg}
      BY <3>1, ZenonT(60)
    <3>6. OnlyCommitted'
      BY <3>4, <3>5, <2>5, Zenon DEF OnlyCommitted, AnnounceInv
    <3> QED BY <3>3, <3>6, Zenon
  <2>10. Fresh'
    BY <2>5, <2>9, Zenon DEF AnnounceInv, Fresh
  <2> QED BY <2>3, <2>5, <2>6, <2>7, <2>8, <2>9, <2>10, ZenonT(60)
          DEF AnnounceInv, BeforeLoop, HashSet, InLoop
<1>2. CASE OnCommit
  <2>1. PICK v \in Votes("PREPARED") : onCommit(v)
    BY <1>2, Zenon DEF OnCommit
  <2>2. /\ UNCHANGED <<blockHash, prepare, prepareBitmap, blocks, main, blockChannel, minted,
                       sent, committedRetry>>
        /\ final.pc = "none"
        /\ final' \in {final, [NotRunning EXCEPT !.pc = "start"]}
    BY <2>1, Zenon DEF onCommit, MutexFree
  <2>3. final'.pc \in {"none", "start"} /\ final'.msg \in {final.msg, NoMsg}
    BY <2>2, Zenon DEF NotRunning
  <2>4. \/ pre' = pre
        \/ \E b, p : pre' = pre \cup {[pc |-> "log", blk |-> b,
                                       msg |-> construct("COMMITTED", p)]}
    BY <2>1, Zenon DEF onCommit, preCommitAndPropose
  <2>5. \A p : construct("COMMITTED", p).type = "COMMITTED"
    BY Zenon DEF construct, Msg
  <2>6. NoMsg.type = "NONE"
    BY Zenon DEF NoMsg, Msg
  <2>7. OnlyCommitted'
    BY <2>2, <2>3, <2>4, <2>5, <2>6 DEF OnlyCommitted, AnnounceInv
  <2>8. Announced' = Announced
    BY <2>2, Zenon DEF Announced
  <2> QED BY <2>2, <2>3, <2>7, <2>8, AnnounceFrame, Zenon
<1>3. CASE PreLog \/ PreInsert \/ PreSend
  <2>1. /\ UNCHANGED <<blockHash, prepare, prepareBitmap, blocks, main, blockChannel, minted,
                       final>>
        /\ \/ UNCHANGED <<sent, committedRetry>>
           \/ \E g \in pre : sent' = sent \cup {g.msg} /\ committedRetry' = g.msg
    BY <1>3, Zenon DEF PreLog, PreInsert, PreSend
  <2>2. \A h \in pre' : \E g \in pre : h.msg = g.msg
    BY <1>3 DEF PreLog, PreInsert, PreSend, TypeOK
  <2>3. Announced' = Announced
    BY <2>1, <1>0, AnnouncedSame DEF TypeOK
  <2>4. OnlyCommitted'
    BY <2>1, <2>2, Zenon DEF OnlyCommitted, AnnounceInv
  <2>5. main.pc = "log" => final'.pc \in {"none", "start"}
    BY <2>1, Zenon DEF AnnounceInv, HashSet
  <2> QED BY <2>1, <2>3, <2>4, <2>5, AnnounceFrame, Zenon
<1>4. CASE FinalStart
  <2>1. /\ UNCHANGED <<blockHash, prepare, prepareBitmap, blocks, main, blockChannel, minted,
                       sent, committedRetry, pre>>
        /\ \/ final' = NotRunning
           \/ /\ GetBlockByHash(blocks, blockHash) # {}
              /\ \E p : final'.msg = construct("COMMITTED", p)
    BY <1>4 DEF FinalStart
  <2>2. main.pc = "log" => GetBlockByHash(blocks, blockHash) = {}
    BY Zenon DEF AnnounceInv, Fresh, HashSet, GetBlockByHash
  <2>3. NotRunning.pc = "none" /\ NotRunning.msg.type = "NONE"
    BY Zenon DEF NotRunning, NoMsg, Msg
  <2>4. \A p : construct("COMMITTED", p).type = "COMMITTED"
    BY Zenon DEF construct, Msg
  <2>5. OnlyCommitted'
    BY <2>1, <2>3, <2>4, Zenon DEF OnlyCommitted, AnnounceInv
  <2>6. Announced' = Announced
    BY <2>1, Zenon DEF Announced
  <2>7. main.pc = "log" => final'.pc \in {"none", "start"}
    BY <2>1, <2>2, <2>3, Zenon
  <2> QED BY <2>1, <2>5, <2>6, <2>7, AnnounceFrame, Zenon
<1>5. CASE FinalInsert
  <2>1. /\ UNCHANGED <<blockHash, prepare, prepareBitmap, blocks, main, blockChannel, minted,
                       sent, committedRetry, pre>>
        /\ final'.msg = final.msg /\ main.pc # "log"
    BY <1>5, Zenon DEF FinalInsert, TypeOK, AnnounceInv, HashSet
  <2>2. OnlyCommitted'
    BY <2>1, Zenon DEF OnlyCommitted, AnnounceInv
  <2>3. Announced' = Announced
    BY <2>1, Zenon DEF Announced
  <2> QED BY <2>1, <2>2, <2>3, AnnounceFrame, Zenon
<1>6. CASE FinalSetup
  <2>1. /\ blockHash' = EmptyHash /\ prepare' = EmptyBox /\ prepareBitmap' = {}
        /\ blocks' \subseteq blocks
        /\ UNCHANGED <<main, blockChannel, minted, sent, committedRetry, pre>>
        /\ final'.msg = final.msg /\ main.pc # "log"
    BY <1>6, Zenon DEF FinalSetup, SetupForNewConsensus, ResetState, PruneCacheBeforeBlock,
                DeleteLessThan, TypeOK, AnnounceInv, HashSet
  <2>2. Announced' = Announced
    BY <2>1, Zenon DEF Announced
  <2>3. Voted(prepare)' = {}
    BY <2>1, Zenon DEF Voted, ReadBallot, EmptyBox
  <2>4. Coherent(prepare)'
    BY <2>3, Zenon DEF Coherent
  <2>5. Fresh'
    BY <2>1, <2>2, Zenon DEF AnnounceInv, Fresh
  <2>6. OnlyCommitted'
    BY <2>1, ZenonT(60) DEF OnlyCommitted, AnnounceInv
  <2> QED BY <2>1, <2>2, <2>3, <2>4, <2>5, <2>6, Zenon DEF AnnounceInv, BeforeLoop, HashSet, InLoop
<1>7. CASE FinalSend
  <2>1. /\ UNCHANGED <<blockHash, prepare, prepareBitmap, blocks, main, blockChannel, minted,
                       pre>>
        /\ final' = NotRunning /\ committedRetry' = final.msg
        /\ \/ sent' = sent
           \/ sent' = sent \cup {final.msg}
    BY <1>7, Zenon DEF FinalSend
  <2>2. final'.pc = "none" /\ final'.msg.type = "NONE"
    BY <2>1, Zenon DEF NotRunning, NoMsg, Msg
  <2>3. Announced' = Announced
    BY <2>1, <1>0, AnnouncedSame, Zenon DEF TypeOK
  <2>4. OnlyCommitted'
    BY <2>1, <2>2, Zenon DEF OnlyCommitted, AnnounceInv
  <2> QED BY <2>1, <2>2, <2>3, <2>4, AnnounceFrame, ZenonT(60)
<1>8. CASE GraceFire
  <2>1. /\ UNCHANGED <<blockHash, prepare, prepareBitmap, blocks, main, blockChannel, minted,
                       sent, committedRetry, pre>>
        /\ final'.pc = "start" /\ final'.msg.type = "NONE"
    BY <1>8, Zenon DEF GraceFire, NotRunning, NoMsg, Msg
  <2>2. OnlyCommitted'
    BY <2>1, Zenon DEF OnlyCommitted, AnnounceInv
  <2>3. Announced' = Announced
    BY <2>1, Zenon DEF Announced
  <2> QED BY <2>1, <2>2, <2>3, AnnounceFrame, Zenon
<1>9. CASE RetryCommitted
  <2>1. /\ UNCHANGED <<blockHash, prepare, prepareBitmap, blocks, main, blockChannel, minted,
                       committedRetry, pre, final>>
        /\ sent' = sent \cup {committedRetry}
    BY <1>9, Zenon DEF RetryCommitted
  <2>2. OnlyCommitted'
    BY <2>1, Zenon DEF OnlyCommitted, AnnounceInv
  <2>3. Announced' = Announced
    BY <2>1, <1>0, AnnouncedSame, Zenon DEF TypeOK
  <2>4. main.pc = "log" => final'.pc \in {"none", "start"}
    BY <2>1, Zenon DEF AnnounceInv, HashSet
  <2> QED BY <2>1, <2>2, <2>3, <2>4, AnnounceFrame, Zenon
<1>10. CASE SigSenderTimeout \/ ProposeAsync
  <2>1. UNCHANGED <<blockHash, prepare, prepareBitmap, blocks, main, blockChannel, minted,
                    sent, committedRetry, pre, final>>
    BY <1>10, Zenon DEF SigSenderTimeout, ProposeAsync
  <2>2. OnlyCommitted'
    BY <2>1, Zenon DEF OnlyCommitted, AnnounceInv
  <2>3. Announced' = Announced
    BY <2>1, Zenon DEF Announced
  <2>4. main.pc = "log" => final'.pc \in {"none", "start"}
    BY <2>1, Zenon DEF AnnounceInv, HashSet
  <2> QED BY <2>1, <2>2, <2>3, <2>4, AnnounceFrame, Zenon
<1>11. CASE ProposeSync \/ ReceiveCommitSig
  <2>1. PICK h : Propose(h)
    BY <1>11, ZenonT(60) DEF ProposeSync, ReceiveCommitSig
  <2>2. UNCHANGED <<blockHash, prepare, prepareBitmap, blocks, main, sent, committedRetry, pre,
                    final>>
    BY <1>11, Zenon DEF ProposeSync, ReceiveCommitSig
  <2>3. Announced' = Announced
    BY <2>2, Zenon DEF Announced
  <2>4. OnlyCommitted'
    BY <2>2, Zenon DEF OnlyCommitted, AnnounceInv
  <2>5. Fresh'
    <3>1. PICK b : /\ b.hash = minted + 1
                   /\ blockChannel' = blockChannel \cup {b}
                   /\ minted' = minted + 1
      BY <2>1, ZenonT(60) DEF Propose
    <3>2. minted \in Nat /\ minted >= 1 /\ Fresh
      BY Zenon DEF AnnounceInv, Fresh
    <3>3. \A c \in blocks \cup blockChannel : c.hash \in Nat /\ c.hash <= minted
      <4>1. \A c \in blocks \cup blockChannel : c.hash \in Nat
        BY Zenon DEF TypeOK, Block
      <4> QED BY <4>1, <3>2, Zenon DEF Fresh
    <3>4. \A x \in Announced : x \in Nat /\ x <= minted
      <4>1. \A x \in Announced : x \in Nat
        BY DEF Announced, TypeOK, Message
      <4> QED BY <4>1, <3>2, Zenon DEF Fresh
    <3>5. main.blk.hash \in Nat /\ (main.pc # "idle" => main.blk.hash <= minted)
      <4>1. main.blk.hash \in Nat
        BY Zenon DEF TypeOK, Block
      <4> QED BY <4>1, <3>2, Zenon DEF Fresh
    <3>6. /\ 1 < b.hash /\ b.hash <= minted' /\ b.hash \notin Announced
          /\ \A c \in blocks \cup blockChannel : c.hash # b.hash
          /\ main.pc # "idle" => b.hash # main.blk.hash
      BY <3>1, <3>2, <3>3, <3>4, <3>5
    <3>7. /\ minted' \in Nat /\ minted' >= 1
          /\ \A c \in blocks \cup blockChannel : c.hash <= minted'
          /\ \A x \in Announced : x <= minted'
          /\ main.pc # "idle" => main.blk.hash <= minted'
      BY <3>1, <3>2, <3>3, <3>4, <3>5
    <3>8. ASSUME NEW d \in blockChannel'
          PROVE  /\ 1 < d.hash /\ d.hash <= minted'
                 /\ d.hash \notin Announced
                 /\ \A c \in blocks \cup (blockChannel' \ {d}) : c.hash # d.hash
                 /\ main.pc # "idle" => d.hash # main.blk.hash
      <4>1. CASE d = b
        BY <4>1, <3>1, <3>6, Zenon
      <4>2. CASE d # b
        <5>1. d \in blockChannel
          BY <4>2, <3>1, Zenon
        <5>2. blockChannel' \ {d} = (blockChannel \ {d}) \cup {b}
          BY <4>2, <3>1, Zenon
        <5> QED BY <5>1, <5>2, <3>2, <3>6, <3>7, Zenon DEF Fresh
      <4> QED BY <4>1, <4>2, Zenon
    <3> QED BY <3>2, <3>7, <3>8, <2>2, <2>3, Zenon DEF Fresh
  <2>6. main.pc = "log" => final'.pc \in {"none", "start"}
    BY <2>2, Zenon DEF AnnounceInv, HashSet
  <2> QED BY <2>2, <2>3, <2>4, <2>5, <2>6, AnnounceKeep, Zenon
<1> QED
  BY <1>1, <1>2, <1>3, <1>4, <1>5, <1>6, <1>7, <1>8, <1>9, <1>10, <1>11, Zenon
  DEF PreStep, FinalStep, ProposerStep

------------------------------------------------------------------------------
\* The variables keep their types, and AnnounceInv is an invariant: announce
\* may go on filling bitmap and ballots while finalCommit resets the round.
THEOREM TypeAndAnnounce == Spec => [](TypeOK /\ AnnounceInv)
<1>1. Init => TypeOK /\ AnnounceInv
  BY InitType, AnnounceInit, Zenon
<1>2. TypeOK /\ AnnounceInv /\ [Next]_vars => (TypeOK /\ AnnounceInv)'
  <2> SUFFICES ASSUME TypeOK, AnnounceInv, [Next]_vars PROVE TypeOK' /\ AnnounceInv'
    BY Zenon
  <2>1. TypeOK'
    BY TypeStep, Zenon DEF AnnounceInv, InLoop
  <2>2. CASE UNCHANGED vars
    <3>1. UNCHANGED <<blockHash, prepare, prepareBitmap, blocks, main, blockChannel, minted,
                      sent, committedRetry, pre, final>>
      BY <2>2, Zenon
      DEF vars, consensusVars, voteVars, logVars, chainVars, sendVars, proposerVars
    <3>2. OnlyCommitted' /\ Announced' = Announced
      BY <3>1, Zenon DEF OnlyCommitted, AnnounceInv, Announced
    <3>3. main.pc = "log" => final'.pc \in {"none", "start"}
      BY <3>1, Zenon DEF AnnounceInv, HashSet
    <3> QED BY <2>1, <3>1, <3>2, <3>3, AnnounceFrame, Zenon
  <2>3. CASE Next
    BY <2>1, <2>3, AnnounceStepBefore, AnnounceStepLoop, AnnounceStepOther, Zenon
    DEF Next, MainStep
  <2> QED BY <2>2, <2>3, Zenon
<1> QED BY <1>1, <1>2, PTL DEF Spec

\* Every PREPARED the leader sends carries a quorum of bits and an aggregate
\* that verifies for exactly those keys on the announced hash (the checks of
\* onPrepared), for every committee and every interleaving of announce with
\* the handlers, the grace timers and finalCommit.
THEOREM PreparedCorrect == Spec => []PreparedHasQuorum
<1>1. Init => PreparedHasQuorum
  BY Zenon DEF Init, PreparedHasQuorum
<1>2. TypeOK /\ AnnounceInv /\ (TypeOK /\ AnnounceInv)' /\ PreparedHasQuorum /\ [Next]_vars
        => PreparedHasQuorum'
  <2> SUFFICES ASSUME TypeOK, AnnounceInv, AnnounceInv', PreparedHasQuorum, [Next]_vars,
                      NEW m \in sent', m.type = "PREPARED"
               PROVE  Proof(m.payload, m.hash)
    BY Zenon DEF PreparedHasQuorum
  <2> USE DEF consensusVars, voteVars, logVars, chainVars, sendVars, proposerVars
  <2>1. CASE m \in sent
    BY <2>1, Zenon DEF PreparedHasQuorum
  <2>2. CASE OnPrepare /\ m \notin sent
    <3>1. PICK v \in Votes("ANNOUNCE") : onPrepare(v)
      BY <2>2, Zenon DEF OnPrepare
    <3>2. IsQuorumAchieved(prepare') /\ didReachPrepareQuorum(prepare', prepareBitmap')
      BY <3>1, <2>2, ZenonT(60) DEF onPrepare
    <3>3. PICK p \in constructQuorumSigAndBitmap(prepare', prepareBitmap') :
            m = construct("PREPARED", p)
      BY <3>2, <2>2, Zenon DEF didReachPrepareQuorum
    <3>4. v.hash = blockHash /\ blockHash' = blockHash /\ blockHash \in Announced
      <4>1. v.hash = blockHash /\ blockHash' = blockHash
        BY <3>1, Zenon DEF onPrepare
      <4> QED BY <4>1, VoteHash, Zenon
    <3>5. blockHash' \in Announced'
      <4>1. sent \subseteq sent'
        BY <3>1, ZenonT(60) DEF onPrepare, didReachPrepareQuorum
      <4> QED BY <4>1, <3>4, Zenon DEF Announced
    <3>6. Clean' /\ Coherent(prepare')
      BY <3>5, ZenonT(60) DEF AnnounceInv, Coherent, Voted, ReadBallot
    <3>7. /\ prepareBitmap' = Voted(prepare')
          /\ \A k \in Voted(prepare') : prepare'[k].hash = blockHash
      BY <3>6, <3>4, Zenon DEF Clean, Voted, ReadBallot
    <3>8. m.payload = p /\ m.hash = blockHash /\ p.bitmap = prepareBitmap'
          /\ p.agg \in AggregateVotes(prepare')
      <4>1. PICK a \in AggregateVotes(prepare') : p = [agg |-> a, bitmap |-> prepareBitmap']
        BY Zenon DEF constructQuorumSigAndBitmap
      <4>2. p.bitmap = prepareBitmap' /\ p.agg \in AggregateVotes(prepare')
        BY <4>1, Zenon
      <4>3. m = Msg("PREPARED", blockNum, blockHash, p)
        BY <3>3, Zenon DEF construct
      <4>4. m.payload = p /\ m.hash = blockHash
        BY <4>3, Zenon DEF Msg
      <4> QED BY <4>2, <4>4, Zenon
    <3>9. p.agg = ReadAllBallots(prepare') /\ SignersOf(p.agg) = Voted(prepare')
      BY <3>6, <3>8, AggregateAll, Zenon
    <3>10. VerifyHash(p.agg, p.bitmap, blockHash)
      BY <3>7, <3>8, <3>9, Zenon DEF VerifyHash, ReadAllBallots
    <3>11. IsQuorumAchievedByMask(p.bitmap)
      BY <3>2, <3>7, <3>8, Zenon DEF IsQuorumAchieved, IsQuorumAchievedByMask, SignersCount
    <3> QED BY <3>8, <3>10, <3>11, Zenon DEF Proof
  <2>3. ASSUME ~OnPrepare, m \notin sent
        PROVE  FALSE
    <3>1. \/ sent' = sent
          \/ \E g \in pre : sent' = sent \cup {g.msg}
          \/ sent' = sent \cup {committedRetry}
          \/ sent' = sent \cup {final.msg}
          \/ main.pc = "sign" /\ sent' = sent \cup {main.msg}
      BY <2>3, ZenonT(60) DEF Next, MainStep, PreStep, FinalStep, ProposerStep, ReceiveProposal,
           AnnounceSet, AnnounceLog, AnnounceSetKey, AnnounceVote, AnnounceSend, OnCommit,
           onCommit, PreLog, PreInsert, PreSend, GraceFire, FinalStart, FinalInsert,
           FinalSetup, FinalSend, RetryCommitted, SigSenderTimeout, ProposeSync, ProposeAsync,
           ReceiveCommitSig, vars
    <3>2. main.pc = "sign" => main.msg.type = "ANNOUNCE"
      BY Zenon DEF AnnounceInv, InLoop
    <3> QED BY <3>1, <3>2, <2>3 DEF AnnounceInv, OnlyCommitted
  <2> QED BY <2>1, <2>2, <2>3, Zenon
<1> QED BY <1>1, <1>2, TypeAndAnnounce, PTL DEF Spec

------------------------------------------------------------------------------
(***************************************************************************)
(* What the leader commits, for every committee, set of own keys and       *)
(* validators and any number of heights, when its timers are prompt: a     *)
(* quorum's signature is behind every COMMITTED and every inserted block,  *)
(* a height has one block, and a stored commit signature only grows.       *)
(*                                                                         *)
(* The argument: there is one token.  It is a signal for the proposer, the *)
(* block it makes, announce's block, the round of that block, and then the *)
(* goroutine or finalCommit that will send the next signal.  Prompt keeps  *)
(* the next block out of announce until the round has been reset.          *)
(***************************************************************************)

\* announce has set block and blockHash and is not done.
Live == main.pc \in {"log", "sign", "vote"}

\* The round's block is not yet in the chain.
Open == block # NoBlock /\ block # head

\* The round: none, or one for a child of the head, or for the head itself.
RoundShape ==
  /\ block = NoBlock =>
       /\ blockHash = EmptyHash /\ commit = EmptyBox /\ commitBitmap = {}
       /\ blockNum = head.num + 1
  /\ block # NoBlock =>
       /\ blockHash = block.hash /\ blockNum = block.num
       /\ 1 < block.hash /\ block.parent < block.hash
       /\ block # head => block.num = head.num + 1 /\ block.parent = head.hash
       /\ main.pc # "log" => block \in blocks
  /\ \A c \in blocks : 1 < c.hash /\ (c.hash = blockHash => c = block)

\* The commit ballots: bitmap and ballots name the same keys and sign blockHash.
CommitVotes ==
  /\ commitBitmap = Voted(commit) /\ Coherent(commit)
  /\ \A k \in Voted(commit) : commit[k].hash = blockHash
  /\ Voted(commit) # {} => blockHash \in Announced /\ IsQuorumAchieved(prepare)

\* Whoever is about to commit the round's block has a quorum; a block that is in the
\* chain before its round is over will be found there by finalCommit.
Quorums ==
  /\ block # NoBlock /\ (grace > 0 \/ pre # {} \/ final.pc \in {"start", "insert", "setup"}) =>
       IsQuorumAchieved(commit)
  /\ \A g \in pre : g.pc # "send" => grace > 0
  /\ block # NoBlock /\ block = head =>
       /\ grace > 0 \/ final.pc \in {"start", "setup"}
       /\ block.num \in EpochEnds => final.pc = "setup"

\* m is a COMMITTED for b with a quorum behind it.
Carries(m, b) ==
  /\ m.type = "COMMITTED" /\ m.num = b.num /\ m.hash = b.hash
  /\ Proof(m.payload, m.hash)
  /\ m.hash \in Announced

\* What finalCommit and the goroutine of preCommitAndPropose have in hand.
Hands ==
  /\ final.pc \in {"insert", "setup"} => block # NoBlock /\ final.blk = block
  /\ final.pc = "setup" => block = head
  /\ final.pc = "send" => final.blk = head /\ ~Open
  /\ final.pc \in {"insert", "setup", "send"} => Carries(final.msg, final.blk)
  /\ \A g \in pre :
       /\ Carries(g.msg, g.blk)
       /\ g.blk.num \notin EpochEnds
       /\ Open => g.blk = block /\ g.pc # "send"
       /\ ~Open => g.blk = head

\* The message is about the round's block or about a block of the chain.
Right(m) ==
  /\ m.hash \in Announced
  /\ \/ m.num = blockNum /\ m.hash = blockHash
     \/ \E c \in chain : c.blk.num = m.num /\ c.blk.hash = m.hash

Messages ==
  /\ \A m \in sent : Right(m) /\ (m.type = "COMMITTED" => Proof(m.payload, m.hash))
  /\ committedRetry # NoMsg =>
       Right(committedRetry) /\ Proof(committedRetry.payload, committedRetry.hash)
  /\ \A h \in Announced : 1 < h
  /\ main.pc \in {"sign", "vote"} => main.msg.num = blockNum

\* One block per height, with a quorum's signature.
ChainShape ==
  /\ \A c \in chain : c.blk.num <= head.num /\ Proof(c.sig, c.blk.hash)
  /\ \A c, d \in chain : c.blk.num = d.blk.num => c.blk = d.blk
  /\ head = Genesis \/ \E c \in chain : c.blk = head
  /\ head.parent < head.hash /\ head.hash <= minted

\* b is made for the current head.
Child(b) == b.num = head.num + 1 /\ b.parent = head.hash /\ b.parent < b.hash

\* finalCommit will signal the proposer.
WillSignal == final.pc \in {"setup", "send"} /\ final.blk.num \in EpochEnds

\* The token is in one place.
Token ==
  /\ \A r, s \in ready : r = s
  /\ \A b, c \in blockChannel : b = c
  /\ \A g, h \in pre : g = h
  /\ ready # {} => /\ proposer = "idle" /\ blockChannel = {} /\ main.pc = "idle"
                   /\ pre = {} /\ ~WillSignal /\ ~Open
  /\ proposer = "waiting" => /\ blockChannel = {} /\ main.pc = "idle"
                             /\ pre = {} /\ ~WillSignal /\ ~Open
  /\ blockChannel # {} => main.pc = "idle" /\ pre = {} /\ ~WillSignal /\ ~Open
  /\ main.pc = "set" => pre = {} /\ ~WillSignal /\ ~Open
  /\ Live => block # NoBlock /\ block = main.blk /\ block # head
  /\ WillSignal => pre = {}
  /\ \A b \in blockChannel : Child(b)
  /\ main.pc = "set" => Child(main.blk)

\* Where nothing has been stored yet there is nothing; for the round's height, not more
\* than the signatures collected so far.
Stored ==
  \A n \in 0..MaxBlock :
    n >= blockNum => commitSigs[n].bitmap \subseteq IF n = blockNum THEN commitBitmap ELSE {}

\* A PREPARED is out for the round's block only when its prepare votes make a quorum.
PreparedSeen ==
  \A m \in sent : m.type = "PREPARED" /\ m.hash = blockHash => IsQuorumAchieved(prepare)

CommitInv ==
  /\ RoundShape /\ CommitVotes /\ Quorums /\ Hands /\ Messages /\ ChainShape /\ Token /\ Stored
  /\ PreparedSeen

------------------------------------------------------------------------------
(* What an action leaves alone.                                            *)

\* The variables of RoundShape.
LEMMA RoundFrame ==
  ASSUME RoundShape,
         UNCHANGED <<blockNum, blockHash, block, commit, commitBitmap, blocks, head, main>>
  PROVE  RoundShape'
BY Zenon DEF RoundShape

\* The variables of CommitVotes; what has been announced stays announced.
LEMMA VotesFrame ==
  ASSUME CommitVotes, UNCHANGED <<blockHash, commit, commitBitmap, prepare>>,
         Announced \subseteq Announced'
  PROVE  CommitVotes'
BY Zenon DEF CommitVotes, Coherent, Voted, ReadBallot, IsQuorumAchieved, SignersCount

\* The variables of Quorums.
LEMMA QuorumsFrame ==
  ASSUME Quorums, UNCHANGED <<block, commit, grace, pre, final, head>>
  PROVE  Quorums'
BY Zenon DEF Quorums, IsQuorumAchieved, SignersCount, Voted, ReadBallot

\* The variables of Hands.
LEMMA HandsFrame ==
  ASSUME Hands, UNCHANGED <<block, pre, final, head>>, Announced \subseteq Announced'
  PROVE  Hands'
BY Zenon DEF Hands, Carries, Open

\* The variables of Messages.
LEMMA MessagesFrame ==
  ASSUME Messages, UNCHANGED <<blockNum, blockHash, sent, committedRetry, chain, main>>
  PROVE  Messages'
BY Zenon DEF Messages, Right, Announced

\* The variables of ChainShape; hashes only grow.
LEMMA ChainFrame ==
  ASSUME TypeOK, ChainShape, UNCHANGED <<chain, head>>, minted' \in Nat, minted <= minted'
  PROVE  ChainShape'
<1>1. head.hash \in Nat /\ minted \in Nat
  BY Zenon DEF TypeOK, Block
<1>2. head.hash <= minted'
  BY <1>1 DEF ChainShape
<1> QED
  BY <1>2, Zenon DEF ChainShape

\* The variables of Token.
LEMMA TokenFrame ==
  ASSUME Token, UNCHANGED <<ready, proposer, blockChannel, main, pre, final, block, head>>
  PROVE  Token'
BY Zenon DEF Token, WillSignal, Open, Live, Child

\* The variables of Stored.
LEMMA StoredFrame ==
  ASSUME Stored, UNCHANGED <<commitSigs, blockNum, commitBitmap>>
  PROVE  Stored'
BY Zenon DEF Stored

\* The variables of PreparedSeen; or another message goes out.
LEMMA PreparedFrame ==
  ASSUME PreparedSeen, UNCHANGED <<blockHash, prepare>>,
         \A m \in sent' : m \in sent \/ m.type # "PREPARED"
  PROVE  PreparedSeen'
BY Zenon DEF PreparedSeen, IsQuorumAchieved, SignersCount, Voted, ReadBallot

\* Before the ANNOUNCE, and after the round, no PREPARED is about blockHash.
LEMMA PreparedUnsent ==
  ASSUME Messages', blockHash' \notin Announced'
  PROVE  PreparedSeen'
BY Zenon DEF Messages, PreparedSeen, Right

\* The number of hashes given out.
LEMMA MintedNat ==
  ASSUME TypeOK
  PROVE  minted \in Nat
BY Zenon DEF TypeOK

\* While no block is made, ChainShape needs chain and head only.
LEMMA ChainStays ==
  ASSUME TypeOK, ChainShape, UNCHANGED <<chain, head, minted>>
  PROVE  ChainShape'
BY Zenon DEF ChainShape

\* Heights and hashes are numbers.
LEMMA Numbers ==
  ASSUME TypeOK
  PROVE  /\ blockNum \in Nat /\ blockHash \in Nat /\ minted \in Nat /\ grace \in Nat
         /\ block \in Block /\ head \in Block /\ main.blk \in Block /\ final.blk \in Block
         /\ \A b \in Block : b.num \in Nat /\ b.hash \in Nat /\ b.parent \in Nat
         /\ blocks \subseteq Block /\ blockChannel \subseteq Block
         /\ \A c \in chain : c.blk \in Block
         /\ \A g \in pre : g.blk \in Block /\ g.pc \in {"log", "insert", "send"}
         /\ \A m \in sent : m.hash \in Nat /\ m.num \in Nat
BY DEF TypeOK, Block, Message

\* An empty box is no quorum, and a full one is.
LEMMA QuorumBounds ==
  /\ \A box : Voted(box) = {} => ~IsQuorumAchieved(box)
  /\ \A box : IsAllSigsCollected(box) => IsQuorumAchieved(box)
<1> DEFINE n == Cardinality(Keys)
<1>1. n \in Nat /\ n > 0
  BY KeysAssumption, FS_CardinalityType, FS_EmptySet
<1>2. TwoThirdsSignersCount > 0 /\ n >= TwoThirdsSignersCount
  BY <1>1 DEF TwoThirdsSignersCount
<1>3. TwoThirdsSignersCount \in Nat
  BY <1>1 DEF TwoThirdsSignersCount
<1>4. Cardinality({}) = 0
  BY FS_EmptySet, Zenon
<1> HIDE DEF n
<1>5. ASSUME NEW box, Voted(box) = {} PROVE ~IsQuorumAchieved(box)
  BY <1>2, <1>3, <1>4, <1>5 DEF IsQuorumAchieved, SignersCount
<1>6. ASSUME NEW box, IsAllSigsCollected(box) PROVE IsQuorumAchieved(box)
  BY <1>2, <1>6, Zenon DEF IsQuorumAchieved, IsAllSigsCollected, n
<1> QED
  BY <1>5, <1>6, Zenon

\* More votes stay a quorum.
LEMMA QuorumGrows ==
  ASSUME NEW box, NEW new, Voted(box) \subseteq Voted(new), IsQuorumAchieved(box)
  PROVE  IsQuorumAchieved(new)
<1>1. Voted(new) \subseteq Keys /\ IsFiniteSet(Keys)
  BY KeysAssumption, Zenon DEF Voted
<1>2. IsFiniteSet(Voted(new))
  BY <1>1, FS_Subset, Zenon
<1>3. Cardinality(Voted(box)) <= Cardinality(Voted(new))
  BY <1>2, FS_Subset, Zenon
<1>4. Cardinality(Voted(box)) \in Nat /\ Cardinality(Voted(new)) \in Nat
  BY <1>2, FS_Subset, FS_CardinalityType, Zenon
<1>5. TwoThirdsSignersCount \in Nat
  <2>1. Cardinality(Keys) \in Nat
    BY <1>1, FS_CardinalityType, Zenon
  <2> QED
    BY <2>1 DEF TwoThirdsSignersCount
<1> QED
  BY <1>3, <1>4, <1>5 DEF IsQuorumAchieved, SignersCount

\* While announce is at work nobody has voted to commit and no thread can reset the
\* round.
LEMMA LiveFacts ==
  ASSUME TypeOK, AnnounceInv, CommitInv, Live
  PROVE  /\ Open /\ block = main.blk /\ blockHash = main.blk.hash /\ blockNum = block.num
         /\ blockHash \notin Announced
         /\ Voted(commit) = {} /\ commitBitmap = {} /\ ~IsQuorumAchieved(commit)
         /\ final.pc = "none" /\ grace = 0 /\ pre = {}
         /\ ready = {} /\ proposer = "idle" /\ blockChannel = {}
<1>1. Open /\ block = main.blk /\ blockHash = main.blk.hash /\ blockNum = block.num
  BY Zenon DEF CommitInv, Token, RoundShape, Open
<1>2. blockHash \notin Announced
  BY <1>1, Zenon DEF AnnounceInv, Fresh, Live
<1>3. Voted(commit) = {} /\ commitBitmap = {}
  BY <1>2, Zenon DEF CommitInv, CommitVotes
<1>4. ~IsQuorumAchieved(commit)
  BY <1>3, QuorumBounds, Zenon
<1>5. ~(grace > 0) /\ pre = {} /\ final.pc \notin {"start", "insert", "setup"}
  BY <1>1, <1>4, Zenon DEF CommitInv, Quorums, Open
<1>6. final.pc # "send"
  BY <1>1, Zenon DEF CommitInv, Hands
<1>7. grace = 0 /\ final.pc = "none"
  BY <1>5, <1>6 DEF TypeOK
<1>8. ready = {} /\ proposer = "idle" /\ blockChannel = {}
  BY <1>1, Zenon DEF CommitInv, Token, TypeOK
<1> QED
  BY <1>1, <1>2, <1>3, <1>4, <1>5, <1>7, <1>8, Zenon

------------------------------------------------------------------------------
(* announce.                                                               *)

\* A proposal is taken or dropped.
LEMMA ReceiveProposalCommits ==
  ASSUME TypeOK, AnnounceInv, CommitInv, ReceiveProposal
  PROVE  CommitInv'
<1> USE DEF consensusVars, voteVars, logVars, chainVars, sendVars
<1>1. PICK b \in blockChannel :
        /\ blockChannel' = blockChannel \ {b}
        /\ main' = IF b.num < blockNum THEN Idle ELSE [Idle EXCEPT !.pc = "set", !.blk = b]
  BY Zenon DEF ReceiveProposal
<1>2. main.pc = "idle" /\ blockChannel # {}
  BY Zenon DEF ReceiveProposal
<1>3. UNCHANGED <<blockNum, blockHash, block, prepare, commit, commitBitmap, blocks, head, chain,
                  commitSigs, sent, committedRetry, ready, proposer, minted, final, pre, grace>>
  BY Zenon DEF ReceiveProposal
<1>4. /\ main'.pc \in {"idle", "set"}
      /\ main'.pc = "set" => main'.blk = b
  BY <1>1, Zenon DEF Idle
<1>5. RoundShape'
  BY <1>2, <1>3, <1>4, Zenon DEF CommitInv, RoundShape
<1>6. Announced' = Announced
  BY <1>3, Zenon DEF Announced
<1>7. CommitVotes' /\ Quorums' /\ Hands' /\ Stored'
  <2>1. CommitVotes'
    BY <1>3, <1>6, VotesFrame, Zenon DEF CommitInv
  <2>2. Quorums'
    BY <1>3, <1>6, QuorumsFrame, Zenon DEF CommitInv
  <2>3. Hands'
    BY <1>3, <1>6, HandsFrame, Zenon DEF CommitInv
  <2>4. Stored'
    BY <1>3, <1>6, StoredFrame, Zenon DEF CommitInv
  <2> QED
    BY <2>1, <2>2, <2>3, <2>4, Zenon
<1>8. ChainShape'
  BY <1>3, ChainStays, Zenon DEF CommitInv
<1>9. Messages'
  BY <1>3, <1>4, <1>6, Zenon DEF CommitInv, Messages, Right
<1>11. PreparedSeen'
  BY <1>3, PreparedFrame, Zenon DEF CommitInv
<1>10. Token'
  <2>1. \A c \in blockChannel' : FALSE
    BY <1>1, Zenon DEF CommitInv, Token
  <2>2. /\ ready = {} /\ proposer # "waiting" /\ pre = {} /\ ~WillSignal /\ ~Open /\ Child(b)
    BY <1>1, <1>2, Zenon DEF CommitInv, Token
  <2>3. (WillSignal' <=> WillSignal) /\ (Open' <=> Open) /\ Child(b)'
    BY <1>3, <2>2, Zenon DEF WillSignal, Open, Child
  <2> QED
    BY <1>3, <1>4, <2>1, <2>2, <2>3, Zenon DEF Token, Live, Child
<1> QED
  BY <1>5, <1>7, <1>8, <1>9, <1>10, <1>11, Zenon DEF CommitInv

\* The locked part of announce: with no timer asleep and nobody in finalCommit the
\* round before has been reset.
LEMMA AnnounceSetCommits ==
  ASSUME Prompt, TypeOK, AnnounceInv, CommitInv, AnnounceSet
  PROVE  CommitInv'
<1> USE DEF consensusVars, voteVars, logVars, chainVars, sendVars, proposerVars
<1>1. /\ main.pc = "set" /\ final.pc = "none" /\ grace = 0
      /\ blockHash' = main.blk.hash /\ block' = main.blk
      /\ main' = [main EXCEPT !.pc = "log"]
      /\ UNCHANGED <<blockNum, prepare, commit, commitBitmap, blocks, head, chain, commitSigs,
                     sent, committedRetry, ready, proposer, blockChannel, minted, final, pre, grace>>
  BY Zenon DEF AnnounceSet, MutexFree
<1>2. main'.pc = "log" /\ main'.blk = main.blk
  BY <1>1, Zenon DEF TypeOK
<1>3. block = NoBlock
  BY <1>1 DEF CommitInv, Token, Open, Quorums
<1>4. /\ blockHash = EmptyHash /\ commit = EmptyBox /\ commitBitmap = {} /\ blockNum = head.num + 1
      /\ Voted(commit) = {}
  BY <1>3, Zenon DEF CommitInv, RoundShape, CommitVotes
<1>5. Child(main.blk) /\ 1 < main.blk.hash /\ \A c \in blocks : c.hash # main.blk.hash
  BY <1>1, Zenon DEF CommitInv, Token, AnnounceInv, Fresh
<1>6. main.blk # NoBlock /\ main.blk # head
  BY <1>5, Numbers DEF NoBlock, Child
<1>7. RoundShape'
  BY <1>1, <1>2, <1>4, <1>5, <1>6, Zenon DEF CommitInv, RoundShape, Child
<1>8. Announced' = Announced
  BY <1>1, Zenon DEF Announced
<1>9. CommitVotes'
  BY <1>1, <1>4, Zenon DEF CommitVotes, Coherent, Voted, ReadBallot
<1>10. pre = {} /\ ready = {} /\ proposer # "waiting" /\ blockChannel = {}
  BY <1>1, Zenon DEF CommitInv, Token
<1>11. Quorums'
  BY <1>1, <1>6, <1>10 DEF Quorums
<1>12. Hands'
  BY <1>1, <1>10, Zenon DEF Hands
<1>13. Messages'
  <2>1. ASSUME NEW m, Right(m) PROVE Right(m)'
    <3>1. m.hash # EmptyHash
      BY <2>1 DEF Right, CommitInv, Messages, EmptyHash
    <3> QED
      BY <1>1, <1>4, <1>8, <2>1, <3>1, Zenon DEF Right
  <2> QED
    BY <1>1, <1>2, <1>8, <2>1, Zenon DEF CommitInv, Messages
<1>14. ChainShape' /\ Stored'
  <2>1. ChainShape'
    BY <1>1, ChainStays, Zenon DEF CommitInv
  <2>2. Stored'
    BY <1>1, StoredFrame, Zenon DEF CommitInv
  <2> QED
    BY <2>1, <2>2, Zenon
<1>15. Token'
  BY <1>1, <1>2, <1>6, <1>10, Zenon DEF CommitInv, Token, Live, WillSignal
<1>16. PreparedSeen'
  <2>1. blockHash' \notin Announced'
    BY <1>1, <1>8, Zenon DEF AnnounceInv, Fresh
  <2> QED
    BY <1>13, <2>1, PreparedUnsent, Zenon
<1> QED
  BY <1>7, <1>9, <1>11, <1>12, <1>13, <1>14, <1>15, <1>16, Zenon DEF CommitInv

\* The ANNOUNCE is for the round's block.
LEMMA AnnounceLogCommits ==
  ASSUME TypeOK, AnnounceInv, CommitInv, AnnounceLog
  PROVE  CommitInv'
<1> USE DEF consensusVars, voteVars, logVars, chainVars, sendVars, proposerVars
<1>1. /\ main.pc = "log"
      /\ blocks' = AddBlock(blocks, main.blk)
      /\ main' = [main EXCEPT !.pc = "sign", !.msg = construct("ANNOUNCE", NoPayload)]
      /\ UNCHANGED <<blockNum, blockHash, block, prepare, commit, commitBitmap, head, chain, commitSigs,
                     sent, committedRetry, ready, proposer, blockChannel, minted, final, pre, grace>>
  BY Zenon DEF AnnounceLog
<1>2. main'.pc = "sign" /\ main'.blk = main.blk /\ main'.msg.num = blockNum
  BY <1>1, Zenon DEF TypeOK, construct, Msg
<1>3. Live /\ Live'
  BY <1>1, <1>2, Zenon DEF Live
<1>4. block = main.blk /\ blockHash = main.blk.hash /\ block # NoBlock /\ 1 < block.hash
  BY <1>3, LiveFacts, Zenon DEF CommitInv, RoundShape, Open
<1>5. RoundShape'
  BY <1>1, <1>2, <1>4, Zenon DEF CommitInv, RoundShape, AddBlock
<1>6. Announced' = Announced
  BY <1>1, Zenon DEF Announced
<1>7. CommitVotes' /\ Quorums' /\ Hands' /\ Stored'
  <2>1. CommitVotes'
    BY <1>1, <1>6, VotesFrame, Zenon DEF CommitInv
  <2>2. Quorums'
    BY <1>1, <1>6, QuorumsFrame, Zenon DEF CommitInv
  <2>3. Hands'
    BY <1>1, <1>6, HandsFrame, Zenon DEF CommitInv
  <2>4. Stored'
    BY <1>1, <1>6, StoredFrame, Zenon DEF CommitInv
  <2> QED
    BY <2>1, <2>2, <2>3, <2>4, Zenon
<1>8. ChainShape'
  BY <1>1, ChainStays, Zenon DEF CommitInv
<1>9. Messages'
  BY <1>1, <1>2, <1>6, Zenon DEF CommitInv, Messages, Right
<1>10. Token'
  BY <1>1, <1>2, <1>3, LiveFacts, Zenon DEF CommitInv, Token, WillSignal, Open, Live
<1>11. PreparedSeen'
  BY <1>1, PreparedFrame, Zenon DEF CommitInv
<1> QED
  BY <1>5, <1>7, <1>8, <1>9, <1>10, <1>11, Zenon DEF CommitInv

\* In the loop over the own keys, up to its end or to a refused vote.
LEMMA AnnounceLoopCommits ==
  ASSUME TypeOK, AnnounceInv, CommitInv, main.pc \in {"sign", "vote"},
         main'.pc \in {"idle", "sign", "vote"},
         main'.pc # "idle" => main'.blk = main.blk /\ main'.msg = main.msg,
         UNCHANGED <<blockNum, blockHash, block, commit, commitBitmap, blocks, head, chain, commitSigs,
                     sent, committedRetry, ready, proposer, blockChannel, minted, final, pre, grace>>
  PROVE  CommitInv'
<1>1. Live
  BY Zenon DEF Live
<1>2. RoundShape'
  BY Zenon DEF CommitInv, RoundShape
<1>3. Announced' = Announced
  BY Zenon DEF Announced
<1>4. Quorums' /\ Hands' /\ Stored'
  <2>1. Quorums'
    BY <1>3, QuorumsFrame, Zenon DEF CommitInv
  <2>2. Hands'
    BY <1>3, HandsFrame, Zenon DEF CommitInv
  <2>3. Stored'
    BY <1>3, StoredFrame, Zenon DEF CommitInv
  <2> QED
    BY <2>1, <2>2, <2>3, Zenon
<1>5. CommitVotes'
  <2>1. Voted(commit) = {} /\ Voted(commit)' = {} /\ commitBitmap = {}
    BY <1>1, LiveFacts, Zenon DEF Voted, ReadBallot
  <2> QED
    BY <2>1, Zenon DEF CommitVotes, Coherent, Voted, ReadBallot
<1>6. ChainShape'
  BY ChainStays, Zenon DEF CommitInv
<1>7. Messages'
  BY <1>3, Zenon DEF CommitInv, Messages, Right
<1>8. Token'
  BY <1>1, LiveFacts, Zenon DEF CommitInv, Token, WillSignal, Open, Live
<1>9. PreparedSeen'
  BY <1>1, <1>3, <1>7, LiveFacts, PreparedUnsent, Zenon
<1> QED
  BY <1>2, <1>4, <1>5, <1>6, <1>7, <1>8, <1>9, Zenon DEF CommitInv

\* SetKey of an own key.
LEMMA AnnounceSetKeyCommits ==
  ASSUME TypeOK, AnnounceInv, CommitInv, AnnounceSetKey
  PROVE  CommitInv'
<1> USE DEF consensusVars, voteVars, logVars, chainVars, sendVars, proposerVars
<1>1. main.pc = "sign" /\ main' \in {[main EXCEPT !.pc = "vote"], [main EXCEPT !.i = @ + 1]}
  BY Zenon DEF AnnounceSetKey, NextKey
<1>2. main'.pc \in {"sign", "vote"} /\ main'.blk = main.blk /\ main'.msg = main.msg
  BY <1>1, Zenon DEF TypeOK
<1>3. UNCHANGED <<blockNum, blockHash, block, commit, commitBitmap, blocks, head, chain, commitSigs,
                  sent, committedRetry, ready, proposer, blockChannel, minted, final, pre, grace>>
  BY Zenon DEF AnnounceSetKey
<1> QED
  BY <1>1, <1>2, <1>3, AnnounceLoopCommits, Zenon

\* AddNewVote of an own key.
LEMMA AnnounceVoteCommits ==
  ASSUME TypeOK, AnnounceInv, CommitInv, AnnounceVote
  PROVE  CommitInv'
<1> USE DEF consensusVars, voteVars, logVars, chainVars, sendVars, proposerVars
<1>1. main.pc = "vote" /\ main' \in {Idle, [[main EXCEPT !.i = @ + 1] EXCEPT !.pc = "sign"]}
  BY Zenon DEF AnnounceVote, NextKey
<1>2. /\ main'.pc \in {"idle", "sign"}
      /\ main'.pc # "idle" => main'.blk = main.blk /\ main'.msg = main.msg
  <2>1. CASE main' = Idle
    BY <2>1, Zenon DEF Idle
  <2>2. CASE main' = [[main EXCEPT !.i = @ + 1] EXCEPT !.pc = "sign"]
    BY <2>2, Zenon DEF TypeOK
  <2> QED
    BY <1>1, <2>1, <2>2, Zenon
<1>3. UNCHANGED <<blockNum, blockHash, block, commit, commitBitmap, blocks, head, chain, commitSigs,
                  sent, committedRetry, ready, proposer, blockChannel, minted, final, pre, grace>>
  BY Zenon DEF AnnounceVote
<1> QED
  BY <1>1, <1>2, <1>3, AnnounceLoopCommits, Zenon

\* The ANNOUNCE goes out: the hash is announced from now on.
LEMMA AnnounceSendCommits ==
  ASSUME TypeOK, AnnounceInv, CommitInv, AnnounceSend
  PROVE  CommitInv'
<1> USE DEF consensusVars, voteVars, logVars, chainVars, sendVars, proposerVars
<1>1. /\ main.pc = "sign" /\ main' = Idle /\ sent' = sent \cup {main.msg}
      /\ UNCHANGED <<blockNum, blockHash, block, prepare, commit, commitBitmap, blocks, head, chain,
                     commitSigs, committedRetry, ready, proposer, blockChannel, minted, final, pre, grace>>
  BY Zenon DEF AnnounceSend
<1>2. main'.pc = "idle"
  BY <1>1, Zenon DEF Idle
<1>3. Live
  BY <1>1, Zenon DEF Live
<1>4. /\ main.msg.type = "ANNOUNCE" /\ main.msg.hash = blockHash /\ main.msg.num = blockNum
      /\ 1 < blockHash
  BY <1>1, <1>3, LiveFacts, Zenon DEF CommitInv, Messages, RoundShape, AnnounceInv, InLoop, Open
<1>5. Announced' = Announced \cup {blockHash}
  BY <1>1, <1>4, Zenon DEF Announced
<1>6. RoundShape'
  BY <1>1, <1>2, Zenon DEF CommitInv, RoundShape
<1>7. CommitVotes' /\ Quorums' /\ Hands' /\ Stored'
  <2>1. CommitVotes'
    BY <1>1, <1>5, VotesFrame, Zenon DEF CommitInv
  <2>2. Quorums'
    BY <1>1, <1>5, QuorumsFrame, Zenon DEF CommitInv
  <2>3. Hands'
    BY <1>1, <1>5, HandsFrame, Zenon DEF CommitInv
  <2>4. Stored'
    BY <1>1, <1>5, StoredFrame, Zenon DEF CommitInv
  <2> QED
    BY <2>1, <2>2, <2>3, <2>4, Zenon
<1>8. ChainShape'
  BY <1>1, ChainStays, Zenon DEF CommitInv
<1>9. Messages'
  <2>1. \A m : Right(m) => Right(m)'
    BY <1>1, <1>5, Zenon DEF Right
  <2>2. \A m : m = main.msg => Right(m)'
    BY <1>1, <1>4, <1>5, Zenon DEF Right
  <2>3. \A h \in Announced' : 1 < h
    BY <1>4, <1>5, Zenon DEF CommitInv, Messages
  <2> QED
    BY <1>1, <1>2, <1>4, <2>1, <2>2, <2>3, Zenon DEF CommitInv, Messages
<1>10. Token'
  BY <1>1, <1>2, <1>3, LiveFacts, Zenon DEF CommitInv, Token, WillSignal, Open, Live
<1>11. PreparedSeen'
  BY <1>1, <1>4, PreparedFrame, Zenon DEF CommitInv
<1> QED
  BY <1>6, <1>7, <1>8, <1>9, <1>10, <1>11, Zenon DEF CommitInv

------------------------------------------------------------------------------
(* The handlers.                                                           *)

\* A message about a height of the round is about its block.
LEMMA RightNow ==
  ASSUME TypeOK, CommitInv, NEW m, Right(m), m.num = blockNum
  PROVE  m.hash = blockHash
<1>1. CASE \E c \in chain : c.blk.num = m.num /\ c.blk.hash = m.hash
  <2>1. PICK c \in chain : c.blk.num = blockNum /\ c.blk.hash = m.hash
    BY <1>1, Zenon
  <2>2. c.blk.num <= head.num
    BY Zenon DEF CommitInv, ChainShape
  <2>3. block # NoBlock /\ block = head
    BY <2>1, <2>2, Numbers DEF CommitInv, RoundShape
  <2>4. \E d \in chain : d.blk = head
    BY <2>3, Numbers DEF CommitInv, ChainShape, RoundShape, Genesis
  <2>5. c.blk = head
    BY <2>1, <2>3, <2>4, Zenon DEF CommitInv, ChainShape, RoundShape
  <2> QED
    BY <2>1, <2>3, <2>5, Zenon DEF CommitInv, RoundShape
<1> QED
  BY <1>1, Zenon DEF Right

\* Own commit votes: one ballot for each own key, on the block's hash, in a box that
\* was empty.
LEMMA OwnVotes ==
  ASSUME NEW box, Voted(box) = {}, NEW voting \in SUBSET Keys, NEW hash \in Nat, NEW new,
         new = [k \in Keys |-> IF k \in voting THEN [signers |-> {k}, hash |-> hash] ELSE box[k]]
  PROVE  /\ Voted(new) = voting /\ Coherent(new)
         /\ \A k \in voting : new[k].hash = hash
<1>1. \A k \in voting : /\ new[k] = [signers |-> {k}, hash |-> hash]
                        /\ new[k].hash = hash /\ new[k].signers = {k}
  BY Zenon
<1>2. \A k \in voting : new[k] # NoBallot
  <2>1. \A k \in voting : [signers |-> {k}, hash |-> hash] \in BallotSet
    BY Zenon DEF BallotSet
  <2> QED
    BY <1>1, <2>1, Constants, Zenon
<1>3. Voted(new) = voting
  BY <1>2, Zenon DEF Voted, ReadBallot
<1> QED
  BY <1>1, <1>3 DEF Coherent

\* didReachPrepareQuorum with nobody having voted to commit: no own key is refused.
LEMMA NoneRefused ==
  ASSUME NEW box, Voted(box) = {}
  PROVE  FirstRefused(box) = Len(priKey) + 1
<1> DEFINE L == Len(priKey)
           P(n) == /\ \A i \in 1..(n - 1) : priKey[i] \in Keys => CanSubmit(box, {priKey[i]})
                   /\ n <= L => priKey[n] \in Keys /\ ~CanSubmit(box, {priKey[n]})
<1>1. L \in Nat
  BY Constants, Zenon
<1>2. \A k \in Keys : CanSubmit(box, {k})
  BY Zenon DEF CanSubmit, Voted, ReadBallot
<1>3. P(L + 1)
  BY <1>1, <1>2
<1>4. \A n \in 1..(L + 1) : P(n) => n = L + 1
  BY <1>1, <1>2
<1>5. FirstRefused(box) = CHOOSE n \in 1..(L + 1) : P(n)
  BY Zenon DEF FirstRefused
<1> HIDE DEF P
<1>6. L + 1 \in 1..(L + 1)
  BY <1>1
<1> QED
  BY <1>3, <1>4, <1>5, <1>6, Zenon

\* A signature over the ballots of a quorum, all on one hash, is a proof for it.
LEMMA CommitProof ==
  ASSUME NEW box, NEW bitmap, NEW hash, Coherent(box), bitmap = Voted(box), IsQuorumAchieved(box),
         \A k \in Voted(box) : box[k].hash = hash,
         NEW p \in constructQuorumSigAndBitmap(box, bitmap)
  PROVE  Proof(p, hash) /\ p.bitmap = bitmap
<1>1. PICK a \in AggregateVotes(box) : p = [agg |-> a, bitmap |-> bitmap]
  BY Zenon DEF constructQuorumSigAndBitmap
<1>2. p.bitmap = bitmap /\ p.agg = a
  BY <1>1, Zenon
<1>3. a = ReadAllBallots(box) /\ SignersOf(a) = Voted(box)
  BY AggregateAll, Zenon
<1>4. VerifyHash(p.agg, p.bitmap, hash)
  BY <1>2, <1>3 DEF VerifyHash, ReadAllBallots
<1>5. IsQuorumAchievedByMask(p.bitmap)
  BY <1>2, Zenon DEF IsQuorumAchieved, IsQuorumAchievedByMask, SignersCount
<1> QED
  BY <1>2, <1>4, <1>5, Zenon DEF Proof

\* What construct makes.
LEMMA Constructed ==
  ASSUME NEW type, NEW p
  PROVE  LET m == construct(type, p)
         IN m.type = type /\ m.num = blockNum /\ m.hash = blockHash /\ m.payload = p
BY Zenon DEF construct, Msg

\* onPrepare, the last vote of a quorum included: the own keys vote to commit.
LEMMA OnPrepareCommits ==
  ASSUME TypeOK, AnnounceInv, CommitInv, OnPrepare
  PROVE  CommitInv'
<1> USE DEF consensusVars, voteVars, logVars, chainVars, sendVars, proposerVars
<1>1. PICK v \in Votes("ANNOUNCE") : onPrepare(v)
  BY Zenon DEF OnPrepare
<1>2. /\ final.pc = "none" /\ v.hash = blockHash /\ ~IsQuorumAchieved(prepare)
      /\ UNCHANGED <<blockNum, blockHash, block, blocks, head, chain, commitSigs, ready, proposer,
                     blockChannel, minted, main, final, pre, grace>>
  BY <1>1, Zenon DEF onPrepare, MutexFree
<1>3. blockHash \in Announced
  BY <1>2 DEF Votes, Announced
<1>4. block # NoBlock /\ blockHash = block.hash
  BY <1>3, Zenon DEF AnnounceInv, CommitInv, RoundShape
<1>5. Voted(commit) = {} /\ commitBitmap = {} /\ ~IsQuorumAchieved(commit)
  BY <1>2, QuorumBounds, Zenon DEF CommitInv, CommitVotes
<1>6. grace = 0 /\ pre = {} /\ block # head
  BY <1>2, <1>4, <1>5 DEF CommitInv, Quorums, TypeOK
<1>7. CASE /\ IsQuorumAchieved(prepare') /\ didReachPrepareQuorum(prepare', prepareBitmap')
  <2>1. PICK p \in constructQuorumSigAndBitmap(prepare', prepareBitmap') :
          LET m == construct("PREPARED", p)
              refused == FirstRefused(commit)
              voting == OwnKeys(refused - 1)
          IN /\ msgs' = AddVerifiedMessage(msgs, m)
             /\ IF block = NoBlock
                THEN UNCHANGED <<commit, commitBitmap, sendVars>>
                ELSE /\ commit' = [k \in Keys |->
                                     IF k \in voting
                                     THEN [signers |-> {k}, hash |-> block.hash]
                                     ELSE commit[k]]
                     /\ IF refused <= Len(priKey)
                        THEN /\ commitBitmap' = commitBitmap \cup OwnKeys(refused)
                             /\ UNCHANGED sendVars
                        ELSE /\ commitBitmap' = commitBitmap \cup voting
                             /\ sent' = sent \cup {m}
                             /\ committedRetry' = NoMsg
    BY <1>7, Zenon DEF didReachPrepareQuorum
  <2> DEFINE m == construct("PREPARED", p)
             voting == OwnKeys(Len(priKey))
  <2>2. Len(priKey) \in Nat /\ FirstRefused(commit) = Len(priKey) + 1
    BY <1>5, NoneRefused, Constants, Zenon
  <2>3. /\ commit' = [k \in Keys |-> IF k \in voting THEN [signers |-> {k}, hash |-> block.hash]
                                                     ELSE commit[k]]
        /\ commitBitmap' = voting /\ sent' = sent \cup {m} /\ committedRetry' = NoMsg
    <3>1. FirstRefused(commit) - 1 = Len(priKey) /\ ~(FirstRefused(commit) <= Len(priKey))
      BY <2>2
    <3> QED
      BY <1>4, <1>5, <2>1, <3>1, Zenon
  <2>4. m.type = "PREPARED" /\ m.num = blockNum /\ m.hash = blockHash
    BY Constructed
  <2> HIDE DEF m
  <2>5. Announced' = Announced
    BY <2>3, <2>4, Zenon DEF Announced
  <2>6. voting \subseteq Keys
    BY Zenon DEF OwnKeys
  <2> HIDE DEF voting
  <2>7. CommitVotes'
    <3>1. block.hash \in Nat
      BY Numbers, Zenon
    <3>2. /\ Voted(commit') = voting /\ Coherent(commit')
          /\ \A k \in voting : commit'[k].hash = block.hash
      BY <1>5, <2>3, <2>6, <3>1, OwnVotes
    <3> QED
      BY <1>2, <1>3, <1>4, <1>7, <2>3, <2>5, <3>2, Zenon
      DEF CommitVotes, Voted, Coherent, ReadBallot, IsQuorumAchieved, SignersCount
  <2>8. RoundShape'
    BY <1>2, <1>4, Zenon DEF CommitInv, RoundShape
  <2>9. Quorums'
    BY <1>2, <1>4, <1>6, <2>8 DEF CommitInv, Quorums, RoundShape
  <2>10. Hands' /\ Token' /\ ChainShape'
    <3>1. Hands'
      BY <1>2, <2>5, HandsFrame, Zenon DEF CommitInv
    <3>2. Token'
      BY <1>2, <2>5, TokenFrame, Zenon DEF CommitInv
    <3>3. ChainShape'
      BY <1>2, <2>5, ChainStays, Zenon DEF CommitInv
    <3> QED
      BY <3>1, <3>2, <3>3, Zenon
  <2>11. Messages'
    <3>1. \A n : Right(n) => Right(n)'
      BY <1>2, <2>5, Zenon DEF Right
    <3>2. \A n : n = m => Right(n)'
      BY <1>2, <1>3, <2>4, <2>5, Zenon DEF Right
    <3> QED
      BY <1>2, <2>3, <2>4, <2>5, <3>1, <3>2, Zenon DEF CommitInv, Messages
  <2>12. Stored'
    BY <1>2, <1>5, Zenon DEF CommitInv, Stored
  <2>13. PreparedSeen'
    BY <1>7, Zenon DEF PreparedSeen, IsQuorumAchieved, SignersCount, Voted, ReadBallot
  <2> QED
    BY <2>7, <2>8, <2>9, <2>10, <2>11, <2>12, <2>13, Zenon DEF CommitInv
<1>8. CASE ~IsQuorumAchieved(prepare')
  <2>1. UNCHANGED <<commit, commitBitmap, sent, committedRetry>>
    BY <1>1, <1>8, Zenon DEF onPrepare
  <2>2. Announced' = Announced
    BY <2>1, Zenon DEF Announced
  <2>3. CommitVotes'
    BY <1>5, <2>1, Zenon DEF CommitVotes, Voted, Coherent, ReadBallot
  <2>4. RoundShape' /\ Quorums' /\ Hands' /\ Token' /\ ChainShape' /\ Messages' /\ Stored'
    <3>1. RoundShape'
      BY <1>2, <2>1, <2>2, RoundFrame, Zenon DEF CommitInv
    <3>2. Quorums'
      BY <1>2, <2>1, <2>2, QuorumsFrame, Zenon DEF CommitInv
    <3>3. Hands'
      BY <1>2, <2>1, <2>2, HandsFrame, Zenon DEF CommitInv
    <3>4. Token'
      BY <1>2, <2>1, <2>2, TokenFrame, Zenon DEF CommitInv
    <3>5. ChainShape'
      BY <1>2, <2>1, <2>2, ChainStays, Zenon DEF CommitInv
    <3>6. Messages'
      BY <1>2, <2>1, <2>2, MessagesFrame, Zenon DEF CommitInv
    <3>7. Stored'
      BY <1>2, <2>1, <2>2, StoredFrame, Zenon DEF CommitInv
    <3> QED
      BY <3>1, <3>2, <3>3, <3>4, <3>5, <3>6, <3>7, Zenon
  <2>5. PreparedSeen'
    BY <1>2, <2>1, Zenon DEF CommitInv, PreparedSeen
  <2> QED
    BY <2>3, <2>4, <2>5, Zenon DEF CommitInv
<1> QED
  BY <1>1, <1>7, <1>8, Zenon DEF onPrepare

\* A vote that counts towards the commit quorum is on the round's block.
LEMMA CommitVoteRight ==
  ASSUME TypeOK, AnnounceInv, CommitInv, NEW v \in Votes("PREPARED"), onCommit(v)
  PROVE  /\ final.pc = "none" /\ v.hash = blockHash /\ blockHash \in Announced
         /\ v.signers \subseteq Keys /\ CanSubmit(commit, v.signers)
         /\ block # NoBlock /\ blockHash = block.hash
         /\ IsQuorumAchieved(prepare) /\ ~Live
<1>1. final.pc = "none" /\ v.num = blockNum /\ CanSubmit(commit, v.signers)
  BY Zenon DEF onCommit, MutexFree
<1>2. PICK V \in VoteSets, m \in {n \in sent : n.type = "PREPARED"} :
        v = [signers |-> V, num |-> m.num, hash |-> m.hash]
  BY DEF Votes
<1>3. Right(m)
  BY <1>2, Zenon DEF CommitInv, Messages
<1>4. v.hash = blockHash /\ m.hash = blockHash
  BY <1>1, <1>2, <1>3, RightNow, Zenon
<1>5. blockHash \in Announced
  BY <1>3, <1>4, Zenon DEF Right
<1>6. block # NoBlock /\ blockHash = block.hash
  BY <1>5, Zenon DEF AnnounceInv, CommitInv, RoundShape
<1>7. v.signers \subseteq Keys
  BY <1>2, LeaderAssumption, Zenon
<1>8. IsQuorumAchieved(prepare)
  BY <1>2, <1>4, Zenon DEF CommitInv, PreparedSeen
<1>9. ~Live
  BY <1>5, LiveFacts, Zenon
<1> QED
  BY <1>1, <1>4, <1>5, <1>6, <1>7, <1>8, <1>9, Zenon

\* onCommit, with the quorum reached or not.
LEMMA OnCommitCommits ==
  ASSUME TypeOK, AnnounceInv, CommitInv, OnCommit
  PROVE  CommitInv'
<1> USE DEF consensusVars, voteVars, logVars, chainVars, sendVars, proposerVars
<1>1. PICK v \in Votes("PREPARED") : onCommit(v)
  BY Zenon DEF OnCommit
<1>2. /\ final.pc = "none" /\ v.hash = blockHash /\ blockHash \in Announced
      /\ v.signers \subseteq Keys /\ CanSubmit(commit, v.signers)
      /\ block # NoBlock /\ blockHash = block.hash
      /\ IsQuorumAchieved(prepare) /\ ~Live
  BY <1>1, CommitVoteRight, Zenon
<1>3. UNCHANGED <<blockNum, blockHash, block, prepare, blocks, head, chain, commitSigs, sent,
                  committedRetry, ready, proposer, blockChannel, minted, main>>
  BY <1>1, Zenon DEF onCommit
<1>4. commit' = submitVote(commit, Ballot(v)) /\ commitBitmap' = commitBitmap \cup v.signers
  BY <1>1, Zenon DEF onCommit
<1>5. Announced' = Announced
  BY <1>3, Zenon DEF Announced
<1>6. /\ Coherent(commit') /\ Voted(commit') = Voted(commit) \cup v.signers
      /\ \A k \in Voted(commit') : commit'[k].hash = blockHash
  <2>1. Ballot(v).signers = v.signers /\ Ballot(v).hash = blockHash /\ Ballot(v) # NoBallot
    <3>1. blockHash \in Nat
      BY Numbers, Zenon
    <3>2. Ballot(v) = [signers |-> v.signers, hash |-> blockHash]
      BY <1>2, Zenon DEF Ballot
    <3>3. [signers |-> v.signers, hash |-> blockHash] \in BallotSet
      BY <1>2, <3>1, Zenon DEF BallotSet
    <3>4. Ballot(v).signers = v.signers /\ Ballot(v).hash = blockHash
      BY <3>2
    <3> QED
      BY <3>2, <3>3, <3>4, Constants, Zenon
  <2>2. /\ Coherent(commit') /\ Voted(commit') = Voted(commit) \cup v.signers
    BY <1>2, <1>4, <2>1, SubmitCoherent, Zenon DEF CommitInv, CommitVotes
  <2>3. ASSUME NEW k \in Voted(commit') PROVE commit'[k].hash = blockHash
    <3>1. k \in Keys
      BY Zenon DEF Voted
    <3>2. commit'[k] = IF k \in v.signers THEN Ballot(v) ELSE commit[k]
      BY <1>4, <2>1, <3>1, Zenon DEF submitVote
    <3> QED
      BY <2>1, <2>2, <3>2, Zenon DEF CommitInv, CommitVotes
  <2> QED
    BY <2>2, <2>3, Zenon
<1>7. commitBitmap' = Voted(commit') /\ commitBitmap \subseteq commitBitmap'
  BY <1>4, <1>6, Zenon DEF CommitInv, CommitVotes
<1>8. CommitVotes'
  BY <1>2, <1>3, <1>5, <1>6, <1>7, Zenon
  DEF CommitVotes, Voted, Coherent, ReadBallot, IsQuorumAchieved, SignersCount
<1>9. RoundShape'
  BY <1>2, <1>3, Zenon DEF CommitInv, RoundShape
<1>10. ChainShape' /\ Messages' /\ PreparedSeen'
  <2>1. ChainShape'
    BY <1>3, ChainStays, Zenon DEF CommitInv
  <2>2. Messages'
    BY <1>3, MessagesFrame, Zenon DEF CommitInv
  <2>3. PreparedSeen'
    BY <1>3, PreparedFrame, Zenon DEF CommitInv
  <2> QED
    BY <2>1, <2>2, <2>3, Zenon
<1>11. Stored'
  BY <1>3, <1>7, Zenon DEF CommitInv, Stored
<1>12. block = head => block.num \notin EpochEnds
  BY <1>2, Zenon DEF CommitInv, Quorums
<1>13. IsQuorumAchieved(commit) => IsQuorumAchieved(commit')
  BY <1>6, QuorumGrows, Zenon
<1>14. Quorums' /\ Hands' /\ Token'
  <2>1. CASE IsAllSigsCollected(commit')
    <3>1. final' = [NotRunning EXCEPT !.pc = "start"] /\ UNCHANGED <<pre, grace>>
      BY <1>1, <2>1, Zenon DEF onCommit
    <3>2. final'.pc = "start"
      BY <3>1, Zenon DEF NotRunning
    <3>3. IsQuorumAchieved(commit')
      BY <2>1, QuorumBounds, Zenon
    <3>4. Quorums'
      BY <1>3, <1>12, <3>1, <3>2, <3>3, Zenon DEF CommitInv, Quorums, IsQuorumAchieved, SignersCount, Voted,
         ReadBallot
    <3>5. Hands'
      BY <1>3, <1>5, <3>1, <3>2, Zenon DEF CommitInv, Hands, Open, Carries
    <3>6. Token'
      BY <1>3, <3>1, <3>2, Zenon DEF CommitInv, Token, Open, Live, WillSignal, Child
    <3> QED
      BY <3>4, <3>5, <3>6, Zenon
  <2>2. CASE ~IsAllSigsCollected(commit') /\ ~IsQuorumAchieved(commit) /\ IsQuorumAchieved(commit')
    <3>1. PICK b \in GetBlockByHash(blocks, v.hash) :
            /\ grace' = grace + 1 /\ final' = final
            /\ IF b.num \in EpochEnds THEN UNCHANGED pre
               ELSE preCommitAndPropose(b, commit', commitBitmap')
      BY <1>1, <2>2, Zenon DEF onCommit
    <3>2. b = block
      BY <1>2, Zenon DEF GetBlockByHash, CommitInv, RoundShape
    <3>3. grace = 0 /\ pre = {} /\ block # head
      <4>1. Quorums /\ block # NoBlock
        BY <1>2, Zenon DEF CommitInv
      <4>2. ~(grace > 0) /\ pre = {} /\ final.pc \notin {"start", "insert", "setup"}
        BY <2>2, <4>1, Zenon DEF Quorums
      <4>3. grace = 0
        BY <4>2, Numbers
      <4>4. block # head
        BY <4>1, <4>2, Zenon DEF Quorums
      <4> QED
        BY <4>2, <4>3, <4>4, Zenon
    <3>4. grace' = 1 /\ grace' > 0
      BY <3>1, <3>3
    <3>5. ASSUME NEW g \in pre'
          PROVE  /\ pre' = {g} /\ g.pc = "log" /\ g.blk = block /\ Carries(g.msg, block)'
                 /\ block.num \notin EpochEnds
      <4>1. preCommitAndPropose(block, commit', commitBitmap') /\ block.num \notin EpochEnds
        BY <3>1, <3>2, <3>3, Zenon
      <4>2. PICK p \in constructQuorumSigAndBitmap(commit', commitBitmap') :
              pre' = pre \cup {[pc |-> "log", blk |-> block, msg |-> construct("COMMITTED", p)]}
        BY <4>1, Zenon DEF preCommitAndPropose
      <4>3. g.pc = "log" /\ g.blk = block /\ g.msg = construct("COMMITTED", p) /\ pre' = {g}
        BY <3>3, <4>2
      <4>4. Proof(p, blockHash)
        BY <1>6, <1>7, <2>2, CommitProof, Zenon
      <4>5. /\ g.msg.type = "COMMITTED" /\ g.msg.num = blockNum /\ g.msg.hash = blockHash
            /\ g.msg.payload = p
        BY <4>3, Constructed
      <4>6. blockNum = block.num
        BY <1>2, Zenon DEF CommitInv, RoundShape
      <4>7. Carries(g.msg, block)'
        BY <1>2, <1>3, <1>5, <4>4, <4>5, <4>6, Zenon DEF Carries
      <4> QED
        BY <4>1, <4>3, <4>7, Zenon
    <3>6. Quorums'
      BY <1>2, <1>3, <2>2, <3>3, <3>4, Zenon DEF Quorums, IsQuorumAchieved, SignersCount, Voted, ReadBallot
    <3>7. Hands'
      BY <1>2, <1>3, <3>1, <3>3, <3>5, Zenon DEF Hands, Open
    <3>8. Token'
      <4>1. Open /\ Open'
        BY <1>2, <1>3, <3>3, Zenon DEF Open
      <4>2. ready = {} /\ proposer # "waiting" /\ blockChannel = {} /\ main.pc # "set"
        BY <4>1, Zenon DEF CommitInv, Token
      <4>3. ~WillSignal'
        BY <1>2, <3>1, Zenon DEF WillSignal
      <4> QED
        BY <1>2, <1>3, <3>5, <4>2, <4>3, Zenon DEF Token, Live
    <3> QED
      BY <3>6, <3>7, <3>8, Zenon
  <2>3. CASE ~IsAllSigsCollected(commit') /\ (IsQuorumAchieved(commit) \/ ~IsQuorumAchieved(commit'))
    <3>1. UNCHANGED <<pre, grace, final>>
      BY <1>1, <2>3, Zenon DEF onCommit
    <3>2. Quorums'
      <4>1. (block # NoBlock /\ (grace > 0 \/ pre # {} \/ final.pc \in {"start", "insert", "setup"}))
              => IsQuorumAchieved(commit')
        BY <1>13, Zenon DEF CommitInv, Quorums
      <4> QED
        BY <1>3, <3>1, <4>1, Zenon DEF CommitInv, Quorums, IsQuorumAchieved, SignersCount, Voted, ReadBallot
    <3>3. Hands' /\ Token'
      <4>1. Hands'
        BY <1>3, <1>5, <3>1, HandsFrame, Zenon DEF CommitInv
      <4>2. Token'
        BY <1>3, <1>5, <3>1, TokenFrame, Zenon DEF CommitInv
      <4> QED
        BY <4>1, <4>2, Zenon
    <3> QED
      BY <3>2, <3>3, Zenon
  <2> QED
    BY <2>1, <2>2, <2>3, Zenon
<1> QED
  BY <1>8, <1>9, <1>10, <1>11, <1>14, Zenon DEF CommitInv

------------------------------------------------------------------------------
(* preCommitAndPropose's goroutine and the grace timer.                    *)

\* The round's block goes on the chain.
LEMMA BlockInserted ==
  ASSUME TypeOK, AnnounceInv, CommitInv, Open, main.pc # "log", NEW sig, Proof(sig, block.hash),
         head' = block, chain' = chain \cup {[blk |-> block, sig |-> sig]}, minted' = minted
  PROVE  ChainShape'
<1>1. /\ block.num = head.num + 1 /\ block.parent < block.hash /\ block \in blocks
  BY Zenon DEF CommitInv, RoundShape, Open
<1>2. block.hash <= minted
  BY <1>1, Zenon DEF AnnounceInv, Fresh
<1>3. \A c \in chain' : c \in chain \/ (c.blk = block /\ Proof(c.sig, block.hash))
  OBVIOUS
<1>4. \E c \in chain' : c.blk = block
  <2>1. [blk |-> block, sig |-> sig].blk = block
    BY Zenon
  <2> QED
    BY <2>1, Zenon
<1>5. \A c \in chain : /\ c.blk.num <= head.num /\ c.blk.num <= block.num /\ c.blk.num # block.num
                       /\ Proof(c.sig, c.blk.hash)
  <2>1. \A c \in chain : c.blk.num <= head.num /\ Proof(c.sig, c.blk.hash)
    BY Zenon DEF CommitInv, ChainShape
  <2>2. head.num \in Nat /\ block.num = head.num + 1
    BY <1>1, Numbers, Zenon
  <2>3. \A c \in chain : c.blk.num \in Nat
    BY Numbers, Zenon
  <2> QED
    BY <2>1, <2>2, <2>3
<1>6. \A c \in chain' : c.blk.num <= block.num /\ Proof(c.sig, c.blk.hash)
  BY <1>3, <1>5, Numbers
<1>7. \A c, d \in chain' : c.blk.num = d.blk.num => c.blk = d.blk
  BY <1>3, <1>5 DEF CommitInv, ChainShape
<1> QED
  BY <1>1, <1>2, <1>4, <1>6, <1>7, Zenon DEF ChainShape

\* A block with a COMMITTED in hand is the head of the chain: it is in the chain.
LEMMA HeadRight ==
  ASSUME TypeOK, AnnounceInv, CommitInv, NEW m, Carries(m, head)
  PROVE  Right(m)
<1>1. head # Genesis
  BY DEF Carries, CommitInv, Messages, Genesis
<1> QED
  BY <1>1, Zenon DEF CommitInv, ChainShape, Carries, Right

\* The goroutine logs its COMMITTED.
LEMMA PreLogCommits ==
  ASSUME TypeOK, AnnounceInv, CommitInv, PreLog
  PROVE  CommitInv'
<1> USE DEF consensusVars, voteVars, logVars, chainVars, sendVars, proposerVars
<1>1. PICK g \in pre : g.pc = "log" /\ pre' = (pre \ {g}) \cup {[g EXCEPT !.pc = "insert"]}
  BY Zenon DEF PreLog
<1>2. UNCHANGED <<blockNum, blockHash, block, prepare, commit, commitBitmap, blocks, head, chain,
                  commitSigs, sent, committedRetry, ready, proposer, blockChannel, minted, main, final,
                  grace>>
  BY Zenon DEF PreLog
<1> DEFINE h == [g EXCEPT !.pc = "insert"]
<1>3. h.pc = "insert" /\ h.blk = g.blk /\ h.msg = g.msg
  BY Zenon DEF TypeOK
<1>4. pre = {g} /\ pre' = {h}
  BY <1>1, Zenon DEF CommitInv, Token
<1> HIDE DEF h
<1>5. Announced' = Announced
  BY <1>2, Zenon DEF Announced
<1>6. RoundShape' /\ CommitVotes' /\ ChainShape' /\ Messages' /\ PreparedSeen' /\ Stored'
  <2>1. RoundShape'
    BY <1>2, <1>5, RoundFrame, Zenon DEF CommitInv
  <2>2. CommitVotes'
    BY <1>2, <1>5, VotesFrame, Zenon DEF CommitInv
  <2>3. ChainShape'
    BY <1>2, <1>5, ChainStays, Zenon DEF CommitInv
  <2>4. Messages'
    BY <1>2, <1>5, MessagesFrame, Zenon DEF CommitInv
  <2>5. PreparedSeen'
    BY <1>2, <1>5, PreparedFrame, Zenon DEF CommitInv
  <2>6. Stored'
    BY <1>2, <1>5, StoredFrame, Zenon DEF CommitInv
  <2> QED
    BY <2>1, <2>2, <2>3, <2>4, <2>5, <2>6, Zenon
<1>7. Quorums'
  BY <1>1, <1>2, <1>3, <1>4, Zenon DEF CommitInv, Quorums, IsQuorumAchieved, SignersCount, Voted, ReadBallot
<1>8. Hands'
  BY <1>1, <1>2, <1>3, <1>4, <1>5 DEF CommitInv, Hands, Open, Carries
<1>9. Token'
  BY <1>1, <1>2, <1>4, Zenon DEF CommitInv, Token, WillSignal, Open, Live, Child
<1> QED
  BY <1>6, <1>7, <1>8, <1>9, Zenon DEF CommitInv

\* The goroutine inserts the round's block, unless it is in the chain by now.
LEMMA PreInsertCommits ==
  ASSUME TypeOK, AnnounceInv, CommitInv, PreInsert
  PROVE  CommitInv'
<1> USE DEF consensusVars, voteVars, logVars, chainVars, sendVars, proposerVars
<1>1. PICK g \in pre :
        /\ g.pc = "insert"
        /\ IF CanInsert(g.blk)
           THEN /\ InsertChain(g.blk, g.msg.payload)
                /\ pre' = (pre \ {g}) \cup {[g EXCEPT !.pc = "send"]}
           ELSE /\ pre' = pre \ {g}
                /\ UNCHANGED <<head, chain>>
  BY Zenon DEF PreInsert
<1>2. UNCHANGED <<blockNum, blockHash, block, prepare, commit, commitBitmap, blocks, commitSigs, sent,
                  committedRetry, ready, proposer, blockChannel, minted, main, final, grace>>
  BY Zenon DEF PreInsert
<1>3. pre = {g} /\ grace > 0
  BY <1>1, Zenon DEF CommitInv, Token, Quorums
<1>4. Announced' = Announced
  BY <1>2, Zenon DEF Announced
<1>5. CommitVotes' /\ PreparedSeen' /\ Stored'
  <2>1. CommitVotes'
    BY <1>2, <1>4, VotesFrame, Zenon DEF CommitInv
  <2>2. PreparedSeen'
    BY <1>2, <1>4, PreparedFrame, Zenon DEF CommitInv
  <2>3. Stored'
    BY <1>2, <1>4, StoredFrame, Zenon DEF CommitInv
  <2> QED
    BY <2>1, <2>2, <2>3, Zenon
<1>6. ~Live
  BY <1>3, LiveFacts, Zenon
<1>7. CASE Open
  <2>1. /\ g.blk = block /\ block # NoBlock /\ block # head /\ block.parent = head.hash
        /\ Carries(g.msg, block) /\ block.num \notin EpochEnds /\ blockHash = block.hash
    BY <1>3, <1>7, Zenon DEF CommitInv, Hands, RoundShape, Open
  <2> DEFINE h == [g EXCEPT !.pc = "send"]
  <2>2. /\ head' = block /\ chain' = chain \cup {[blk |-> block, sig |-> g.msg.payload]}
        /\ pre' = {h}
    BY <1>1, <1>3, <2>1, Zenon DEF CanInsert, InsertChain
  <2>3. h.pc = "send" /\ h.blk = g.blk /\ h.msg = g.msg
    BY Zenon DEF TypeOK
  <2> HIDE DEF h
  <2>4. ChainShape'
    BY <1>2, <1>6, <1>7, <2>1, <2>2, BlockInserted, Zenon DEF Carries, Live
  <2>5. RoundShape'
    BY <1>2, <2>1, <2>2, Zenon DEF CommitInv, RoundShape
  <2>6. Quorums'
    BY <1>2, <1>3, <2>1, <2>2, <2>3, Zenon
    DEF CommitInv, Quorums, IsQuorumAchieved, SignersCount, Voted, ReadBallot
  <2>7. final.pc \notin {"setup", "send"}
    BY <1>7, <2>1, Zenon DEF CommitInv, Hands
  <2>8. Hands'
    BY <1>2, <1>3, <1>4, <2>1, <2>2, <2>3, <2>7 DEF CommitInv, Hands, Open, Carries
  <2>9. Messages'
    <3>1. \A m : Right(m) => Right(m)'
      BY <1>2, <1>4, <2>2, Zenon DEF Right
    <3> QED
      BY <1>2, <1>4, <3>1, Zenon DEF CommitInv, Messages
  <2>10. Token'
    <3>1. ready = {} /\ proposer # "waiting" /\ blockChannel = {} /\ main.pc # "set"
      BY <1>7, Zenon DEF CommitInv, Token
    <3> QED
      BY <1>2, <1>6, <2>2, <2>7, <3>1, Zenon DEF Token, WillSignal, Live
  <2> QED
    BY <1>5, <2>4, <2>5, <2>6, <2>8, <2>9, <2>10, Zenon DEF CommitInv
<1>8. CASE ~Open
  <2>1. g.blk = head
    BY <1>3, <1>8, Zenon DEF CommitInv, Hands
  <2>2. ~CanInsert(g.blk)
    BY <2>1, Numbers DEF CommitInv, ChainShape, CanInsert
  <2>3. pre' = {} /\ UNCHANGED <<head, chain>>
    BY <1>1, <1>3, <2>2, Zenon
  <2>4. RoundShape' /\ ChainShape' /\ Messages'
    <3>1. RoundShape'
      BY <1>2, <2>3, RoundFrame, Zenon DEF CommitInv
    <3>2. ChainShape'
      BY <1>2, <2>3, ChainStays, Zenon DEF CommitInv
    <3>3. Messages'
      BY <1>2, <2>3, MessagesFrame, Zenon DEF CommitInv
    <3> QED
      BY <3>1, <3>2, <3>3
  <2>5. Quorums'
    BY <1>2, <2>3, Zenon DEF CommitInv, Quorums, IsQuorumAchieved, SignersCount, Voted, ReadBallot
  <2>6. Hands'
    BY <1>2, <1>4, <2>3, Zenon DEF CommitInv, Hands, Open, Carries
  <2>7. Token'
    BY <1>2, <2>3, Zenon DEF CommitInv, Token, WillSignal, Open, Live, Child
  <2> QED
    BY <1>5, <2>4, <2>5, <2>6, <2>7, Zenon DEF CommitInv
<1> QED
  BY <1>7, <1>8, Zenon

\* COMMITTED goes out, and the token to the proposer.
LEMMA PreSendCommits ==
  ASSUME TypeOK, AnnounceInv, CommitInv, PreSend
  PROVE  CommitInv'
<1> USE DEF consensusVars, voteVars, logVars, chainVars, sendVars, proposerVars
<1>1. PICK g \in pre :
        /\ g.pc = "send" /\ sent' = sent \cup {g.msg} /\ committedRetry' = g.msg
        /\ ready' = ready \cup {[kind |-> "Async", num |-> g.blk.num]}
        /\ pre' = pre \ {g}
  BY Zenon DEF PreSend
<1>2. UNCHANGED <<blockNum, blockHash, block, prepare, commit, commitBitmap, blocks, head, chain,
                  commitSigs, proposer, blockChannel, minted, main, final, grace>>
  BY Zenon DEF PreSend
<1>3. pre = {g} /\ pre' = {} /\ ready = {} /\ proposer # "waiting" /\ blockChannel = {}
      /\ main.pc # "set" /\ ~WillSignal
  BY <1>1, Zenon DEF CommitInv, Token
<1>4. ~Open /\ g.blk = head /\ Carries(g.msg, head)
  BY <1>1, Zenon DEF CommitInv, Hands
<1>5. ~Live
  BY <1>3, LiveFacts, Zenon
<1>6. Right(g.msg) /\ g.msg.type = "COMMITTED" /\ Proof(g.msg.payload, g.msg.hash)
  BY <1>4, HeadRight, Zenon DEF Carries
<1>7. Announced' = Announced
  BY <1>1, <1>6, Zenon DEF Announced
<1>8. RoundShape' /\ CommitVotes' /\ ChainShape' /\ PreparedSeen' /\ Stored'
  <2>1. RoundShape'
    BY <1>1, <1>2, <1>6, <1>7, RoundFrame, Zenon DEF CommitInv
  <2>2. CommitVotes'
    BY <1>1, <1>2, <1>6, <1>7, VotesFrame, Zenon DEF CommitInv
  <2>3. ChainShape'
    BY <1>1, <1>2, <1>6, <1>7, ChainStays, Zenon DEF CommitInv
  <2>4. PreparedSeen'
    BY <1>1, <1>2, <1>6, <1>7, PreparedFrame, Zenon DEF CommitInv
  <2>5. Stored'
    BY <1>1, <1>2, <1>6, <1>7, StoredFrame, Zenon DEF CommitInv
  <2> QED
    BY <2>1, <2>2, <2>3, <2>4, <2>5, Zenon
<1>9. Quorums'
  BY <1>2, <1>3, Zenon DEF CommitInv, Quorums, IsQuorumAchieved, SignersCount, Voted, ReadBallot
<1>10. Hands'
  BY <1>2, <1>3, <1>7, Zenon DEF CommitInv, Hands, Open, Carries
<1>11. Messages'
  <2>1. \A m : Right(m) => Right(m)'
    BY <1>2, <1>7, Zenon DEF Right
  <2> QED
    BY <1>1, <1>2, <1>6, <1>7, <2>1, Zenon DEF CommitInv, Messages
<1>12. Token'
  <2>1. main.pc = "idle" /\ proposer = "idle"
    BY <1>3, <1>5, Zenon DEF TypeOK, Live
  <2> QED
    BY <1>1, <1>2, <1>3, <1>4, <2>1, Zenon DEF Token, WillSignal, Open, Live
<1> QED
  BY <1>8, <1>9, <1>10, <1>11, <1>12, Zenon DEF CommitInv

\* A prompt timer finds the goroutine past its insertion.
LEMMA GraceFireCommits ==
  ASSUME Prompt, TypeOK, AnnounceInv, CommitInv, GraceFire
  PROVE  CommitInv'
<1> USE DEF consensusVars, voteVars, logVars, chainVars, sendVars, proposerVars
<1>1. /\ grace > 0 /\ final.pc = "none" /\ \A g \in pre : g.pc = "send"
      /\ final' = [NotRunning EXCEPT !.pc = "start"]
      /\ UNCHANGED <<blockNum, blockHash, block, prepare, commit, commitBitmap, blocks, head, chain,
                     commitSigs, sent, committedRetry, ready, proposer, blockChannel, minted, main, pre>>
  BY Zenon DEF GraceFire, MutexFree
<1>2. final'.pc = "start"
  BY <1>1, Zenon DEF NotRunning
<1>3. Announced' = Announced
  BY <1>1, Zenon DEF Announced
<1>4. RoundShape' /\ CommitVotes' /\ ChainShape' /\ Messages' /\ PreparedSeen' /\ Stored'
  <2>1. RoundShape'
    BY <1>1, <1>3, RoundFrame, Zenon DEF CommitInv
  <2>2. CommitVotes'
    BY <1>1, <1>3, VotesFrame, Zenon DEF CommitInv
  <2>3. ChainShape'
    BY <1>1, <1>3, ChainStays, Zenon DEF CommitInv
  <2>4. Messages'
    BY <1>1, <1>3, MessagesFrame, Zenon DEF CommitInv
  <2>5. PreparedSeen'
    BY <1>1, <1>3, PreparedFrame, Zenon DEF CommitInv
  <2>6. Stored'
    BY <1>1, <1>3, StoredFrame, Zenon DEF CommitInv
  <2> QED
    BY <2>1, <2>2, <2>3, <2>4, <2>5, <2>6, Zenon
<1>5. Quorums'
  BY <1>1, <1>2, Zenon DEF CommitInv, Quorums, IsQuorumAchieved, SignersCount, Voted, ReadBallot
<1>6. Hands'
  BY <1>1, <1>2, <1>3, Zenon DEF CommitInv, Hands, Open, Carries
<1>7. Token'
  BY <1>1, <1>2, Zenon DEF CommitInv, Token, WillSignal, Open, Live, Child
<1> QED
  BY <1>4, <1>5, <1>6, <1>7, Zenon DEF CommitInv

------------------------------------------------------------------------------
(* finalCommit.                                                            *)

\* finalCommit finds the round's block, or no round.
LEMMA FinalStartCommits ==
  ASSUME TypeOK, AnnounceInv, CommitInv, FinalStart
  PROVE  CommitInv'
<1> USE DEF consensusVars, voteVars, logVars, chainVars, sendVars, proposerVars
<1>1. PICK p \in constructQuorumSigAndBitmap(commit, commitBitmap) :
        IF GetBlockByHash(blocks, blockHash) = {}
        THEN final' = NotRunning /\ UNCHANGED commitSigs
        ELSE \E b \in GetBlockByHash(blocks, blockHash) :
               /\ commitSigs' = [commitSigs EXCEPT ![b.num] = p]
               /\ final' = [pc |-> IF head.num < b.num THEN "insert" ELSE "setup",
                            blk |-> b, msg |-> construct("COMMITTED", p)]
  BY Zenon DEF FinalStart
<1>2. /\ final.pc = "start"
      /\ UNCHANGED <<blockNum, blockHash, block, prepare, commit, commitBitmap, blocks, head, chain,
                     sent, committedRetry, ready, proposer, blockChannel, minted, main, pre, grace>>
  BY Zenon DEF FinalStart
<1>3. Announced' = Announced
  BY <1>2, Zenon DEF Announced
<1>4. RoundShape' /\ CommitVotes' /\ ChainShape' /\ Messages' /\ PreparedSeen'
  <2>1. RoundShape'
    BY <1>2, <1>3, RoundFrame, Zenon DEF CommitInv
  <2>2. CommitVotes'
    BY <1>2, <1>3, VotesFrame, Zenon DEF CommitInv
  <2>3. ChainShape'
    BY <1>2, <1>3, ChainStays, Zenon DEF CommitInv
  <2>4. Messages'
    BY <1>2, <1>3, MessagesFrame, Zenon DEF CommitInv
  <2>5. PreparedSeen'
    BY <1>2, <1>3, PreparedFrame, Zenon DEF CommitInv
  <2> QED
    BY <2>1, <2>2, <2>3, <2>4, <2>5, Zenon
<1>5. CASE block = NoBlock
  <2>1. GetBlockByHash(blocks, blockHash) = {}
    <3>1. blockHash = EmptyHash /\ \A c \in blocks : 1 < c.hash
      BY <1>5, Zenon DEF CommitInv, RoundShape
    <3>2. \A c \in blocks : c.hash # blockHash
      BY <3>1 DEF EmptyHash
    <3> QED
      BY <3>2, Zenon DEF GetBlockByHash
  <2>2. final'.pc = "none" /\ UNCHANGED commitSigs
    <3>1. final' = NotRunning /\ UNCHANGED commitSigs
      BY <1>1, <2>1, Zenon
    <3> QED
      BY <3>1, Zenon DEF NotRunning
  <2>3. Quorums'
    BY <1>2, <1>5, <2>2, Zenon DEF CommitInv, Quorums
  <2>4. Hands'
    BY <1>2, <1>3, <2>2, Zenon DEF CommitInv, Hands, Open, Carries
  <2>5. Token'
    BY <1>2, <2>2, Zenon DEF CommitInv, Token, WillSignal, Open, Live, Child
  <2>6. Stored'
    BY <1>2, <2>2, StoredFrame, Zenon DEF CommitInv
  <2> QED
    BY <1>4, <2>3, <2>4, <2>5, <2>6, Zenon DEF CommitInv
<1>6. CASE block # NoBlock
  <2>1. IsQuorumAchieved(commit)
    BY <1>2, <1>6, Zenon DEF CommitInv, Quorums
  <2>2. ~Live
    BY <1>2, LiveFacts, Zenon
  <2>3. /\ blockHash = block.hash /\ blockNum = block.num /\ block \in blocks
        /\ block # head => block.num = head.num + 1
    BY <1>6, <2>2, Zenon DEF CommitInv, RoundShape, Live
  <2>4. GetBlockByHash(blocks, blockHash) = {block}
    BY <2>3, Zenon DEF CommitInv, RoundShape, GetBlockByHash
  <2>5. /\ commitSigs' = [commitSigs EXCEPT ![block.num] = p]
        /\ final' = [pc |-> IF head.num < block.num THEN "insert" ELSE "setup",
                     blk |-> block, msg |-> construct("COMMITTED", p)]
    BY <1>1, <2>4, Zenon
  <2>6. final'.pc = (IF Open THEN "insert" ELSE "setup") /\ final'.blk = block
        /\ final'.msg = construct("COMMITTED", p)
    <3>0. head.num \in Nat /\ block.num \in Nat
      BY Numbers, Zenon
    <3>1. head.num < block.num <=> Open
      <4>1. CASE block = head
        BY <3>0, <4>1 DEF Open
      <4>2. CASE block # head
        <5>1. block.num = head.num + 1
          BY <1>6, <4>2, Zenon DEF CommitInv, RoundShape
        <5>2. Open
          BY <1>6, <4>2, Zenon DEF Open
        <5> QED
          BY <3>0, <5>1, <5>2
      <4> QED
        BY <4>1, <4>2, Zenon
    <3> QED
      BY <2>5, <3>1, Zenon
  <2>7. Proof(p, blockHash) /\ p.bitmap = commitBitmap
    BY <2>1, CommitProof, Zenon DEF CommitInv, CommitVotes
  <2>8. blockHash \in Announced
    BY <2>1, QuorumBounds, Zenon DEF CommitInv, CommitVotes
  <2>9. Carries(final.msg, final.blk)'
    <3>1. /\ final'.msg.type = "COMMITTED" /\ final'.msg.num = blockNum /\ final'.msg.hash = blockHash
          /\ final'.msg.payload = p
      BY <2>6, Constructed
    <3> QED
      BY <1>3, <2>3, <2>6, <2>7, <2>8, <3>1, Zenon DEF Carries
  <2>10. block = head => block.num \notin EpochEnds
    BY <1>2, <1>6, Zenon DEF CommitInv, Quorums
  <2>11. Quorums'
    BY <1>2, <1>6, <2>1, <2>6, <2>10, Zenon
    DEF CommitInv, Quorums, Open, IsQuorumAchieved, SignersCount, Voted, ReadBallot
  <2>12. Hands'
    <3>1. \A g \in pre : Carries(g.msg, g.blk) => Carries(g.msg, g.blk)'
      BY <1>3, Zenon DEF Carries
    <3> QED
      BY <1>2, <1>6, <2>6, <2>9, <3>1, Zenon DEF CommitInv, Hands, Open
  <2>13. Token'
    <3>1. ~WillSignal'
      BY <1>6, <2>6, <2>10, Zenon DEF WillSignal, Open
    <3> QED
      BY <1>2, <3>1, Zenon DEF CommitInv, Token, Open, Live, Child
  <2>14. Stored'
    BY <1>2, <2>3, <2>5, <2>7, Zenon DEF CommitInv, Stored, TypeOK
  <2> QED
    BY <1>4, <2>11, <2>12, <2>13, <2>14 DEF CommitInv
<1> QED
  BY <1>5, <1>6, Zenon

\* commitBlock inserts the round's block, unless the goroutine has.
LEMMA FinalInsertCommits ==
  ASSUME TypeOK, AnnounceInv, CommitInv, FinalInsert
  PROVE  CommitInv'
<1> USE DEF consensusVars, voteVars, logVars, chainVars, sendVars, proposerVars
<1>1. /\ final.pc = "insert"
      /\ IF CanInsert(final.blk)
         THEN InsertChain(final.blk, final.msg.payload) /\ final' = [final EXCEPT !.pc = "setup"]
         ELSE final' = [final EXCEPT !.pc = "send"] /\ UNCHANGED <<head, chain>>
      /\ UNCHANGED <<blockNum, blockHash, block, prepare, commit, commitBitmap, blocks, commitSigs, sent,
                     committedRetry, ready, proposer, blockChannel, minted, main, pre, grace>>
  BY Zenon DEF FinalInsert
<1>2. Announced' = Announced
  BY <1>1, Zenon DEF Announced
<1>3. CommitVotes' /\ PreparedSeen' /\ Stored'
  <2>1. CommitVotes'
    BY <1>1, <1>2, VotesFrame, Zenon DEF CommitInv
  <2>2. PreparedSeen'
    BY <1>1, <1>2, PreparedFrame, Zenon DEF CommitInv
  <2>3. Stored'
    BY <1>1, <1>2, StoredFrame, Zenon DEF CommitInv
  <2> QED
    BY <2>1, <2>2, <2>3, Zenon
<1>4. ~Live
  BY <1>1, LiveFacts, Zenon
<1>5. block # NoBlock /\ final.blk = block /\ Carries(final.msg, block) /\ blockHash = block.hash
  BY <1>1, Zenon DEF CommitInv, Hands, RoundShape
<1>6. final'.pc \in {"setup", "send"} /\ final'.blk = block /\ final'.msg = final.msg
      /\ (CanInsert(final.blk) => final'.pc = "setup") /\ (~CanInsert(final.blk) => final'.pc = "send")
  BY <1>1, <1>5, Zenon DEF TypeOK
<1>7. CASE Open
  <2>1. block # head /\ block.parent = head.hash
    BY <1>5, <1>7, Zenon DEF CommitInv, RoundShape, Open
  <2>2. /\ head' = block /\ chain' = chain \cup {[blk |-> block, sig |-> final.msg.payload]}
        /\ final'.pc = "setup"
    BY <1>1, <1>5, <1>6, <2>1, Zenon DEF CanInsert, InsertChain
  <2>3. ChainShape'
    BY <1>1, <1>4, <1>5, <1>7, <2>2, BlockInserted, Zenon DEF Carries, Live
  <2>4. RoundShape'
    BY <1>1, <1>5, <2>2, Zenon DEF CommitInv, RoundShape
  <2>5. Quorums'
    BY <1>1, <1>5, <2>2, Zenon DEF CommitInv, Quorums, IsQuorumAchieved, SignersCount, Voted, ReadBallot
  <2>6. \A g \in pre : g.blk = block /\ Carries(g.msg, block) /\ block.num \notin EpochEnds
    BY <1>7, Zenon DEF CommitInv, Hands
  <2>7. Hands'
    BY <1>1, <1>2, <1>5, <1>6, <2>2, <2>6 DEF Hands, Open, Carries
  <2>8. Messages'
    <3>1. \A m : Right(m) => Right(m)'
      BY <1>1, <1>2, <2>2, Zenon DEF Right
    <3> QED
      BY <1>1, <1>2, <3>1, Zenon DEF CommitInv, Messages
  <2>9. Token'
    <3>1. /\ ready = {} /\ proposer # "waiting" /\ blockChannel = {} /\ main.pc # "set"
          /\ \A g, h \in pre : g = h
      BY <1>7, Zenon DEF CommitInv, Token
    <3>2. WillSignal' => pre = {}
      BY <1>6, <2>6, Zenon DEF WillSignal
    <3> QED
      BY <1>1, <1>4, <3>1, <3>2, Zenon DEF Token, Live
  <2> QED
    BY <1>3, <2>3, <2>4, <2>5, <2>7, <2>8, <2>9, Zenon DEF CommitInv
<1>8. CASE ~Open
  <2>1. block = head /\ final'.pc = "send" /\ UNCHANGED <<head, chain>>
    <3>1. block = head
      BY <1>5, <1>8, Zenon DEF Open
    <3>2. ~CanInsert(final.blk)
      <4>1. head.parent < head.hash /\ head.parent \in Nat /\ head.hash \in Nat
        BY Numbers, Zenon DEF CommitInv, ChainShape
      <4>2. final.blk = head
        BY <1>5, <3>1, Zenon
      <4> QED
        BY <4>1, <4>2 DEF CanInsert
    <3> QED
      BY <1>1, <1>6, <3>1, <3>2, Zenon
  <2>2. grace > 0 /\ block.num \notin EpochEnds /\ IsQuorumAchieved(commit)
    BY <1>1, <1>5, <2>1, Zenon DEF CommitInv, Quorums
  <2>3. RoundShape' /\ ChainShape' /\ Messages'
    <3>1. RoundShape'
      BY <1>1, <2>1, RoundFrame, Zenon DEF CommitInv
    <3>2. ChainShape'
      BY <1>1, <2>1, ChainStays, Zenon DEF CommitInv
    <3>3. Messages'
      BY <1>1, <2>1, MessagesFrame, Zenon DEF CommitInv
    <3> QED
      BY <3>1, <3>2, <3>3
  <2>4. Quorums'
    BY <1>1, <2>1, <2>2, Zenon DEF CommitInv, Quorums, IsQuorumAchieved, SignersCount, Voted, ReadBallot
  <2>5. Hands'
    BY <1>1, <1>2, <1>5, <1>6, <1>8, <2>1, Zenon DEF CommitInv, Hands, Open, Carries
  <2>6. Token'
    <3>1. ~WillSignal'
      BY <1>6, <2>2, Zenon DEF WillSignal
    <3> QED
      BY <1>1, <2>1, <3>1, Zenon DEF CommitInv, Token, Open, Live, Child
  <2> QED
    BY <1>3, <2>3, <2>4, <2>5, <2>6, Zenon DEF CommitInv
<1> QED
  BY <1>7, <1>8, Zenon

\* The round is over: its block is the head.
LEMMA FinalSetupCommits ==
  ASSUME TypeOK, AnnounceInv, CommitInv, FinalSetup
  PROVE  CommitInv'
<1> USE DEF consensusVars, voteVars, logVars, chainVars, sendVars, proposerVars
<1>1. /\ final.pc = "setup" /\ final' = [final EXCEPT !.pc = "send"]
      /\ blockNum' = final.blk.num + 1 /\ blockHash' = EmptyHash /\ block' = NoBlock
      /\ blocks' \subseteq blocks /\ prepare' = EmptyBox /\ commit' = EmptyBox /\ commitBitmap' = {}
      /\ UNCHANGED <<head, chain, commitSigs, sent, committedRetry, ready, proposer, blockChannel,
                     minted, main, pre, grace>>
  BY Zenon DEF FinalSetup, SetupForNewConsensus, ResetState, PruneCacheBeforeBlock, DeleteLessThan
<1>2. /\ block # NoBlock /\ final.blk = block /\ block = head /\ ~Open /\ Carries(final.msg, head)
      /\ blockHash = head.hash /\ blockNum = head.num
  BY <1>1, Zenon DEF CommitInv, Hands, RoundShape, Open
<1>3. final'.pc = "send" /\ final'.blk = final.blk /\ final'.msg = final.msg
  BY <1>1, Zenon DEF TypeOK
<1>4. ~Live
  BY <1>1, LiveFacts, Zenon
<1>5. Announced' = Announced
  BY <1>1, Zenon DEF Announced
<1>6. RoundShape'
  BY <1>1, <1>2 DEF CommitInv, RoundShape, EmptyHash
<1>7. Voted(commit') = {}
  BY <1>1, Zenon DEF Voted, ReadBallot, EmptyBox
<1>8. CommitVotes'
  BY <1>1, <1>7, Zenon DEF CommitVotes, Coherent, Voted, ReadBallot
<1>9. Quorums'
  BY <1>1, Zenon DEF CommitInv, Quorums
<1>10. Hands'
  BY <1>1, <1>2, <1>3, <1>5 DEF CommitInv, Hands, Open, Carries
<1>11. Messages'
  <2>1. \E c \in chain : c.blk = head
    <3>1. 1 < head.hash
      BY <1>2, Zenon DEF Carries, CommitInv, Messages
    <3>2. head # Genesis
      BY <3>1 DEF Genesis
    <3> QED
      BY <3>2, Zenon DEF CommitInv, ChainShape
  <2>2. \A m : Right(m) => Right(m)'
    BY <1>1, <1>2, <1>5, <2>1, Zenon DEF Right
  <2> QED
    BY <1>1, <1>4, <1>5, <2>2, Zenon DEF CommitInv, Messages, Live
<1>12. ChainShape'
  BY <1>1, ChainStays, Zenon DEF CommitInv
<1>13. Token'
  <2>1. (WillSignal' <=> WillSignal) /\ ~Open'
    BY <1>1, <1>3, Zenon DEF WillSignal, Open
  <2> QED
    BY <1>1, <1>2, <1>4, <2>1, Zenon DEF CommitInv, Token, Live, Child
<1>14. Stored'
  BY <1>1, <1>2, Numbers DEF CommitInv, Stored
<1>15. PreparedSeen'
  BY <1>1, <1>5, <1>11, PreparedUnsent, Zenon DEF AnnounceInv
<1> QED
  BY <1>6, <1>8, <1>9, <1>10, <1>11, <1>12, <1>13, <1>14, <1>15, Zenon DEF CommitInv

\* finalCommit ends, with the token at the end of an epoch.
LEMMA FinalSendCommits ==
  ASSUME TypeOK, AnnounceInv, CommitInv, FinalSend
  PROVE  CommitInv'
<1> USE DEF consensusVars, voteVars, logVars, chainVars, sendVars, proposerVars
<1>1. /\ final.pc = "send" /\ final' = NotRunning /\ committedRetry' = final.msg
      /\ UNCHANGED <<blockNum, blockHash, block, prepare, commit, commitBitmap, blocks, head, chain,
                     commitSigs, proposer, blockChannel, minted, main, pre, grace>>
  BY Zenon DEF FinalSend
<1>2. \/ /\ final.blk.num \in EpochEnds /\ sent' = sent \cup {final.msg}
         /\ ready' = ready \cup {[kind |-> "Sync", num |-> final.blk.num]}
      \/ UNCHANGED <<sent, ready>>
  BY Zenon DEF FinalSend
<1>3. ~Open /\ final.blk = head /\ Carries(final.msg, head)
  BY <1>1, Zenon DEF CommitInv, Hands
<1>4. Right(final.msg) /\ final.msg.type = "COMMITTED" /\ Proof(final.msg.payload, final.msg.hash)
  BY <1>3, HeadRight, Zenon DEF Carries
<1>5. final'.pc = "none"
  BY <1>1, Zenon DEF NotRunning
<1>6. ~Live
  BY <1>1, LiveFacts, Zenon
<1>7. Announced' = Announced
  BY <1>2, <1>4, Zenon DEF Announced
<1>8. PreparedSeen'
  BY <1>1, <1>2, <1>4, PreparedFrame, Zenon DEF CommitInv
<1>9. RoundShape' /\ CommitVotes' /\ ChainShape' /\ Stored'
  <2>1. RoundShape'
    BY <1>1, <1>7, RoundFrame, Zenon DEF CommitInv
  <2>2. CommitVotes'
    BY <1>1, <1>7, VotesFrame, Zenon DEF CommitInv
  <2>3. ChainShape'
    BY <1>1, <1>7, ChainStays, Zenon DEF CommitInv
  <2>4. Stored'
    BY <1>1, <1>7, StoredFrame, Zenon DEF CommitInv
  <2> QED
    BY <2>1, <2>2, <2>3, <2>4, Zenon
<1>10. Quorums'
  BY <1>1, <1>5, Zenon DEF CommitInv, Quorums, IsQuorumAchieved, SignersCount, Voted, ReadBallot
<1>11. Hands'
  BY <1>1, <1>5, <1>7, Zenon DEF CommitInv, Hands, Open, Carries
<1>12. Messages'
  <2>1. \A m : Right(m) => Right(m)'
    BY <1>1, <1>7, Zenon DEF Right
  <2>2. \A m \in sent' : m \in sent \/ m = final.msg
    BY <1>2, Zenon
  <2> QED
    BY <1>1, <1>4, <1>7, <2>1, <2>2, Zenon DEF CommitInv, Messages
<1>13. Token'
  <2>1. ~WillSignal'
    BY <1>5, Zenon DEF WillSignal
  <2>2. CASE UNCHANGED ready
    BY <1>1, <2>1, <2>2, Zenon DEF CommitInv, Token, Open, Live, Child
  <2>3. CASE /\ final.blk.num \in EpochEnds
             /\ ready' = ready \cup {[kind |-> "Sync", num |-> final.blk.num]}
    <3>1. WillSignal
      BY <1>1, <2>3, Zenon DEF WillSignal
    <3>2. pre = {} /\ ready = {} /\ proposer # "waiting" /\ blockChannel = {} /\ main.pc # "set"
      BY <3>1, Zenon DEF CommitInv, Token
    <3>3. main.pc = "idle" /\ proposer = "idle"
      BY <1>6, <3>2, Zenon DEF TypeOK, Live
    <3> QED
      BY <1>1, <1>3, <2>1, <2>3, <3>2, <3>3, Zenon DEF Token, Open, Live
  <2> QED
    BY <1>2, <2>2, <2>3, Zenon
<1> QED
  BY <1>8, <1>9, <1>10, <1>11, <1>12, <1>13, Zenon DEF CommitInv

------------------------------------------------------------------------------
(* Retry and the proposer.                                                 *)

\* The queued COMMITTED is sent once more.
LEMMA RetryCommits ==
  ASSUME TypeOK, AnnounceInv, CommitInv, RetryCommitted
  PROVE  CommitInv'
<1> USE DEF consensusVars, voteVars, logVars, chainVars, sendVars, proposerVars
<1>1. /\ committedRetry # NoMsg /\ sent' = sent \cup {committedRetry}
      /\ UNCHANGED <<blockNum, blockHash, block, prepare, commit, commitBitmap, blocks, head, chain,
                     commitSigs, committedRetry, ready, proposer, blockChannel, minted, main, final,
                     pre, grace>>
  BY Zenon DEF RetryCommitted
<1>2. committedRetry.type \in {"COMMITTED", "NONE"}
  BY Zenon DEF AnnounceInv, OnlyCommitted
<1>3. Announced' = Announced
  BY <1>1, <1>2, Zenon DEF Announced
<1>4. PreparedSeen'
  BY <1>1, <1>2, PreparedFrame, Zenon DEF CommitInv
<1>5. RoundShape' /\ CommitVotes' /\ Quorums' /\ Hands' /\ ChainShape' /\ Token' /\ Stored'
  <2>1. RoundShape'
    BY <1>1, <1>3, RoundFrame, Zenon DEF CommitInv
  <2>2. CommitVotes'
    BY <1>1, <1>3, VotesFrame, Zenon DEF CommitInv
  <2>3. Quorums'
    BY <1>1, <1>3, QuorumsFrame, Zenon DEF CommitInv
  <2>4. Hands'
    BY <1>1, <1>3, HandsFrame, Zenon DEF CommitInv
  <2>5. ChainShape'
    BY <1>1, <1>3, ChainStays, Zenon DEF CommitInv
  <2>6. Token'
    BY <1>1, <1>3, TokenFrame, Zenon DEF CommitInv
  <2>7. Stored'
    BY <1>1, <1>3, StoredFrame, Zenon DEF CommitInv
  <2> QED
    BY <2>1, <2>2, <2>3, <2>4, <2>5, <2>6, <2>7, Zenon
<1>6. Messages'
  <2>1. \A m : Right(m) => Right(m)'
    BY <1>1, <1>3, Zenon DEF Right
  <2> QED
    BY <1>1, <1>3, <2>1, Zenon DEF CommitInv, Messages
<1> QED
  BY <1>4, <1>5, <1>6, Zenon DEF CommitInv

\* Steps of nothing CommitInv speaks of.
LEMMA OtherCommits ==
  ASSUME TypeOK, CommitInv,
         UNCHANGED <<blockNum, blockHash, block, prepare, commit, commitBitmap, blocks, head, chain,
                     commitSigs, sent, committedRetry, ready, proposer, blockChannel, minted, main,
                     final, pre, grace>>
  PROVE  CommitInv'
<1>1. Announced' = Announced
  BY Zenon DEF Announced
<1>2. minted' \in Nat /\ minted <= minted'
  BY MintedNat
<1>3. RoundShape' /\ CommitVotes' /\ Quorums' /\ Hands'
  <2>1. RoundShape'
    BY <1>1, RoundFrame, Zenon DEF CommitInv
  <2>2. CommitVotes'
    BY <1>1, VotesFrame, Zenon DEF CommitInv
  <2>3. Quorums'
    BY <1>1, QuorumsFrame, Zenon DEF CommitInv
  <2>4. Hands'
    BY <1>1, HandsFrame, Zenon DEF CommitInv
  <2> QED
    BY <2>1, <2>2, <2>3, <2>4, Zenon
<1>4. Messages' /\ ChainShape' /\ Token' /\ Stored' /\ PreparedSeen'
  <2>1. Messages'
    BY <1>2, MessagesFrame, Zenon DEF CommitInv
  <2>2. ChainShape'
    BY <1>2, ChainFrame, Zenon DEF CommitInv
  <2>3. Token'
    BY <1>2, TokenFrame, Zenon DEF CommitInv
  <2>4. Stored'
    BY <1>2, StoredFrame, Zenon DEF CommitInv
  <2>5. PreparedSeen'
    BY <1>2, PreparedFrame, Zenon DEF CommitInv
  <2> QED
    BY <2>1, <2>2, <2>3, <2>4, <2>5, Zenon
<1> QED
  BY <1>3, <1>4, Zenon DEF CommitInv

\* The proposer takes the signal, and has or makes the block that follows the head.
LEMMA ProposerCommits ==
  ASSUME TypeOK, AnnounceInv, CommitInv, ProposerStep
  PROVE  CommitInv'
<1> USE DEF consensusVars, voteVars, logVars, chainVars, sendVars, proposerVars
<1>1. UNCHANGED <<blockNum, blockHash, block, prepare, commit, commitBitmap, blocks, head, chain,
                  commitSigs, sent, committedRetry, main, final, pre, grace>>
  BY Zenon DEF ProposerStep, ProposeSync, ProposeAsync, ReceiveCommitSig
<1>2. Announced' = Announced
  BY <1>1, Zenon DEF Announced
<1>3. minted' \in Nat /\ minted <= minted'
  <2>1. minted' = minted \/ minted' = minted + 1
    BY Zenon DEF ProposerStep, ProposeSync, ProposeAsync, ReceiveCommitSig, Propose
  <2>2. minted \in Nat
    BY MintedNat, Zenon
  <2> QED
    BY <2>1, <2>2
<1>4. RoundShape' /\ CommitVotes' /\ Quorums' /\ Hands' /\ Messages' /\ ChainShape' /\ Stored'
      /\ PreparedSeen'
  <2>1. RoundShape'
    BY <1>1, <1>2, <1>3, RoundFrame, Zenon DEF CommitInv
  <2>2. CommitVotes'
    BY <1>1, <1>2, <1>3, VotesFrame, Zenon DEF CommitInv
  <2>3. Quorums'
    BY <1>1, <1>2, <1>3, QuorumsFrame, Zenon DEF CommitInv
  <2>4. Hands'
    BY <1>1, <1>2, <1>3, HandsFrame, Zenon DEF CommitInv
  <2>5. Messages'
    BY <1>1, <1>2, <1>3, MessagesFrame, Zenon DEF CommitInv
  <2>6. ChainShape'
    BY <1>1, <1>2, <1>3, ChainFrame, Zenon DEF CommitInv
  <2>7. Stored'
    BY <1>1, <1>2, <1>3, StoredFrame, Zenon DEF CommitInv
  <2>8. PreparedSeen'
    BY <1>1, <1>2, <1>3, PreparedFrame, Zenon DEF CommitInv
  <2> QED
    BY <2>1, <2>2, <2>3, <2>4, <2>5, <2>6, <2>7, <2>8, Zenon
<1>5. ready # {} \/ proposer = "waiting"
  BY Zenon DEF ProposerStep, ProposeSync, ProposeAsync, ReceiveCommitSig
<1>6. blockChannel = {} /\ main.pc = "idle" /\ pre = {} /\ ~WillSignal /\ ~Open
  BY <1>5, Zenon DEF CommitInv, Token
<1>7. main'.pc = "idle" /\ pre' = {} /\ ~WillSignal' /\ ~Open'
  BY <1>1, <1>6, Zenon DEF WillSignal, Open
<1>8. Token'
  <2>1. CASE ProposeAsync
    <3>1. proposer' = "waiting" /\ blockChannel' = {} /\ ready' = {}
      BY <1>6, <2>1, Zenon DEF ProposeAsync, CommitInv, Token
    <3> QED
      BY <1>7, <3>1, Zenon DEF Token, Live
  <2>2. CASE ProposeSync \/ ReceiveCommitSig
    <3>1. proposer' = "idle" /\ ready' = {}
      BY <2>2, Zenon DEF ProposeSync, ReceiveCommitSig, CommitInv, Token
    <3>2. PICK h : Propose(h)
      BY <2>2, Zenon DEF ProposeSync, ReceiveCommitSig
    <3> DEFINE b == [num |-> head.num + 1, hash |-> minted + 1, parent |-> head.hash, last |-> h]
    <3>3. blockChannel' = {b}
      BY <1>6, <3>2, Zenon DEF Propose
    <3>4. b.num = head.num + 1 /\ b.parent = head.hash /\ b.hash = minted + 1
      BY Zenon
    <3>5. head.hash < minted + 1
      <4>1. head.hash <= minted
        BY Zenon DEF CommitInv, ChainShape
      <4>2. head.hash \in Nat /\ minted \in Nat
        BY Numbers, Zenon
      <4> QED
        BY <4>1, <4>2
    <3> HIDE DEF b
    <3>6. \A c \in blockChannel' : Child(c)'
      BY <1>1, <3>3, <3>4, <3>5, Zenon DEF Child
    <3> QED
      BY <1>7, <3>1, <3>3, <3>6, Zenon DEF Token, Live
  <2> QED
    BY <2>1, <2>2, Zenon DEF ProposerStep
<1> QED
  BY <1>4, <1>8, Zenon DEF CommitInv

------------------------------------------------------------------------------
(* The theorems.                                                           *)

\* The leader starts with the first signal for the proposer and nothing else.
LEMMA CommitInit == Init => CommitInv
<1> SUFFICES ASSUME Init PROVE CommitInv
  BY Zenon
<1> USE DEF Init
<1>1. Voted(commit) = {} /\ Announced = {}
  BY Zenon DEF Voted, ReadBallot, EmptyBox, Announced
<1>2. main.pc = "idle" /\ final.pc = "none" /\ head.num = 0 /\ head.hash = 1 /\ head.parent = 0
  BY Zenon DEF Idle, NotRunning, Genesis, EmptyHash
<1>3. RoundShape
  BY <1>2 DEF RoundShape
<1>4. CommitVotes
  BY <1>1, Zenon DEF CommitVotes, Coherent
<1>5. Quorums
  BY <1>2, Zenon DEF Quorums
<1>6. Hands
  BY <1>2, Zenon DEF Hands
<1>7. Messages
  BY <1>1, <1>2, Zenon DEF Messages
<1>8. ChainShape
  <2>1. chain = {} /\ head = Genesis /\ minted = 1
    BY Zenon
  <2>2. head.parent < head.hash /\ head.hash <= minted
    BY <1>2, <2>1
  <2> QED
    BY <2>1, <2>2, Zenon DEF ChainShape
<1>9. Token
  BY <1>2, Zenon DEF Token, WillSignal, Open, Live
<1>10. Stored
  BY Zenon DEF Stored, NoPayload
<1>11. PreparedSeen
  BY Zenon DEF PreparedSeen
<1> QED
  BY <1>3, <1>4, <1>5, <1>6, <1>7, <1>8, <1>9, <1>10, <1>11, Zenon DEF CommitInv

\* Every step of a prompt leader keeps CommitInv.
LEMMA CommitStep ==
  ASSUME Prompt, TypeOK, AnnounceInv, CommitInv, [Next]_vars
  PROVE  CommitInv'
<1>1. CASE MainStep
  BY <1>1, ReceiveProposalCommits, AnnounceSetCommits, AnnounceLogCommits, AnnounceSetKeyCommits, Zenon,
     AnnounceVoteCommits, AnnounceSendCommits DEF MainStep
<1>2. CASE PreStep
  BY <1>2, PreLogCommits, PreInsertCommits, PreSendCommits, Zenon DEF PreStep
<1>3. CASE FinalStep
  BY <1>3, FinalStartCommits, FinalInsertCommits, FinalSetupCommits, FinalSendCommits, Zenon DEF FinalStep
<1>4. CASE ProposerStep
  BY <1>4, ProposerCommits, Zenon
<1>5. CASE GraceFire \/ RetryCommitted \/ OnPrepare \/ OnCommit
  BY <1>5, GraceFireCommits, RetryCommits, OnPrepareCommits, OnCommitCommits, Zenon
<1>6. CASE SigSenderTimeout
  BY <1>6, OtherCommits, Zenon DEF SigSenderTimeout, consensusVars, voteVars, logVars, chainVars, sendVars,
     proposerVars
<1>7. CASE UNCHANGED vars
  BY <1>7, OtherCommits, Zenon DEF vars, consensusVars, voteVars, logVars, chainVars, sendVars, proposerVars
<1> QED
  BY <1>1, <1>2, <1>3, <1>4, <1>5, <1>6, <1>7, Zenon DEF Next

\* So CommitInv always holds.
LEMMA CommitAlways == Prompt => (Spec => [](TypeOK /\ AnnounceInv /\ CommitInv))
<1> SUFFICES ASSUME Prompt PROVE Spec => [](TypeOK /\ AnnounceInv /\ CommitInv)
  BY Zenon
<1>1. TypeOK /\ AnnounceInv /\ CommitInv /\ [Next]_vars => CommitInv'
  BY CommitStep, Zenon
<1> QED
  BY <1>1, CommitInit, TypeAndAnnounce, PTL DEF Spec

\* Every message is about the one block of its height.
LEMMA RightAgree ==
  ASSUME TypeOK, AnnounceInv, CommitInv, NEW m, NEW n, Right(m), Right(n), m.num = n.num
  PROVE  m.hash = n.hash
<1>1. CASE m.num = blockNum
  BY <1>1, RightNow, Zenon
<1>2. CASE m.num # blockNum
  BY <1>2, Zenon DEF Right, CommitInv, ChainShape
<1> QED
  BY <1>1, <1>2, Zenon

\* With prompt timers, for every committee, own keys, validators' votes, epoch ends and number
\* of heights: a quorum's signature on the block is behind every COMMITTED the leader sends or
\* queues (preCommitAndPropose, finalCommit) and behind every block it inserts, and it sends
\* for one block per height, the one its chain has there.
THEOREM CommitsSafe == Prompt => (Spec => []CommitsSafely)
<1> SUFFICES ASSUME Prompt PROVE Spec => []CommitsSafely
  BY Zenon
<1>1. TypeOK /\ AnnounceInv /\ CommitInv => CommitsSafely
  <2> SUFFICES ASSUME TypeOK, AnnounceInv, CommitInv PROVE CommitsSafely
    BY Zenon
  <2>1. CommittedHasQuorum
    <3>1. NoMsg.type = "NONE"
      BY Zenon DEF NoMsg, Msg
    <3> QED
      BY <3>1, Zenon DEF CommittedHasQuorum, CommitInv, Messages
  <2>2. InsertedWithQuorum
    BY Zenon DEF InsertedWithQuorum, CommitInv, ChainShape
  <2>3. \A m, n \in sent : m.num = n.num => m.hash = n.hash
    BY RightAgree, Zenon DEF CommitInv, Messages
  <2>4. ASSUME NEW m \in sent, NEW c \in chain, m.num = c.blk.num
        PROVE  m.hash = c.blk.hash
    <3>1. Right(m)
      BY Zenon DEF CommitInv, Messages
    <3>2. CASE \E d \in chain : d.blk.num = m.num /\ d.blk.hash = m.hash
      BY <2>4, <3>2, Zenon DEF CommitInv, ChainShape
    <3>3. CASE m.num = blockNum /\ m.hash = blockHash
      <4>1. c.blk.num = blockNum /\ c.blk.num <= head.num
        BY <2>4, <3>3, Zenon DEF CommitInv, ChainShape
      <4>2. block # NoBlock /\ block = head
        <5>1. head.num \in Nat /\ blockNum <= head.num
          BY <4>1, Numbers, Zenon
        <5>2. blockNum # head.num + 1
          BY <5>1
        <5> QED
          BY <5>2, Zenon DEF CommitInv, RoundShape
      <4>3. head # Genesis
        <5>1. 1 < head.hash
          BY <4>2, Zenon DEF CommitInv, RoundShape
        <5> QED
          BY <5>1 DEF Genesis
      <4>4. c.blk = head
        BY <4>1, <4>2, <4>3, Zenon DEF CommitInv, RoundShape, ChainShape
      <4> QED
        BY <3>3, <4>2, <4>4, Zenon DEF CommitInv, RoundShape
    <3> QED
      BY <3>1, <3>2, <3>3, Zenon DEF Right
  <2> QED
    BY <2>1, <2>2, <2>3, <2>4, Zenon DEF CommitsSafely, OneBlockPerHeight
<1> QED
  BY <1>1, CommitAlways, PTL

\* The only write of a stored commit signature: finalCommit's, for the round's block.
LEMMA SigsStep ==
  ASSUME TypeOK, AnnounceInv, CommitInv, [Next]_vars
  PROVE  \A n \in DOMAIN commitSigs : commitSigs[n].bitmap \subseteq commitSigs'[n].bitmap
<1> USE DEF consensusVars, voteVars, logVars, chainVars, sendVars, proposerVars
<1>1. CASE FinalStart
  <2>1. CASE commitSigs' = commitSigs
    BY <2>1, Zenon
  <2>2. CASE commitSigs' # commitSigs
    <3>1. final.pc = "start"
      BY <1>1, Zenon DEF FinalStart
    <3>2. PICK p \in constructQuorumSigAndBitmap(commit, commitBitmap),
               b \in GetBlockByHash(blocks, blockHash) :
            commitSigs' = [commitSigs EXCEPT ![b.num] = p]
      BY <1>1, <2>2, Zenon DEF FinalStart
    <3>3. b = block /\ 1 < blockHash
      BY Zenon DEF GetBlockByHash, CommitInv, RoundShape
    <3>4. block # NoBlock
      BY <3>3 DEF CommitInv, RoundShape, EmptyHash
    <3>5. IsQuorumAchieved(commit) /\ blockNum = block.num
      BY <3>1, <3>4, Zenon DEF CommitInv, Quorums, RoundShape
    <3>6. p.bitmap = commitBitmap
      BY <3>5, CommitProof, Zenon DEF CommitInv, CommitVotes
    <3>7. commitSigs' = [commitSigs EXCEPT ![blockNum] = p]
      BY <3>2, <3>3, <3>5, Zenon
    <3>8. ASSUME NEW n \in DOMAIN commitSigs PROVE commitSigs[n].bitmap \subseteq commitSigs'[n].bitmap
      <4>1. CASE n = blockNum
        <5>1. n \in 0..MaxBlock
          BY Zenon DEF TypeOK
        <5>2. n >= blockNum
          BY <4>1, Numbers
        <5>4. commitSigs[n].bitmap \subseteq commitBitmap
          BY <4>1, <5>1, <5>2, Zenon DEF CommitInv, Stored
        <5>3. commitSigs'[n] = p
          BY <3>7, <4>1, Zenon
        <5> QED
          BY <3>6, <5>3, <5>4, Zenon
      <4>2. CASE n # blockNum
        BY <3>7, <4>2, Zenon
      <4> QED
        BY <4>1, <4>2, Zenon
    <3> QED
      BY <3>8, Zenon
  <2> QED
    BY <2>1, <2>2, Zenon
<1>2. CASE ~FinalStart
  <2>1. commitSigs' = commitSigs
    BY <1>2, ZenonT(60) DEF Next, MainStep, PreStep, FinalStep, ProposerStep, ReceiveProposal,
         AnnounceSet, AnnounceLog, AnnounceSetKey, AnnounceVote, AnnounceSend, OnPrepare, onPrepare,
         OnCommit, onCommit, PreLog, PreInsert, PreSend, GraceFire, FinalInsert, FinalSetup,
         FinalSend, RetryCommitted, SigSenderTimeout, ProposeSync, ProposeAsync, ReceiveCommitSig,
         vars
  <2> QED
    BY <2>1, Zenon
<1> QED
  BY <1>1, <1>2, Zenon

\* With prompt timers WriteCommitSig never replaces a stored commit signature by one with fewer
\* signers, for every instance.
THEOREM SignaturesGrow == Prompt => (Spec => CommitSigsGrow)
<1> SUFFICES ASSUME Prompt PROVE Spec => CommitSigsGrow
  BY Zenon
<1>1. TypeOK /\ AnnounceInv /\ CommitInv /\ [Next]_vars
        => [\A n \in DOMAIN commitSigs : commitSigs[n].bitmap \subseteq commitSigs'[n].bitmap]_vars
  BY SigsStep, Zenon
<1> QED
  BY <1>1, CommitAlways, PTL DEF Spec, CommitSigsGrow

==============================================================================
