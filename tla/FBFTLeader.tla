----------------------------- MODULE FBFTLeader ------------------------------
(***************************************************************************)
(* The leader of one FBFT round after another (consensus/leader.go,        *)
(* threshold.go, construct.go and the leader half of consensus.go).        *)
(*                                                                         *)
(* Threads of the leader:                                                  *)
(*   main    the loop of Start, inside announce;                           *)
(*   handler onPrepare and onCommit, under consensus.mutex;                *)
(*   final   finalCommit, entered from onCommit or from a grace timer and  *)
(*           run under consensus.mutex;                                    *)
(*   pre     the goroutines of preCommitAndPropose, without the mutex;     *)
(*   grace   the sleeping goroutines of the grace period;                  *)
(*   sigSenders  the goroutines offering a commit signature on             *)
(*           CommitSigChannel.                                             *)
(* The proposer that reads ReadySignal and CommitSigChannel, and the       *)
(* validators whose votes arrive, are not in the repository's leader code: *)
(* they are modelled from the way it uses them.                            *)
(*                                                                         *)
(* A block is [num, hash, parent, last]: last is the height whose commit   *)
(* signature its header carries.  The epoch's committee and the leader key *)
(* stay the same.  consensus.phase is only ever logged and is left out.    *)
(***************************************************************************)
EXTENDS Decider, FBFTLog, Sequences

CONSTANTS
  priKey,     \* the leader's own BLS keys, a sequence (some may be outside Keys)
  VoteSets,   \* the sets of keys that validators sign one message with
  EpochEnds,  \* heights of the blocks with IsLastBlockInEpoch
  Prompt,     \* timing: see AnnounceSet and GraceFire
  MaxBlock    \* bound: no block above this height is proposed

ASSUME LeaderAssumption ==
  /\ Prompt \in BOOLEAN
  /\ MaxBlock \in Nat
  /\ EpochEnds \subseteq Nat
  /\ VoteSets \subseteq SUBSET Keys
  /\ priKey \in Seq({priKey[i] : i \in DOMAIN priKey})
  /\ \E i \in DOMAIN priKey : priKey[i] \in Keys
  /\ NoBallot \notin [signers : SUBSET Keys, hash : Nat]

EmptyHash == 0

Genesis == [num |-> 0, hash |-> 1, parent |-> EmptyHash, last |-> 0]

\* consensus.block of zero length.
NoBlock == [num |-> 0, hash |-> EmptyHash, parent |-> EmptyHash, last |-> 0]

NoPayload == [agg |-> {}, bitmap |-> {}]

Msg(type, num, hash, payload) ==
  [type |-> type, num |-> num, hash |-> hash, payload |-> payload,
   verified |-> TRUE]

NoMsg == Msg("NONE", 0, EmptyHash, NoPayload)

VARIABLES
  blockNum, blockHash, block,           \* the Consensus object
  prepare, commit,                      \* the Decider's ballot boxes
  prepareBitmap, commitBitmap,
  blocks, msgs,                         \* FBFTLog
  head, chain, commitSigs,              \* Blockchain
  main, final, pre, grace, sigSenders,  \* threads
  sent, committedRetry,                 \* MessageSender
  ready, proposer, blockChannel, minted \* the proposer and its channels

consensusVars == <<blockNum, blockHash, block>>
voteVars == <<prepare, commit, prepareBitmap, commitBitmap>>
logVars == <<blocks, msgs>>
chainVars == <<head, chain, commitSigs>>
sendVars == <<sent, committedRetry>>
proposerVars == <<ready, proposer, blockChannel, minted>>
vars == <<consensusVars, voteVars, logVars, chainVars, sendVars, proposerVars,
          main, final, pre, grace, sigSenders>>

Idle == [pc |-> "idle", blk |-> NoBlock, i |-> 1, msg |-> NoMsg]

NotRunning == [pc |-> "none", blk |-> NoBlock, msg |-> NoMsg]

\* Nobody is between Lock and Unlock of consensus.mutex.
MutexFree == final.pc = "none"

Init ==
  /\ blockNum = 1 /\ blockHash = EmptyHash /\ block = NoBlock
  /\ prepare = EmptyBox /\ commit = EmptyBox
  /\ prepareBitmap = {} /\ commitBitmap = {}
  /\ blocks = {} /\ msgs = {}
  /\ head = Genesis
  /\ chain = {}
  /\ commitSigs = [n \in 0..MaxBlock |-> NoPayload]
  /\ main = Idle /\ final = NotRunning
  /\ pre = {} /\ grace = 0 /\ sigSenders = {}
  /\ sent = {} /\ committedRetry = NoMsg
  /\ ready = {[kind |-> "Sync", num |-> 0]}
  /\ proposer = "idle" /\ blockChannel = {} /\ minted = 1

------------------------------------------------------------------------------
\* constructQuorumSigAndBitmap: the aggregate of the ballots, and the bitmap
\* that is kept beside them.
constructQuorumSigAndBitmap(box, bitmap) ==
  {[agg |-> a, bitmap |-> bitmap] : a \in AggregateVotes(box)}

\* construct fills height and hash from the Consensus object.
construct(type, payload) == Msg(type, blockNum, blockHash, payload)

\* InsertChain of one block: writeBlockWithState refuses a block whose parent
\* is not the current head.  sig is the commit signature the caller set on the
\* block (SetCurrentCommitSig).
CanInsert(b) == b.parent = head.hash

InsertChain(b, sig) ==
  /\ head' = b
  /\ chain' = chain \cup {[blk |-> b, sig |-> sig]}

\* Mutant: the prepare bitmap survives the round.
ResetState_KeepsPrepareBitmap ==
  /\ blockHash' = EmptyHash
  /\ block' = NoBlock
  /\ prepare' = EmptyBox
  /\ commit' = EmptyBox
  /\ commitBitmap' = {}
  /\ UNCHANGED prepareBitmap

\* Mutant: the commit bitmap survives the round.
ResetState_KeepsCommitBitmap ==
  /\ blockHash' = EmptyHash
  /\ block' = NoBlock
  /\ prepare' = EmptyBox /\ commit' = EmptyBox
  /\ prepareBitmap' = {}
  /\ UNCHANGED commitBitmap

ResetState ==
  /\ blockHash' = EmptyHash
  /\ block' = NoBlock
  /\ prepare' = EmptyBox
  /\ commit' = EmptyBox
  /\ prepareBitmap' = {}
  /\ commitBitmap' = {}

\* Mutant: the height is the block's own, not the next.
SetupForNewConsensus_SameHeight(b) ==
  /\ blockNum' = b.num
  /\ blocks' = PruneCacheBeforeBlock(blocks, b.num)
  /\ msgs' = PruneCacheBeforeBlock(msgs, b.num)
  /\ ResetState

\* SetupForNewConsensus after block b.
SetupForNewConsensus(b) ==
  /\ blockNum' = b.num + 1
  /\ blocks' = PruneCacheBeforeBlock(blocks, b.num)
  /\ msgs' = PruneCacheBeforeBlock(msgs, b.num)
  /\ ResetState

------------------------------------------------------------------------------
(* The main loop and announce.                                             *)

\* A proposed block arrives; an old one is dropped.
ReceiveProposal ==
  /\ main.pc = "idle"
  /\ \E b \in blockChannel :
       /\ blockChannel' = blockChannel \ {b}
       /\ main' = IF b.num < blockNum THEN Idle
                  ELSE [Idle EXCEPT !.pc = "set", !.blk = b]
  /\ UNCHANGED <<consensusVars, voteVars, logVars, chainVars, sendVars, ready,
                 proposer, minted, final, pre, grace, sigSenders>>

\* After NextBlockDue: the locked part of announce.  A grace timer ends 200 ms
\* before NextBlockDue when quorum came at least 1.2 s before it; Prompt says
\* that it did.
AnnounceSet ==
  /\ main.pc = "set"
  /\ MutexFree
  /\ Prompt => grace = 0
  /\ blockHash' = main.blk.hash
  /\ block' = main.blk
  /\ main' = [main EXCEPT !.pc = "log"]
  /\ UNCHANGED <<blockNum, voteVars, logVars, chainVars, sendVars, proposerVars,
                 final, pre, grace, sigSenders>>

\* construct the ANNOUNCE (from whatever blockHash and blockNum are now), log
\* it and the block.
AnnounceLog ==
  /\ main.pc = "log"
  /\ LET m == construct("ANNOUNCE", NoPayload)
     IN /\ msgs' = AddVerifiedMessage(msgs, m)
        /\ blocks' = AddBlock(blocks, main.blk)
        /\ main' = [main EXCEPT !.pc = "sign", !.msg = m]
  /\ UNCHANGED <<consensusVars, voteVars, chainVars, sendVars, proposerVars,
                 final, pre, grace, sigSenders>>

\* The loop over the own keys goes on with the next one.
NextKey == [main EXCEPT !.i = @ + 1]

\* Mutant: the bit of a key outside the committee is set too.
AnnounceSetKey_AnyKey ==
  /\ main.pc = "sign"
  /\ main.i <= Len(priKey)
  /\ prepareBitmap' = prepareBitmap \cup {priKey[main.i]}
  /\ main' = [main EXCEPT !.pc = "vote"]
  /\ UNCHANGED <<consensusVars, prepare, commit, commitBitmap, logVars, chainVars,
                 sendVars, proposerVars, final, pre, grace, sigSenders>>

\* prepareBitmap.SetKey of the next own key; an error (a key outside the
\* committee) skips the key.
AnnounceSetKey ==
  /\ main.pc = "sign"
  /\ main.i <= Len(priKey)
  /\ IF priKey[main.i] \in Keys
     THEN /\ prepareBitmap' = prepareBitmap \cup {priKey[main.i]}
          /\ main' = [main EXCEPT !.pc = "vote"]
     ELSE /\ main' = NextKey
          /\ UNCHANGED prepareBitmap
  /\ UNCHANGED <<consensusVars, prepare, commit, commitBitmap, logVars, chainVars,
                 sendVars, proposerVars, final, pre, grace, sigSenders>>

\* AddNewVote of that key, signing what consensus.blockHash is now; a refused
\* vote ends announce before anything is sent.
AnnounceVote ==
  /\ main.pc = "vote"
  /\ LET ballot == [signers |-> {priKey[main.i]}, hash |-> blockHash]
     IN IF CanSubmit(prepare, ballot.signers)
        THEN /\ prepare' = submitVote(prepare, ballot)
             /\ main' = [NextKey EXCEPT !.pc = "sign"]
        ELSE /\ main' = Idle
             /\ UNCHANGED prepare
  /\ UNCHANGED <<consensusVars, commit, prepareBitmap, commitBitmap, logVars,
                 chainVars, sendVars, proposerVars, final, pre, grace, sigSenders>>

AnnounceSend ==
  /\ main.pc = "sign"
  /\ main.i > Len(priKey)
  /\ sent' = sent \cup {main.msg}
  /\ main' = Idle
  /\ UNCHANGED <<consensusVars, voteVars, logVars, chainVars, committedRetry,
                 proposerVars, final, pre, grace, sigSenders>>

------------------------------------------------------------------------------
(* The handlers.  A handler that returns early changes nothing, so only    *)
(* the messages that pass every check are steps.                           *)

\* A validator that saw the leader's message of this type signs its hash; the
\* vote may arrive any number of times, at any later moment, or never.
Votes(type) ==
  {[signers |-> V, num |-> m.num, hash |-> m.hash] :
     V \in VoteSets, m \in {n \in sent : n.type = type}}

Ballot(v) == [signers |-> v.signers, hash |-> v.hash]

\* Position of the first own key whose AddNewVote fails in the loop of
\* didReachPrepareQuorum, or one past the end.
FirstRefused(box) ==
  CHOOSE n \in 1..(Len(priKey) + 1) :
    /\ \A i \in 1..(n - 1) : priKey[i] \in Keys => CanSubmit(box, {priKey[i]})
    /\ n <= Len(priKey) => priKey[n] \in Keys /\ ~CanSubmit(box, {priKey[n]})

OwnKeys(n) == {priKey[i] : i \in 1..n} \cap Keys

\* didReachPrepareQuorum, with the ballot box and bitmap onPrepare has just
\* extended.
didReachPrepareQuorum(box, bitmap) ==
  \E p \in constructQuorumSigAndBitmap(box, bitmap) :
    LET m == construct("PREPARED", p)
        refused == FirstRefused(commit)
        voting == OwnKeys(refused - 1)
    IN /\ msgs' = AddVerifiedMessage(msgs, m)
       /\ IF block = NoBlock
          THEN UNCHANGED <<commit, commitBitmap, sendVars>>
          ELSE /\ commit' = [k \in Keys |->
                               IF k \in voting
                               THEN [signers |-> {k}, hash |-> block.hash]
                               ELSE commit[k]]
               /\ IF refused <= Len(priKey)
                  THEN /\ commitBitmap' = commitBitmap \cup OwnKeys(refused)
                       /\ UNCHANGED sendVars
                  ELSE /\ commitBitmap' = commitBitmap \cup voting
                       /\ sent' = sent \cup {m}
                       /\ committedRetry' = NoMsg

\* onPrepare: no check of the message's height; the signature must be on the
\* current blockHash.
onPrepare(v) ==
  /\ MutexFree
  /\ CanSubmit(prepare, v.signers)
  /\ ~IsQuorumAchieved(prepare)
  /\ v.hash = blockHash
  /\ prepare' = submitVote(prepare, Ballot(v))
  /\ prepareBitmap' = prepareBitmap \cup v.signers
  /\ IF IsQuorumAchieved(prepare')
     THEN didReachPrepareQuorum(prepare', prepareBitmap')
     ELSE UNCHANGED <<msgs, commit, commitBitmap, sendVars>>
  /\ UNCHANGED <<consensusVars, blocks, chainVars, proposerVars, main, final, pre,
                 grace, sigSenders>>

OnPrepare == \E v \in Votes("ANNOUNCE") : onPrepare(v)

\* preCommitAndPropose up to the start of its goroutine.
preCommitAndPropose(b, box, bitmap) ==
  \E p \in constructQuorumSigAndBitmap(box, bitmap) :
    pre' = pre \cup {[pc |-> "log", blk |-> b, msg |-> construct("COMMITTED", p)]}

\* couldThisBeADoubleSigner; the evidence checkDoubleSign would send needs a
\* signer with a ballot, and onCommit has returned by then.
couldThisBeADoubleSigner(hash) ==
  \/ ~HasMatchingAnnounce(msgs, blockNum, hash)
  \/ ~HasMatchingPrepared(msgs, blockNum, hash)

onCommit(v) ==
  /\ MutexFree
  /\ v.num = blockNum
  /\ CanSubmit(commit, v.signers)
  /\ ~couldThisBeADoubleSigner(v.hash)
  /\ \E b \in GetBlockByHash(blocks, v.hash) :
       /\ commit' = submitVote(commit, Ballot(v))
       /\ commitBitmap' = commitBitmap \cup v.signers
       /\ IF IsAllSigsCollected(commit')
          THEN /\ final' = [NotRunning EXCEPT !.pc = "start"]
               /\ UNCHANGED <<pre, grace>>
          ELSE /\ IF ~IsQuorumAchieved(commit) /\ IsQuorumAchieved(commit')
                  THEN /\ grace' = grace + 1
                       /\ IF b.num \in EpochEnds
                          THEN UNCHANGED pre
                          ELSE preCommitAndPropose(b, commit', commitBitmap')
                  ELSE UNCHANGED <<pre, grace>>
               /\ UNCHANGED final
  /\ UNCHANGED <<consensusVars, prepare, prepareBitmap, logVars, chainVars,
                 sendVars, proposerVars, main, sigSenders>>

OnCommit == \E v \in Votes("PREPARED") : onCommit(v)

------------------------------------------------------------------------------
(* preCommitAndPropose's goroutine and the grace timer.                    *)

PreLog ==
  /\ \E g \in pre :
       /\ g.pc = "log"
       /\ msgs' = AddVerifiedMessage(msgs, g.msg)
       /\ pre' = (pre \ {g}) \cup {[g EXCEPT !.pc = "insert"]}
  /\ UNCHANGED <<consensusVars, voteVars, blocks, chainVars, sendVars, proposerVars,
                 main, final, grace, sigSenders>>

\* Mutant: the goroutine also stores its bare minimum of signatures.
PreInsert_WritesCommitSig ==
  /\ \E g \in pre :
       /\ g.pc = "insert"
       /\ CanInsert(g.blk)
       /\ InsertChain(g.blk, g.msg.payload)
       /\ commitSigs' = [commitSigs EXCEPT ![g.blk.num] = g.msg.payload]
       /\ pre' = (pre \ {g}) \cup {[g EXCEPT !.pc = "send"]}
  /\ UNCHANGED <<consensusVars, voteVars, logVars, sendVars, proposerVars, main,
                 final, grace, sigSenders>>

\* A failed insertion ends the goroutine.
PreInsert ==
  /\ \E g \in pre :
       /\ g.pc = "insert"
       /\ IF CanInsert(g.blk)
          THEN /\ InsertChain(g.blk, g.msg.payload)
               /\ pre' = (pre \ {g}) \cup {[g EXCEPT !.pc = "send"]}
          ELSE /\ pre' = pre \ {g}
               /\ UNCHANGED <<head, chain>>
  /\ UNCHANGED <<consensusVars, voteVars, logVars, commitSigs, sendVars,
                 proposerVars, main, final, grace, sigSenders>>

PreSend ==
  /\ \E g \in pre :
       /\ g.pc = "send"
       /\ sent' = sent \cup {g.msg}
       /\ committedRetry' = g.msg
       /\ ready' = ready \cup {[kind |-> "Async", num |-> g.blk.num]}
       /\ pre' = pre \ {g}
  /\ UNCHANGED <<consensusVars, voteVars, logVars, chainVars, proposer, blockChannel,
                 minted, main, final, grace, sigSenders>>

\* The grace period ends.  The check viewID == GetCurBlockViewID() always
\* holds, the view never changes.  Prompt says that inserting a block takes
\* less than the grace period (at least one second).
GraceFire ==
  /\ grace > 0
  /\ MutexFree
  /\ Prompt => \A g \in pre : g.pc = "send"
  /\ grace' = grace - 1
  /\ final' = [NotRunning EXCEPT !.pc = "start"]
  /\ UNCHANGED <<consensusVars, voteVars, logVars, chainVars, sendVars,
                 proposerVars, main, pre, sigSenders>>

------------------------------------------------------------------------------
(* finalCommit.                                                            *)

\* Mutant: commitBlock inserts without comparing with the current head.
FinalStart_NoHeadCheck ==
  /\ final.pc = "start"
  /\ \E p \in constructQuorumSigAndBitmap(commit, commitBitmap) :
       \E b \in GetBlockByHash(blocks, blockHash) :
         LET m == construct("COMMITTED", p)
         IN /\ msgs' = AddVerifiedMessage(msgs, m)
            /\ commitSigs' = [commitSigs EXCEPT ![b.num] = p]
            /\ final' = [pc |-> "insert", blk |-> b, msg |-> m]
  /\ UNCHANGED <<consensusVars, voteVars, blocks, head, chain, sendVars, proposerVars,
                 main, pre, grace, sigSenders>>

\* Up to commitBlock's comparison with the current head: construct and log
\* COMMITTED, find the block, overwrite the stored commit signature.
FinalStart ==
  /\ final.pc = "start"
  /\ \E p \in constructQuorumSigAndBitmap(commit, commitBitmap) :
       LET m == construct("COMMITTED", p)
           found == GetBlockByHash(blocks, blockHash)
       IN /\ msgs' = AddVerifiedMessage(msgs, m)
          /\ IF found = {}
             THEN /\ final' = NotRunning
                  /\ UNCHANGED commitSigs
             ELSE \E b \in found :
                    /\ commitSigs' = [commitSigs EXCEPT ![b.num] = p]
                    /\ final' = [pc |-> IF head.num < b.num THEN "insert" ELSE "setup",
                                 blk |-> b, msg |-> m]
  /\ UNCHANGED <<consensusVars, voteVars, blocks, head, chain, sendVars, proposerVars,
                 main, pre, grace, sigSenders>>

\* commitBlock's InsertChain; an error skips SetupForNewConsensus and nothing
\* else of finalCommit.
FinalInsert ==
  /\ final.pc = "insert"
  /\ IF CanInsert(final.blk)
     THEN /\ InsertChain(final.blk, final.msg.payload)
          /\ final' = [final EXCEPT !.pc = "setup"]
     ELSE /\ final' = [final EXCEPT !.pc = "send"]
          /\ UNCHANGED <<head, chain>>
  /\ UNCHANGED <<consensusVars, voteVars, logVars, commitSigs, sendVars,
                 proposerVars, main, pre, grace, sigSenders>>

FinalSetup ==
  /\ final.pc = "setup"
  /\ SetupForNewConsensus(final.blk)
  /\ final' = [final EXCEPT !.pc = "send"]
  /\ UNCHANGED <<chainVars, sendVars, proposerVars, main, pre, grace, sigSenders>>

\* The rest of finalCommit: COMMITTED goes out at once after an epoch's last
\* block and is otherwise only queued for a retry; the proposer gets a signal
\* or a commit signature.
FinalSend ==
  /\ final.pc = "send"
  /\ final' = NotRunning
  /\ committedRetry' = final.msg
  /\ IF final.blk.num \in EpochEnds
     THEN /\ sent' = sent \cup {final.msg}
          /\ ready' = ready \cup {[kind |-> "Sync", num |-> final.blk.num]}
          /\ UNCHANGED sigSenders
     ELSE /\ sigSenders' = sigSenders \cup {[num |-> final.blk.num,
                                             sig |-> final.msg.payload]}
          /\ UNCHANGED <<sent, ready>>
  /\ UNCHANGED <<consensusVars, voteVars, logVars, chainVars, proposer, blockChannel,
                 minted, main, pre, grace>>

\* MessageSender.Retry of the queued COMMITTED.
RetryCommitted ==
  /\ committedRetry \notin sent \cup {NoMsg}
  /\ sent' = sent \cup {committedRetry}
  /\ UNCHANGED <<consensusVars, voteVars, logVars, chainVars, committedRetry,
                 proposerVars, main, final, pre, grace, sigSenders>>

\* CommitSigSenderTimeout: nobody is there to receive, or about to be.
SigSenderTimeout ==
  /\ proposer = "idle"
  /\ pre = {}
  /\ \A r \in ready : r.kind # "Async"
  /\ \E s \in sigSenders : sigSenders' = sigSenders \ {s}
  /\ UNCHANGED <<consensusVars, voteVars, logVars, chainVars, sendVars, proposerVars,
                 main, final, pre, grace>>

------------------------------------------------------------------------------
(* The proposer (external).                                                *)

\* A new block on the current head, carrying the commit signature of height h.
Propose(h) ==
  /\ head.num < MaxBlock
  /\ minted' = minted + 1
  /\ blockChannel' = blockChannel \cup
       {[num |-> head.num + 1, hash |-> minted + 1, parent |-> head.hash,
         last |-> h]}

\* SyncProposal: the parent's signature is read from the database.
ProposeSync ==
  /\ proposer = "idle"
  /\ \E r \in ready :
       /\ r.kind = "Sync"
       /\ ready' = ready \ {r}
  /\ Propose(head.num)
  /\ UNCHANGED <<consensusVars, voteVars, logVars, chainVars, sendVars, proposer,
                 main, final, pre, grace, sigSenders>>

\* AsyncProposal: build the block, then wait on CommitSigChannel.
ProposeAsync ==
  /\ proposer = "idle"
  /\ \E r \in ready :
       /\ r.kind = "Async"
       /\ ready' = ready \ {r}
  /\ proposer' = "waiting"
  /\ UNCHANGED <<consensusVars, voteVars, logVars, chainVars, sendVars, blockChannel,
                 minted, main, final, pre, grace, sigSenders>>

\* The commit signature arrives and the block is finished.
ReceiveCommitSig ==
  /\ proposer = "waiting"
  /\ \E s \in sigSenders :
       /\ sigSenders' = sigSenders \ {s}
       /\ Propose(s.num)
  /\ proposer' = "idle"
  /\ UNCHANGED <<consensusVars, voteVars, logVars, chainVars, sendVars, ready,
                 main, final, pre, grace>>

------------------------------------------------------------------------------
MainStep ==
  \/ ReceiveProposal \/ AnnounceSet \/ AnnounceLog \/ AnnounceSetKey
  \/ AnnounceVote \/ AnnounceSend

PreStep == PreLog \/ PreInsert \/ PreSend

FinalStep == FinalStart \/ FinalInsert \/ FinalSetup \/ FinalSend

ProposerStep == ProposeSync \/ ProposeAsync \/ ReceiveCommitSig

Next ==
  \/ MainStep \/ PreStep \/ FinalStep \/ ProposerStep \/ GraceFire
  \/ RetryCommitted \/ SigSenderTimeout \/ OnPrepare \/ OnCommit

Spec == Init /\ [][Next]_vars

\* The Go scheduler runs every runnable goroutine, timers fire and the
\* proposer keeps reading its channels.  Votes carry no fairness.
FairSpec ==
  /\ Spec
  /\ WF_vars(MainStep) /\ WF_vars(PreStep) /\ WF_vars(FinalStep)
  /\ WF_vars(ProposerStep) /\ WF_vars(GraceFire)

------------------------------------------------------------------------------
(* Properties.                                                             *)

Block == [num : Nat, hash : Nat, parent : Nat, last : Nat]

BallotSet == [signers : SUBSET Keys, hash : Nat]

Payload == [agg : SUBSET BallotSet, bitmap : SUBSET Keys]

Message == [type : {"ANNOUNCE", "PREPARED", "COMMITTED", "NONE"}, num : Nat,
            hash : Nat, payload : Payload, verified : BOOLEAN]

\* Every variable has its type.
TypeOK ==
  /\ blockNum \in Nat /\ blockHash \in Nat /\ block \in Block
  /\ prepare \in [Keys -> BallotSet \cup {NoBallot}]
  /\ commit \in [Keys -> BallotSet \cup {NoBallot}]
  /\ prepareBitmap \subseteq Keys /\ commitBitmap \subseteq Keys
  /\ blocks \subseteq Block /\ msgs \subseteq Message
  /\ head \in Block /\ chain \subseteq [blk : Block, sig : Payload]
  /\ commitSigs \in [0..MaxBlock -> Payload]
  /\ main \in [pc : {"idle", "set", "log", "sign", "vote"}, blk : Block, i : Nat,
               msg : Message]
  /\ final \in [pc : {"none", "start", "insert", "setup", "send"}, blk : Block,
                msg : Message]
  /\ pre \subseteq [pc : {"log", "insert", "send"}, blk : Block, msg : Message]
  /\ grace \in Nat
  /\ sigSenders \subseteq [num : Nat, sig : Payload]
  /\ sent \subseteq Message /\ committedRetry \in Message
  /\ ready \subseteq [kind : {"Sync", "Async"}, num : Nat]
  /\ proposer \in {"idle", "waiting"}
  /\ blockChannel \subseteq Block /\ minted \in Nat

\* A signature and bitmap that a validator would accept for this hash: a
\* quorum of bits, and an aggregate that verifies for exactly those keys.
Proof(payload, hash) ==
  /\ IsQuorumAchievedByMask(payload.bitmap)
  /\ VerifyHash(payload.agg, payload.bitmap, hash)

\* Hashes of the ANNOUNCEs sent.
Announced == {m.hash : m \in {n \in sent : n.type = "ANNOUNCE"}}

\* Bitmap and ballots name the same keys, and all ballots sign blockHash.
Clean ==
  /\ prepareBitmap = Voted(prepare)
  /\ \A k \in Voted(prepare) : prepare[k].hash = blockHash

OwnVoted == Voted(prepare) \cap OwnKeys(Len(priKey)) # {}

\* In announce's loop over the own keys, no reset so far: either the box holds
\* just the own votes up to here, or one of the own keys still to come has
\* already voted, so that announce will return without sending.
LoopState ==
  \/ /\ Voted(prepare) = OwnKeys(main.i - 1)
     /\ prepareBitmap = IF main.pc = "vote" THEN OwnKeys(main.i) ELSE OwnKeys(main.i - 1)
     /\ \A k \in Voted(prepare) : prepare[k].hash = blockHash
  \/ \E j \in main.i..Len(priKey) : priKey[j] \in Voted(prepare)

\* What finalCommit, preCommitAndPropose and the retry have in hand.
OnlyCommitted ==
  \A m \in {committedRetry, final.msg} \cup {g.msg : g \in pre} :
    m.type \in {"COMMITTED", "NONE"}

\* No block is announced twice: hashes still to be announced are new.
Fresh ==
  /\ minted \in Nat /\ minted >= 1
  /\ \A c \in blocks : c.hash <= minted
  /\ \A h \in Announced : h <= minted
  /\ \A b \in blockChannel :
       /\ 1 < b.hash /\ b.hash <= minted
       /\ b.hash \notin Announced
       /\ \A c \in blocks \cup (blockChannel \ {b}) : c.hash # b.hash
       /\ main.pc # "idle" => b.hash # main.blk.hash
  /\ main.pc # "idle" =>
       /\ 1 < main.blk.hash /\ main.blk.hash <= minted
       /\ main.blk.hash \notin Announced
  /\ main.pc \in {"set", "log"} => \A c \in blocks : c.hash # main.blk.hash

\* Before announce's loop: what an earlier round left holds an own vote.
BeforeLoop ==
  main.pc \in {"idle", "set", "log"} =>
    /\ main.i = 1
    /\ (Voted(prepare) = {} /\ prepareBitmap = {}) \/ OwnVoted

\* Between the write of blockHash and the loop no finalCommit resets it.
HashSet ==
  main.pc = "log" => blockHash = main.blk.hash /\ final.pc \in {"none", "start"}

\* In the loop the round is still announce's, or finalCommit has reset it.
InLoop ==
  /\ main.pc = "vote" => main.i <= Len(priKey) /\ priKey[main.i] \in Keys
  /\ main.pc \in {"sign", "vote"} =>
       /\ main.i \in 1..(Len(priKey) + 1)
       /\ main.msg.type = "ANNOUNCE" /\ main.msg.hash = main.blk.hash
       /\ \/ /\ blockHash = EmptyHash
             /\ Voted(prepare) \subseteq OwnKeys(Len(priKey))
             /\ main.pc = "sign" /\ Voted(prepare) = {} => prepareBitmap = {}
          \/ blockHash = main.blk.hash /\ LoopState

\* Why announce may fill bitmap and ballots without the mutex: as long as the
\* hash it announces is not on the wire no handler accepts a vote, and once it
\* is, bitmap and ballots agree.  A finalCommit that resets the round half-way
\* through announce leaves a blockHash nobody announced.
AnnounceInv ==
  /\ Fresh
  /\ OnlyCommitted
  /\ Coherent(prepare)
  /\ EmptyHash \notin Announced
  /\ blockHash \in Announced => Clean /\ OwnVoted
  /\ BeforeLoop
  /\ HashSet
  /\ InLoop

\* Every PREPARED the leader sends passes the checks of onPrepared at any
\* validator, although bitmap and ballots are kept apart and announce fills
\* them without the mutex.
PreparedHasQuorum ==
  \A m \in sent : m.type = "PREPARED" => Proof(m.payload, m.hash)

\* The same for every COMMITTED (from preCommitAndPropose and from
\* finalCommit), sent or queued for a retry.
CommittedHasQuorum ==
  \A m \in sent \cup {committedRetry} :
    m.type = "COMMITTED" => Proof(m.payload, m.hash)

\* "commit the current block with 67% commit signatures": a block the leader
\* writes to its chain was set with a quorum's commit signature on itself.
InsertedWithQuorum == \A c \in chain : Proof(c.sig, c.blk.hash)

\* The leader signs and sends for one block per height, and that block is the
\* one its own chain has at the height.
OneBlockPerHeight ==
  /\ \A m, n \in sent : m.num = n.num => m.hash = n.hash
  /\ \A m \in sent, c \in chain : m.num = c.blk.num => m.hash = c.blk.hash

\* WriteCommitSig ("Overriding commit signatures!!") never replaces a stored
\* commit signature by one with fewer signers.
CommitSigsGrow ==
  [][\A n \in DOMAIN commitSigs :
       commitSigs[n].bitmap \subseteq commitSigs'[n].bitmap]_vars

\* Once the commit votes of a height make a quorum, the leader moves on to the
\* next height, whatever the other validators do: a lost race between the two
\* insertions of the block is repaired by the grace timer.
QuorumAdvances ==
  \A n \in 1..MaxBlock :
    (blockNum = n /\ IsQuorumAchieved(commit)) ~> (blockNum > n)

\* What the leader commits: the quorum it claims is behind every COMMITTED and every
\* inserted block, and a height has one block.
CommitsSafely == TypeOK /\ CommittedHasQuorum /\ InsertedWithQuorum /\ OneBlockPerHeight
==============================================================================
