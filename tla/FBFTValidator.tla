---------------------------- MODULE FBFTValidator ----------------------------
(***************************************************************************)
(* A validator: the handlers onAnnounce, onPrepared and onCommitted        *)
(* (consensus/validator.go, checks.go), tryCatchup and the sync cases of   *)
(* the main loop (consensus.go).                                           *)
(*                                                                         *)
(* Threads: one goroutine per received message, of which onAnnounce checks *)
(* the height before it takes consensus.mutex (announcing); the replay     *)
(* goroutines of onPrepared; tryCatchup, run under the mutex (catchup);    *)
(* the main loop (main); and the state synchronisation that reads          *)
(* BlockNumLowChan and inserts blocks without the mutex (sync, external).  *)
(*                                                                         *)
(* The network loses, repeats and reorders messages: any message of Wire   *)
(* may arrive at any time, any number of times or never.                   *)
(*                                                                         *)
(* A validator writes block, blockHash and its signature masks but only a  *)
(* leader's code reads them, except blockHash in prepare(), where it was   *)
(* set under the same lock; a node that becomes leader starts from the     *)
(* empty ones of UpdateBitmaps and ResetState.  They are left out.         *)
(***************************************************************************)
EXTENDS Decider, FBFTLog, Sequences

CONSTANTS
  Blocks,           \* all blocks that are proposed, records [num, hash, parent]
  Committed,        \* those the committee committed, at most one per height
  Wire,             \* the messages of the leader
  Start, StartSig,  \* the head when the node becomes a validator and, if it was
                    \* the leader of that height, the commit signature it stored
  VerifierAtStart,  \* whether SetBlockVerifier is called before any message
  EpochEnds,        \* heights of the blocks with IsLastBlockInEpoch
  UpdateModes,      \* what UpdateConsensusInformation may return
  MaxBlockNumDiff,  \* how far ahead an ANNOUNCE may be
  MaxSyncs          \* bound: state synchronisations started

Genesis == [num |-> 0, hash |-> 1, parent |-> 0]

NoPayload == [agg |-> {}, bitmap |-> {}]

ASSUME ValidatorAssumption ==
  /\ Blocks \subseteq [num : Nat \ {0}, hash : Nat \ {0, 1}, parent : Nat]
  /\ \A b, c \in Blocks : b.hash = c.hash => b = c
  /\ Committed \subseteq Blocks
  /\ \A b, c \in Committed : b.num = c.num => b = c
  /\ \A b \in Committed : \E c \in Committed \cup {Genesis} :
       c.hash = b.parent /\ c.num = b.num - 1
  /\ Wire \subseteq [type : {"ANNOUNCE", "PREPARED", "COMMITTED"}, num : Nat \ {0},
                     hash : Nat, verified : BOOLEAN,
                     payload : [agg : SUBSET [signers : SUBSET Keys, hash : Nat],
                                bitmap : SUBSET Keys]]
  \* The leader's messages name the height of their block, and a block that a quorum
  \* signed for COMMITTED is committed.
  /\ \A m \in Wire, b \in Blocks :
       /\ m.hash = b.hash => m.num = b.num
       /\ /\ m.type = "COMMITTED"
          /\ IsQuorumAchievedByMask(m.payload.bitmap)
          /\ VerifyHash(m.payload.agg, m.payload.bitmap, b.hash)
          => b \in Committed
  /\ Start \in Committed \cup {Genesis}
  /\ StartSig \in {m.payload : m \in Wire} \cup {NoPayload}
  /\ Start = Genesis => StartSig = NoPayload
  /\ VerifierAtStart \in BOOLEAN
  /\ UpdateModes \subseteq {"Normal", "Syncing", "Listening"}
  /\ MaxBlockNumDiff \in Nat /\ MaxSyncs \in Nat

VARIABLES
  blockNum, mode, verifier,    \* the Consensus object; is BlockVerifier set?
  blocks, verifiedBlocks, msgs, \* FBFTLog
  head, chain, commitSigs,     \* Blockchain
  announcing, replays, catchup, main, \* threads
  sync, syncs, blockNumLow,    \* state synchronisation and BlockNumLowChan
  sent                         \* what the validator sends

logVars == <<blocks, verifiedBlocks, msgs>>
chainVars == <<head, chain, commitSigs>>
syncVars == <<sync, syncs>>
vars == <<blockNum, mode, verifier, logVars, chainVars, announcing, replays, catchup, main,
          syncVars, blockNumLow, sent>>

NotCatching == [pc |-> "none", todo |-> <<>>]

MutexFree == catchup.pc = "none"

\* A former leader still has the last block in its log.
Init ==
  /\ blockNum = Start.num + 1 /\ mode = "Normal" /\ verifier = VerifierAtStart
  /\ blocks = (IF StartSig = NoPayload THEN {} ELSE {Start})
  /\ verifiedBlocks = {} /\ msgs = {}
  /\ head = Start /\ chain = {Start}
  /\ commitSigs = [n \in {b.num : b \in Blocks} |->
                     IF n = Start.num THEN StartSig ELSE NoPayload]
  /\ announcing = {} /\ replays = {}
  /\ catchup = NotCatching
  /\ main = [pc |-> "select", num |-> 0]
  /\ sync = [pc |-> "idle", todo |-> <<>>] /\ syncs = 0
  /\ blockNumLow = FALSE
  /\ sent = {}

------------------------------------------------------------------------------
\* BlockVerifier (external): a block on the current head is valid; what it
\* says of any other block depends on the state it cannot find.
BlockVerifier(b) == IF b.parent = head.hash THEN {TRUE} ELSE BOOLEAN

\* writeBlockWithState accepts a child of the current head only.
CanInsert(b) == b.parent = head.hash

InsertChain(b) == head' = b /\ chain' = chain \cup {b}

\* spinUpStateSync for a message of a height above ours: a send that does not
\* block on a channel of capacity one.
spinUpStateSync(num) ==
  IF num > blockNum /\ ~blockNumLow
  THEN blockNumLow' = TRUE /\ mode' = "Syncing"
  ELSE UNCHANGED <<blockNumLow, mode>>

\* Mutant: only the height that has just been committed.
getLastMileBlocksAndMsg_One(bs, ms, n) ==
  LET at == GetCommittedBlockAndMsgsFromNumber(bs, ms, n)
  IN IF at = {} THEN {<<>>} ELSE {<<p>> : p \in at}

\* getLastMileBlocksAndMsg: for every height from n on, as long as there is
\* one, a block with a verified COMMITTED.
getLastMileBlocksAndMsg(bs, ms, n) ==
  LET At(k) == GetCommittedBlockAndMsgsFromNumber(bs, ms, k)
      length == Cardinality({k \in {b.num : b \in bs} :
                               k >= n /\ \A j \in n..k : At(j) # {}})
  IN {s \in [1..length -> UNION {At(b.num) : b \in bs}] :
        \A i \in 1..length : s[i] \in At(n + i - 1)}

\* The node hands over its block verifier.
SetBlockVerifier ==
  /\ verifier' = TRUE
  /\ UNCHANGED <<blockNum, mode, logVars, chainVars, announcing, replays, catchup, main,
                 syncVars, blockNumLow, sent>>

------------------------------------------------------------------------------
(* onAnnounce.                                                             *)

isRightBlockNumCheck(m) ==
  m.num >= blockNum /\ m.num - blockNum <= MaxBlockNumDiff

\* Up to the lock: the height is checked against the blockNum of now.
onAnnounce(m) ==
  /\ isRightBlockNumCheck(m)
  /\ msgs' = AddVerifiedMessage(msgs, m)
  /\ announcing' = announcing \cup {m}
  /\ UNCHANGED <<blockNum, mode, verifier, blocks, verifiedBlocks, chainVars, replays, catchup,
                 main, syncVars, blockNumLow, sent>>

OnAnnounce == \E m \in Wire : m.type = "ANNOUNCE" /\ onAnnounce(m)

\* prepare() under the lock: the PREPARE carries the blockNum of then, and is
\* not broadcast in Listening mode.
Prepare ==
  /\ MutexFree
  /\ \E m \in announcing :
       /\ announcing' = announcing \ {m}
       /\ sent' = IF mode = "Listening" THEN sent
                  ELSE sent \cup {[type |-> "PREPARE", num |-> blockNum, hash |-> m.hash]}
  /\ UNCHANGED <<blockNum, mode, verifier, logVars, chainVars, replays, catchup, main, syncVars,
                 blockNumLow>>

------------------------------------------------------------------------------
(* onPrepared.                                                             *)

\* The block b that came with m: its height and hash are the message's.
onPreparedSanityChecks(b, m) == b.num = m.num /\ b.hash = m.hash

\* The replay goroutine starts only for a verified block of our own height.
onPrepared(m, b) ==
  /\ MutexFree
  /\ m.num >= blockNum
  /\ spinUpStateSync(m.num)
  /\ IF /\ IsQuorumAchievedByMask(m.payload.bitmap)
        /\ VerifyHash(m.payload.agg, m.payload.bitmap, m.hash)
        /\ onPreparedSanityChecks(b, m)
     THEN /\ blocks' = AddBlock(blocks, b)
          /\ msgs' = AddVerifiedMessage(msgs, m)
          /\ \E ok \in IF verifier THEN BlockVerifier(b) ELSE {FALSE} :
               /\ verifiedBlocks' = IF ok THEN verifiedBlocks \cup {b.hash}
                                    ELSE verifiedBlocks
               /\ replays' = IF ok /\ m.num = blockNum
                             THEN replays \cup {[blk |-> b, msgs |-> {}]}
                             ELSE replays
     ELSE UNCHANGED <<logVars, replays>>
  /\ UNCHANGED <<blockNum, verifier, chainVars, announcing, catchup, main, syncVars, sent>>

OnPrepared ==
  \E m \in Wire, b \in Blocks : m.type = "PREPARED" /\ onPrepared(m, b)

------------------------------------------------------------------------------
(* onCommitted.                                                            *)

\* Mutant: the number of signers is not checked.
CommittedVerifies_NoQuorum(m, b) == VerifyHash(m.payload.agg, m.payload.bitmap, b.hash)

\* Mutant: the aggregate is not checked against the bitmap.
CommittedVerifies_NoSig(m, b) == IsQuorumAchievedByMask(m.payload.bitmap)

\* The COMMITTED m carries a quorum of signatures of block b.
CommittedVerifies(m, b) ==
  /\ IsQuorumAchievedByMask(m.payload.bitmap)
  /\ VerifyHash(m.payload.agg, m.payload.bitmap, b.hash)

\* Mutant: only the bitmap is stored, without the signature.
overrideCommitSig_BitmapOnly(b, payload) ==
  IF commitSigs[b.num] # NoPayload /\ b \in chain
  THEN [commitSigs EXCEPT ![b.num] = [payload EXCEPT !.agg = {}]]
  ELSE commitSigs

\* A stored commit signature of a block of the chain is replaced by one with
\* more signers; nothing is stored where there was none.
overrideCommitSig(b, payload) ==
  IF /\ commitSigs[b.num] # NoPayload
     /\ b \in chain
     /\ Cardinality(payload.bitmap) > Cardinality(commitSigs[b.num].bitmap)
  THEN [commitSigs EXCEPT ![b.num] = payload]
  ELSE commitSigs

\* Up to the first step of tryCatchup, which collects the last mile blocks.
onCommitted(m) ==
  /\ MutexFree
  /\ m.num >= blockNum - 1
  /\ spinUpStateSync(m.num)
  /\ LET stored == AddNotVerifiedMessage(msgs, m)
         found == {b \in GetBlockByHash(blocks, m.hash) : CommittedVerifies(m, b)}
     IN IF found = {}
        THEN msgs' = stored /\ UNCHANGED <<commitSigs, catchup>>
        ELSE \E b \in found :
               /\ msgs' = AddVerifiedMessage(stored, m)
               /\ commitSigs' = overrideCommitSig(b, m.payload)
               /\ IF verifier
                  THEN \E todo \in getLastMileBlocksAndMsg(blocks, msgs', blockNum) :
                         catchup' = [pc |-> "next", todo |-> todo]
                  ELSE UNCHANGED catchup
  /\ UNCHANGED <<blockNum, verifier, blocks, verifiedBlocks, head, chain, announcing, main,
                 syncVars, sent>>

OnCommitted ==
  /\ \E m \in Wire : m.type = "COMMITTED" /\ onCommitted(m)
  /\ UNCHANGED replays

\* Mutant: it looks among the verified messages.
ReplayStart_Verified(b) ==
  /\ \E r \in replays :
       /\ r.blk = b /\ r.msgs = {}
       /\ LET found == GetMessagesByTypeSeqHash(msgs, "COMMITTED", b.num, b.hash)
          IN replays' = (replays \ {r}) \cup
                          IF found = {} THEN {} ELSE {[r EXCEPT !.msgs = found]}
  /\ UNCHANGED <<blockNum, mode, verifier, logVars, chainVars, announcing, catchup, main,
                 syncVars, blockNumLow, sent>>

\* The goroutine of onPrepared looks for the COMMITTED that came first (there
\* is at most one, the log keeps one per hash) ...
ReplayStart(b) ==
  /\ \E r \in replays :
       /\ r.blk = b /\ r.msgs = {}
       /\ LET found == GetNotVerifiedCommittedMessages(msgs, b.num, b.hash)
          IN replays' = (replays \ {r}) \cup
                          IF found = {} THEN {} ELSE {[r EXCEPT !.msgs = found]}
  /\ UNCHANGED <<blockNum, mode, verifier, logVars, chainVars, announcing, catchup, main,
                 syncVars, blockNumLow, sent>>

\* ... and hands it to onCommitted.
ReplayCommitted(b) ==
  \E r \in replays :
    \E m \in r.msgs :
      /\ r.blk = b
      /\ MutexFree
      /\ replays' = replays \ {r}
      /\ \/ onCommitted(m)
         \/ /\ m.num < blockNum - 1
            /\ UNCHANGED <<blockNum, mode, verifier, logVars, chainVars, announcing, catchup,
                           main, syncVars, blockNumLow, sent>>

------------------------------------------------------------------------------
(* tryCatchup, holding the mutex.                                          *)

\* Mutant: the comparison of head and block the wrong way round.
CatchupNext_Swapped ==
  /\ catchup.pc = "next"
  /\ UNCHANGED verifiedBlocks
  /\ IF catchup.todo = <<>>
     THEN catchup' = NotCatching
     ELSE catchup' = [catchup EXCEPT
                        !.pc = IF head.num > Head(catchup.todo).blk.num
                               THEN "insert" ELSE "setup"]
  /\ UNCHANGED <<blockNum, mode, verifier, blocks, msgs, chainVars, announcing, replays,
                 main, syncVars, blockNumLow, sent>>

\* The verification of the next block, and commitBlock's look at the head.
CatchupNext ==
  /\ catchup.pc = "next"
  /\ IF catchup.todo = <<>>
     THEN catchup' = NotCatching /\ UNCHANGED verifiedBlocks
     ELSE LET b == Head(catchup.todo).blk
          IN \E ok \in IF b.hash \in verifiedBlocks THEN {TRUE} ELSE BlockVerifier(b) :
               IF ok
               THEN /\ verifiedBlocks' = verifiedBlocks \cup {b.hash}
                    /\ catchup' = [catchup EXCEPT
                                     !.pc = IF head.num < b.num THEN "insert" ELSE "setup"]
               ELSE catchup' = NotCatching /\ UNCHANGED verifiedBlocks
  /\ UNCHANGED <<blockNum, mode, verifier, blocks, msgs, chainVars, announcing, replays, main,
                 syncVars, blockNumLow, sent>>

\* commitBlock's InsertChain; an error ends tryCatchup.
CatchupInsert ==
  /\ catchup.pc = "insert"
  /\ LET b == Head(catchup.todo).blk
     IN IF CanInsert(b)
        THEN InsertChain(b) /\ catchup' = [catchup EXCEPT !.pc = "setup"]
        ELSE UNCHANGED <<head, chain>> /\ catchup' = NotCatching
  /\ UNCHANGED <<blockNum, mode, verifier, logVars, commitSigs, announcing, replays, main,
                 syncVars, blockNumLow, sent>>

\* SetupForNewConsensus after block b; deleting a block also forgets that it
\* was verified.
SetupForNewConsensus(b) ==
  /\ blockNum' = b.num + 1
  /\ IF b.num \in EpochEnds THEN mode' \in UpdateModes ELSE UNCHANGED mode
  /\ blocks' = PruneCacheBeforeBlock(blocks, b.num)
  /\ msgs' = PruneCacheBeforeBlock(msgs, b.num)
  /\ verifiedBlocks' = verifiedBlocks \ {c.hash : c \in blocks \ blocks'}

CatchupSetup ==
  /\ catchup.pc = "setup"
  /\ SetupForNewConsensus(Head(catchup.todo).blk)
  /\ catchup' = [pc |-> "next", todo |-> Tail(catchup.todo)]
  /\ UNCHANGED <<verifier, chainVars, announcing, replays, main, syncVars, blockNumLow,
                 sent>>

------------------------------------------------------------------------------
(* The main loop and the state synchronisation.                            *)

\* The synchronisation (external) takes the signal of spinUpStateSync.
SyncStart ==
  /\ sync.pc = "idle" /\ blockNumLow /\ syncs < MaxSyncs
  /\ sync' = [sync EXCEPT !.pc = "download"]
  /\ syncs' = syncs + 1
  /\ blockNumLow' = FALSE
  /\ UNCHANGED <<blockNum, mode, verifier, logVars, chainVars, announcing, replays, catchup, main,
                 sent>>

\* It finds by itself that the node is behind (BlocksNotSynchronized): the
\* main loop reads the head ...
NotReadyRead ==
  /\ sync.pc = "idle" /\ syncs < MaxSyncs /\ main.pc = "select"
  /\ sync' = [sync EXCEPT !.pc = "download"]
  /\ syncs' = syncs + 1
  /\ main' = [pc |-> "notReady", num |-> head.num + 1]
  /\ UNCHANGED <<blockNum, mode, verifier, logVars, chainVars, announcing, replays, catchup,
                 blockNumLow, sent>>

\* ... and sets blockNum, without the mutex.
NotReadySet ==
  /\ main.pc = "notReady"
  /\ main' = [main EXCEPT !.pc = "select"]
  /\ blockNum' = main.num
  /\ mode' = "Syncing"
  /\ UNCHANGED <<verifier, logVars, chainVars, announcing, replays, catchup, syncVars,
                 blockNumLow, sent>>

\* A committed block from a peer.
SyncInsert ==
  /\ sync.pc = "download"
  /\ \E b \in Committed : CanInsert(b) /\ InsertChain(b)
  /\ UNCHANGED <<blockNum, mode, verifier, logVars, commitSigs, announcing, replays, catchup,
                 main, syncVars, blockNumLow, sent>>

\* GetLastMileBlockIter from the new head on; without a verifier an error,
\* after which there is nothing to iterate over.
GetLastMileBlockIter ==
  /\ sync.pc = "download"
  /\ MutexFree
  /\ \E todo \in IF verifier THEN getLastMileBlocksAndMsg(blocks, msgs, head.num + 1)
                 ELSE {<<>>} :
       sync' = [pc |-> "iter", todo |-> todo]
  /\ UNCHANGED <<blockNum, mode, verifier, logVars, chainVars, announcing, replays, catchup,
                 main, syncs, blockNumLow, sent>>

\* Next of the iterator, and the caller's insertion of the block; nil or an
\* error end the synchronisation.
IterNext ==
  /\ sync.pc = "iter"
  /\ LET done == /\ sync' = [pc |-> "done", todo |-> <<>>]
                 /\ UNCHANGED <<head, chain>>
     IN IF sync.todo = <<>>
        THEN done /\ UNCHANGED verifiedBlocks
        ELSE LET b == Head(sync.todo).blk
             IN \E ok \in IF b.hash \in verifiedBlocks THEN {TRUE} ELSE BlockVerifier(b) :
                  /\ verifiedBlocks' = IF ok THEN verifiedBlocks \cup {b.hash}
                                       ELSE verifiedBlocks
                  /\ IF ok /\ CanInsert(b)
                     THEN InsertChain(b) /\ sync' = [sync EXCEPT !.todo = Tail(@)]
                     ELSE done
  /\ UNCHANGED <<blockNum, mode, verifier, blocks, msgs, commitSigs, announcing, replays, catchup,
                 main, syncs, blockNumLow, sent>>

\* Mutant: an off-by-one, one block behind counts as synchronised.
SyncReady_OneBehind ==
  /\ sync.pc = "done" /\ main.pc = "select"
  /\ MutexFree
  /\ sync' = [sync EXCEPT !.pc = "idle"]
  /\ IF blockNum < head.num
     THEN blockNum' = head.num + 1 /\ mode' \in UpdateModes
     ELSE UNCHANGED <<blockNum, mode>>
  /\ UNCHANGED <<verifier, logVars, chainVars, announcing, replays, catchup, main,
                 syncs, blockNumLow, sent>>

\* syncReadyChan: BlocksSynchronized hands over to the main loop, which takes
\* the mutex.
SyncReady ==
  /\ sync.pc = "done" /\ main.pc = "select"
  /\ MutexFree
  /\ sync' = [sync EXCEPT !.pc = "idle"]
  /\ IF blockNum < head.num + 1
     THEN blockNum' = head.num + 1 /\ mode' \in UpdateModes
     ELSE UNCHANGED <<blockNum, mode>>
  /\ UNCHANGED <<verifier, logVars, chainVars, announcing, replays, catchup, main,
                 syncs, blockNumLow, sent>>

------------------------------------------------------------------------------
CatchupStep == CatchupNext \/ CatchupInsert \/ CatchupSetup

ReplayStep == \E b \in Blocks : ReplayStart(b) \/ ReplayCommitted(b)

SyncStep ==
  \/ SyncStart \/ NotReadyRead \/ SyncInsert \/ GetLastMileBlockIter \/ IterNext
  \/ SyncReady

Next ==
  \/ SetBlockVerifier \/ OnAnnounce \/ Prepare \/ OnPrepared \/ OnCommitted
  \/ CatchupStep \/ ReplayStep \/ NotReadySet \/ SyncStep

Spec == Init /\ [][Next]_vars

\* The Go scheduler runs every goroutine, and sync.Mutex hands the lock to a
\* waiter that has been overtaken for a millisecond.  The network is not fair.
FairSpec ==
  /\ Spec
  /\ WF_vars(CatchupStep) /\ WF_vars(NotReadySet)
  /\ \A b \in Blocks : WF_vars(ReplayStart(b)) /\ SF_vars(ReplayCommitted(b))

------------------------------------------------------------------------------
(* Properties.                                                             *)

LoggedMsgs == {[m EXCEPT !.verified = v] : m \in Wire, v \in BOOLEAN}

\* Every variable has its type.
TypeOK ==
  /\ blockNum \in Nat
  /\ mode \in {"Normal", "Syncing", "Listening"} /\ verifier \in BOOLEAN
  /\ blocks \subseteq Blocks
  /\ verifiedBlocks \subseteq {b.hash : b \in Blocks}
  /\ msgs \subseteq LoggedMsgs
  /\ head \in Blocks \cup {Genesis} /\ chain \subseteq Blocks \cup {Genesis}
  /\ commitSigs \in [{b.num : b \in Blocks} -> {NoPayload} \cup {m.payload : m \in Wire}]
  /\ announcing \subseteq Wire
  /\ replays \subseteq [blk : Blocks, msgs : SUBSET LoggedMsgs]
  /\ catchup.pc \in {"none", "next", "insert", "setup"}
  /\ main.pc \in {"select", "notReady"} /\ main.num \in Nat
  /\ sync.pc \in {"idle", "download", "iter", "done"}
  /\ \A t \in {catchup.todo, sync.todo} : \A i \in DOMAIN t :
       t[i].blk \in Blocks /\ t[i].msg \in LoggedMsgs
  /\ syncs \in Nat /\ blockNumLow \in BOOLEAN
  /\ sent \subseteq [type : {"PREPARE", "COMMIT"}, num : Nat, hash : Nat]

\* Whatever the order in which messages and synchronised blocks arrive, the
\* chain holds committed blocks only: a COMMITTED without a quorum behind it
\* never makes tryCatchup insert its block.
OnlyCommittedChain == chain \subseteq Committed \cup {Genesis}

\* blockNum never passes the block after the head, not even while tryCatchup,
\* the synchronisation and the main loop move the two at the same time.
BlockNumNotAhead == blockNum <= head.num + 1

\* Once nobody is catching up or synchronising, blockNum is the height of the
\* next block, even if the main loop has set it back from a stale head or a
\* catch-up lost the race for an insertion.
BlockNumIsNext ==
  MutexFree /\ main.pc = "select" /\ sync.pc = "idle" => blockNum = head.num + 1

\* onCommitted leaves nothing it could insert: with the mutex free, the log
\* holds no verified COMMITTED together with its block for our height.
NothingLeftBehind ==
  MutexFree => GetCommittedBlockAndMsgsFromNumber(blocks, msgs, blockNum) = {}

\* A commit signature the node has stored is only ever replaced by one with
\* more signers, for the block of the chain at that height, that verifies.
CommitSigsImprove ==
  [][\A n \in DOMAIN commitSigs :
       commitSigs'[n] # commitSigs[n] =>
         /\ Cardinality(commitSigs'[n].bitmap) > Cardinality(commitSigs[n].bitmap)
         /\ \E b \in chain' : /\ b.num = n
                              /\ VerifyHash(commitSigs'[n].agg, commitSigs'[n].bitmap, b.hash)
    ]_vars

\* A COMMITTED that came before its PREPARED is not lost: when onPrepared has
\* started the replay for our height, the height is eventually committed.
ReplayDelivers ==
  \A b \in Blocks :
    (/\ b.num = blockNum
     /\ \E r \in replays : r.blk = b
     /\ \E m \in GetNotVerifiedCommittedMessages(msgs, b.num, b.hash) :
          CommittedVerifies(m, b))
      ~> blockNum > b.num

\* The height the validator agrees on follows the head, through catch-up, state
\* synchronisation and the main loop.
HeightFollowsHead == TypeOK /\ BlockNumNotAhead /\ BlockNumIsNext
==============================================================================
