------------------------------ MODULE Slashing ------------------------------
(***************************************************************************)
(* Double signing (consensus/double_sign.go), on the leader: onCommit runs *)
(* checkDoubleSign under consensus.mutex before it counts a vote, and      *)
(* every offence found is sent from a goroutine of its own to SlashChan.   *)
(* The leader may announce a second block for a height (it is asked for    *)
(* one by every ready signal), which is how its log comes to hold two.     *)
(* What checkDoubleSign returns is checked for every message in every      *)
(* state; onCommit calls it for few of them (ReceiveCommit).               *)
(***************************************************************************)
EXTENDS Absent, Integers, Sequences, SequencesExt, FiniteSets

CONSTANTS
  Signers,        \* the BLS keys of the committee
  LeaderSigner,   \* the leader's own key
  Owner,          \* the address of a key in the committee; None for no entry
  Proposals,      \* the blocks
  NumberOf,       \* their numbers
  Multisigs,      \* SenderPubkeys of the commit messages, sequences of keys
  LastHeight      \* bound: the heights

VARIABLES
  onHeight,       \* consensus.blockNum
  current,        \* consensus.blockHash
  logged,         \* FBFTLog.blocks
  announcedMsgs,  \* the ANNOUNCE messages of the log, by block
  preparedMsgs,   \* the PREPARED messages of the log, by block
  commitBox,      \* the commit ballot of each key
  accusing,       \* the goroutines that wait for SlashChan, by record
  everSigned      \* history: the blocks each key signed

slashVars == <<onHeight, current, logged, announcedMsgs, preparedMsgs, commitBox,
               accusing, everSigned>>

GetBlocksByNumber(n) == {b \in logged : NumberOf[b] = n}

\* couldThisBeADoubleSigner: no announce or no prepared of this block.
Suspicious_NoPrepared(b) == ~(b \in announcedMsgs /\ NumberOf[b] = onHeight)

Suspicious(b) ==
  \/ ~(b \in announcedMsgs /\ NumberOf[b] = onHeight)
  \/ ~(b \in preparedMsgs /\ NumberOf[b] = onHeight)

Record_Current(k, b, keys) ==
  [offender |-> Owner[k], first |-> current, firstKeys |-> commitBox[k].keys,
   second |-> b, secondKeys |-> ToSet(keys), height |-> NumberOf[b]]

\* The record of a conflicting vote.
Record(k, b, keys) ==
  [offender |-> Owner[k], first |-> commitBox[k].block, firstKeys |-> commitBox[k].keys,
   second |-> b, secondKeys |-> ToSet(keys), height |-> NumberOf[b]]

\* One key of the message: done stops the loop for good (an address the
\* committee does not have), an address found before adds nothing.
Examine_Again(acc, k, b, keys) ==
  IF acc.done \/ commitBox[k] = None \/ GetBlocksByNumber(NumberOf[b]) \subseteq {b}
  THEN acc
  ELSE IF Owner[k] = None THEN [acc EXCEPT !.done = TRUE]
  ELSE [acc EXCEPT !.offenders = Append(@, Owner[k]),
                   !.records = @ \cup {Record(k, b, keys)}]

Examine(acc, k, b, keys) ==
  IF acc.done \/ commitBox[k] = None \/ GetBlocksByNumber(NumberOf[b]) \subseteq {b}
  THEN acc
  ELSE IF Owner[k] = None THEN [acc EXCEPT !.done = TRUE]
  ELSE IF Owner[k] \in ToSet(acc.offenders) THEN acc
  ELSE [acc EXCEPT !.offenders = Append(@, Owner[k]),
                   !.records = @ \cup {Record(k, b, keys)}]

\* checkDoubleSign returns found when the vote must not be counted.  The
\* shard state may be unreadable, and then the first suspect ends it.
checkDoubleSign(b, keys, readable) ==
  LET nothing == [found |-> Suspicious(b), offenders |-> << >>, records |-> {},
                  done |-> ~Suspicious(b) \/ ~readable]
  IN  FoldLeft(LAMBDA acc, k : Examine(acc, k, b, keys), nothing, keys)

SlashInit ==
  /\ onHeight = 1 /\ current = None
  /\ logged = {} /\ announcedMsgs = {} /\ preparedMsgs = {}
  /\ commitBox = [k \in Signers |-> None]
  /\ accusing = {}
  /\ everSigned = [k \in Signers |-> {}]

\* announce: the block and its message are logged.
AnnounceBlock(b) ==
  /\ NumberOf[b] = onHeight /\ b \notin logged
  /\ current' = b
  /\ logged' = logged \cup {b}
  /\ announcedMsgs' = announcedMsgs \cup {b}
  /\ UNCHANGED <<onHeight, preparedMsgs, commitBox, accusing, everSigned>>

\* didReachPrepareQuorum: the PREPARED message is logged and the leader's
\* own commit vote is submitted, unless it has one.
PrepareQuorum ==
  /\ current # None /\ current \notin preparedMsgs
  /\ preparedMsgs' = preparedMsgs \cup {current}
  /\ commitBox' = IF commitBox[LeaderSigner] # None THEN commitBox
                  ELSE [commitBox EXCEPT ![LeaderSigner] =
                          [block |-> current, keys |-> {LeaderSigner}]]
  /\ everSigned' = [everSigned EXCEPT ![LeaderSigner] = @ \cup {current}]
  /\ UNCHANGED <<onHeight, current, logged, announcedMsgs, accusing>>

\* onCommit with a valid signature for a block of the log.  A message with
\* a key that has a ballot is dropped before checkDoubleSign is called.
ReceiveCommit(b, keys, readable) ==
  /\ NumberOf[b] = onHeight /\ b \in logged
  /\ everSigned' = [k \in Signers |->
                      everSigned[k] \cup (IF k \in ToSet(keys) THEN {b} ELSE {})]
  /\ IF \E k \in ToSet(keys) : commitBox[k] # None
     THEN UNCHANGED <<commitBox, accusing>>
     ELSE LET check == checkDoubleSign(b, keys, readable) IN
          /\ accusing' = accusing \cup check.records
          /\ commitBox' = IF check.found THEN commitBox
                          ELSE [k \in Signers |->
                                  IF k \in ToSet(keys)
                                  THEN [block |-> b, keys |-> ToSet(keys)]
                                  ELSE commitBox[k]]
  /\ UNCHANGED <<onHeight, current, logged, announcedMsgs, preparedMsgs>>

\* SetupForNewConsensus after a commit: the votes are reset and the log is
\* pruned below the block before the new height.
NewHeight ==
  /\ current \in preparedMsgs /\ onHeight < LastHeight
  /\ onHeight' = onHeight + 1
  /\ current' = None
  /\ logged' = {b \in logged : NumberOf[b] >= onHeight}
  /\ announcedMsgs' = {b \in announcedMsgs : NumberOf[b] >= onHeight}
  /\ preparedMsgs' = {b \in preparedMsgs : NumberOf[b] >= onHeight}
  /\ commitBox' = [k \in Signers |-> None]
  /\ UNCHANGED <<accusing, everSigned>>

SlashNext ==
  \/ \E b \in Proposals : AnnounceBlock(b)
  \/ PrepareQuorum
  \/ \E b \in Proposals, keys \in Multisigs, readable \in BOOLEAN :
       ReceiveCommit(b, keys, readable)
  \/ NewHeight

-----------------------------------------------------------------------------
\* The commit messages that a leader could examine in this state.
Votes == {v \in Proposals \X Multisigs : v[1] \in logged /\ NumberOf[v[1]] = onHeight}

(* Whoever checkDoubleSign reports signed twice: a record names two        *)
(* different blocks of one height, and a key of the offender signed both.  *)
(* checkDoubleSign itself compares the vote with the blocks of the log and *)
(* not with the ballot it puts into the record.                            *)
EvidenceConflicts ==
  \A v \in Votes : \A r \in checkDoubleSign(v[1], v[2], TRUE).records :
    /\ r.first # r.second
    /\ NumberOf[r.first] = r.height /\ NumberOf[r.second] = r.height
    /\ \E k \in r.firstKeys \cap r.secondKeys :
         Owner[k] = r.offender /\ r.first \in everSigned[k]

(* One message reports an address once, however many of its keys signed.   *)
OneRecordPerOffender ==
  \A v \in Votes : IsInjective(checkDoubleSign(v[1], v[2], TRUE).offenders)

(* No vote for a block that was not announced and prepared at this height  *)
(* is ever counted towards the commit quorum.                              *)
VotesArePrepared ==
  \A k \in Signers : commitBox[k] # None =>
    /\ commitBox[k].block \in announcedMsgs \cap preparedMsgs
    /\ NumberOf[commitBox[k].block] = onHeight

(* Evidence is about two signatures that were given, and votes are about   *)
(* blocks that were prepared.                                              *)
EvidenceConsistent == EvidenceConflicts /\ OneRecordPerOffender /\ VotesArePrepared
=============================================================================
