------------------------- MODULE FBFTValidatorProofs -------------------------
(***************************************************************************)
(* For every committee, tree of blocks and set of messages, in every order *)
(* and with every loss and repetition: the chain of a validator holds      *)
(* committed blocks only, its height follows its head, and a stored commit *)
(* signature is only replaced by a better one.                             *)
(***************************************************************************)
EXTENDS FBFTValidator, FiniteSetTheorems, SequenceTheorems, TLAPS

MsgRec == [type : {"ANNOUNCE", "PREPARED", "COMMITTED"}, num : Nat \ {0},
           hash : Nat, verified : BOOLEAN,
           payload : [agg : SUBSET [signers : SUBSET Keys, hash : Nat],
                      bitmap : SUBSET Keys]]

Pair == [blk : Blocks, msg : LoggedMsgs]

\* What a replay goroutine has in hand.
ReplayRec == [blk : Blocks, msgs : SUBSET {m \in LoggedMsgs : m.type = "COMMITTED"}]

Good == Committed \cup {Genesis}

\* The types, with the lists of tryCatchup and of the iterator as sequences.
LogTypes ==
  /\ blocks \subseteq Blocks /\ IsFiniteSet(blocks)
  /\ verifiedBlocks \subseteq {b.hash : b \in Blocks}
  /\ msgs \subseteq LoggedMsgs
  /\ announcing \subseteq Wire
  /\ replays \subseteq ReplayRec

StateTypes ==
  /\ blockNum \in Nat /\ syncs \in Nat
  /\ mode \in {"Normal", "Syncing", "Listening"}
  /\ verifier \in BOOLEAN /\ blockNumLow \in BOOLEAN
  /\ sent \subseteq [type : {"PREPARE", "COMMIT"}, num : Nat, hash : Nat]

SigTypes == commitSigs \in [{b.num : b \in Blocks} -> {NoPayload} \cup {m.payload : m \in Wire}]

ThreadTypes ==
  /\ catchup \in [pc : {"none", "next", "insert", "setup"}, todo : Seq(Pair)]
  /\ catchup.pc \in {"insert", "setup"} => catchup.todo # <<>>
  /\ catchup.pc = "none" => catchup.todo = <<>>
  /\ sync \in [pc : {"idle", "download", "iter", "done"}, todo : Seq(Pair)]
  /\ main \in [pc : {"select", "notReady"}, num : Nat]
  /\ main.pc = "notReady" => sync.pc # "idle"

\* A COMMITTED is marked as verified only when a quorum signed its block.
VerifiedCommitted(ms) ==
  \A m \in ms : m.type = "COMMITTED" /\ m.verified =>
    \A b \in Blocks : b.hash = m.hash => b \in Committed

\* Only committed blocks are on their way to the chain or in it.
AllGood ==
  /\ VerifiedCommitted(msgs)
  /\ \A i \in 1..Len(catchup.todo) : catchup.todo[i].blk \in Committed
  /\ \A i \in 1..Len(sync.todo) : sync.todo[i].blk \in Committed
  /\ chain \subseteq Good /\ head \in Good

\* No thread has a height in hand that lies beyond the next block.
NotAhead ==
  /\ blockNum <= head.num + 1
  /\ main.num <= head.num + 1
  /\ catchup.pc = "setup" => catchup.todo[1].blk.num <= head.num

\* Without a synchronisation under way blockNum follows the head, and tryCatchup
\* goes through the blocks after the head one by one.
Follows ==
  main.pc = "select" /\ sync.pc = "idle" =>
    /\ catchup.pc # "setup" =>
         /\ blockNum = head.num + 1
         /\ \A i \in 1..Len(catchup.todo) : catchup.todo[i].blk.num = head.num + i
    /\ catchup.pc = "setup" =>
         \A i \in 1..Len(catchup.todo) : catchup.todo[i].blk.num = head.num + i - 1

ValInv == LogTypes /\ StateTypes /\ SigTypes /\ ThreadTypes /\ AllGood /\ NotAhead /\ Follows

------------------------------------------------------------------------------
(* Messages and blocks.                                                    *)

\* A message of the leader, with its mark set either way, is one the log may hold.
LEMMA WireLogged ==
  ASSUME NEW m \in Wire
  PROVE  /\ m \in LoggedMsgs
         /\ \A v \in BOOLEAN : [m EXCEPT !.verified = v] \in LoggedMsgs
<1>1. m \in MsgRec
  BY ValidatorAssumption, Zenon DEF MsgRec
<1>2. m = [m EXCEPT !.verified = m.verified] /\ m.verified \in BOOLEAN
  BY <1>1, Zenon DEF MsgRec
<1> QED
  BY <1>2 DEF LoggedMsgs

\* A message of the log is one of the leader but for its mark: what is assumed of the
\* leader's messages holds of it.
LEMMA LoggedFacts ==
  ASSUME NEW m \in LoggedMsgs
  PROVE  /\ m \in MsgRec
         /\ \A v \in BOOLEAN : [m EXCEPT !.verified = v] \in LoggedMsgs
         /\ \E w \in Wire : w.payload = m.payload
         /\ \A b \in Blocks :
              /\ m.hash = b.hash => m.num = b.num
              /\ m.type = "COMMITTED" /\ CommittedVerifies(m, b) => b \in Committed
<1>1. PICK w \in Wire, u \in BOOLEAN : m = [w EXCEPT !.verified = u]
  BY DEF LoggedMsgs
<1>2. w \in MsgRec
  BY ValidatorAssumption, Zenon DEF MsgRec
<1>3. /\ m \in MsgRec /\ m.type = w.type /\ m.num = w.num /\ m.hash = w.hash
      /\ m.payload = w.payload
  BY <1>1, <1>2, Zenon DEF MsgRec
<1>4. ASSUME NEW v \in BOOLEAN
      PROVE  [m EXCEPT !.verified = v] \in LoggedMsgs
  <2>1. [m EXCEPT !.verified = v] = [w EXCEPT !.verified = v]
    BY <1>1, <1>2, Zenon DEF MsgRec
  <2> QED
    BY <2>1 DEF LoggedMsgs
<1>5. ASSUME NEW b \in Blocks
      PROVE  /\ m.hash = b.hash => m.num = b.num
             /\ m.type = "COMMITTED" /\ CommittedVerifies(m, b) => b \in Committed
  BY <1>3, ValidatorAssumption DEF CommittedVerifies
<1> QED
  BY <1>3, <1>4, <1>5, Zenon

\* writeBlockWithState: a committed block that is accepted is the next after the head.
LEMMA ChildIsNext ==
  ASSUME head \in Good, NEW b \in Committed, CanInsert(b)
  PROVE  b.num = head.num + 1
<1>1. PICK c \in Good : c.hash = b.parent /\ c.num = b.num - 1
  BY ValidatorAssumption, Zenon DEF Good
<1>2. c.hash = head.hash
  BY <1>1, Zenon DEF CanInsert
<1>3. c = head
  BY <1>2, ValidatorAssumption DEF Good, Genesis
<1>4. b.num \in Nat
  BY ValidatorAssumption
<1> QED
  BY <1>1, <1>3, <1>4

\* A block of the chain has a height.
LEMMA GoodHeight == ASSUME NEW b \in Good PROVE b.num \in Nat
BY ValidatorAssumption DEF Good, Genesis

\* getLastMileBlocksAndMsg: consecutive committed blocks from the asked height on.
LEMMA LastMile ==
  ASSUME LogTypes, NEW ms \in SUBSET LoggedMsgs, VerifiedCommitted(ms), NEW n \in Nat,
         NEW todo \in getLastMileBlocksAndMsg(blocks, ms, n)
  PROVE  /\ todo \in Seq(Pair)
         /\ \A i \in 1..Len(todo) : todo[i].blk \in Committed /\ todo[i].blk.num = n + i - 1
<1> DEFINE At(k) == GetCommittedBlockAndMsgsFromNumber(blocks, ms, k)
           heights == {k \in {b.num : b \in blocks} : k >= n /\ \A j \in n..k : At(j) # {}}
           length == Cardinality(heights)
<1>1. IsFiniteSet({b.num : b \in blocks})
  <2>1. [b \in blocks |-> b.num] \in Surjection(blocks, {b.num : b \in blocks})
    BY Zenon DEF Surjection
  <2> QED
    BY <2>1, FS_Surjection, Zenon DEF LogTypes
<1>2. length \in Nat
  BY <1>1, FS_Subset, FS_CardinalityType, Zenon
<1>3. todo \in [1..length -> UNION {At(b.num) : b \in blocks}] /\ \A i \in 1..length : todo[i] \in At(n + i - 1)
  BY Zenon DEF getLastMileBlocksAndMsg
<1> HIDE DEF length
<1>4. ASSUME NEW k, NEW p \in At(k)
      PROVE  p \in Pair /\ p.blk \in Committed /\ p.blk.num = k
  <2>1. /\ p.blk \in Blocks /\ p.msg \in LoggedMsgs /\ p \in Pair /\ p.msg \in ms
        /\ p.msg.type = "COMMITTED" /\ p.msg.num = k /\ p.msg.verified
        /\ p.blk.hash = p.msg.hash
    BY <1>4, Zenon DEF GetCommittedBlockAndMsgsFromNumber, GetMessagesByTypeSeq, LogTypes, Pair
  <2>2. p.msg.num = p.blk.num
    BY <2>1, LoggedFacts, Zenon
  <2>3. p.blk \in Committed
    BY <2>1, Zenon DEF VerifiedCommitted
  <2> QED
    BY <2>1, <2>2, <2>3, Zenon
<1>5. todo \in Seq(Pair) /\ Len(todo) = length
  <2>1. todo \in [1..length -> Pair]
    BY <1>3, <1>4, Zenon
  <2> QED
    BY <2>1, <1>2
<1> QED
  BY <1>3, <1>4, <1>5, Zenon

------------------------------------------------------------------------------
(* The actions that leave the height, the chain and its threads alone.     *)

\* The part of the state that only catch-up, synchronisation and main loop write.
heightVars == <<blockNum, head, chain, catchup, sync, main>>

\* A step that touches neither the chain nor the threads leaves the heights as they are.
LEMMA HeightKept ==
  ASSUME ValInv, UNCHANGED heightVars, VerifiedCommitted(msgs')
  PROVE  (ThreadTypes /\ AllGood /\ NotAhead /\ Follows)'
BY Zenon DEF ValInv, heightVars, ThreadTypes, AllGood, NotAhead, Follows

\* A message that is no verified COMMITTED keeps the log's promise.
LEMMA StoreKeeps ==
  ASSUME NEW ms \in SUBSET LoggedMsgs, VerifiedCommitted(ms), NEW m \in LoggedMsgs,
         m.type # "COMMITTED" \/ ~m.verified \/ \A b \in Blocks : b.hash = m.hash => b \in Committed
  PROVE  Store(ms, m) \in SUBSET LoggedMsgs /\ VerifiedCommitted(Store(ms, m))
BY Zenon DEF Store, VerifiedCommitted

\* The node hands over its block verifier.
LEMMA SetBlockVerifierKeeps == ASSUME ValInv, SetBlockVerifier PROVE ValInv'
<1>1. LogTypes' /\ StateTypes' /\ SigTypes'
  BY Zenon DEF ValInv, SetBlockVerifier, logVars, chainVars, syncVars, LogTypes, StateTypes, SigTypes
<1>2. UNCHANGED heightVars /\ VerifiedCommitted(msgs')
  BY Zenon DEF ValInv, SetBlockVerifier, logVars, chainVars, syncVars, AllGood, heightVars
<1> QED
  BY <1>1, <1>2, HeightKept, Zenon DEF ValInv

\* onAnnounce checks the height and waits for the lock.
LEMMA OnAnnounceKeeps == ASSUME ValInv, OnAnnounce PROVE ValInv'
<1>1. PICK m \in Wire : m.type = "ANNOUNCE" /\ onAnnounce(m)
  BY Zenon DEF OnAnnounce
<1>2. [m EXCEPT !.verified = TRUE] \in LoggedMsgs /\ [m EXCEPT !.verified = TRUE].type = "ANNOUNCE"
  <2>1. m \in MsgRec
    BY WireLogged, LoggedFacts, Zenon
  <2> QED
    BY <1>1, <2>1, WireLogged, Zenon DEF MsgRec
<1>3. msgs' \in SUBSET LoggedMsgs /\ VerifiedCommitted(msgs')
  BY <1>1, <1>2, StoreKeeps, Zenon DEF onAnnounce, AddVerifiedMessage, ValInv, AllGood, LogTypes
<1>4. LogTypes' /\ StateTypes' /\ SigTypes'
  BY <1>1, <1>3, Zenon DEF ValInv, onAnnounce, chainVars, syncVars, LogTypes, StateTypes, SigTypes
<1>5. UNCHANGED heightVars
  BY <1>1, Zenon DEF onAnnounce, chainVars, syncVars, heightVars
<1> QED
  BY <1>3, <1>4, <1>5, HeightKept, Zenon DEF ValInv

\* prepare, under the lock, logs the message and votes.
LEMMA PrepareKeeps == ASSUME ValInv, Prepare PROVE ValInv'
<1>1. PICK m \in announcing :
        /\ announcing' = announcing \ {m}
        /\ sent' = IF mode = "Listening" THEN sent
                   ELSE sent \cup {[type |-> "PREPARE", num |-> blockNum, hash |-> m.hash]}
  BY Zenon DEF Prepare
<1>2. m.hash \in Nat /\ blockNum \in Nat
  <2>1. m \in MsgRec
    BY WireLogged, LoggedFacts, Zenon DEF ValInv, LogTypes
  <2> QED
    BY <2>1, Zenon DEF MsgRec, ValInv, StateTypes
<1>3. LogTypes' /\ SigTypes'
  BY <1>1, Zenon DEF ValInv, Prepare, logVars, chainVars, syncVars, LogTypes, SigTypes
<1>4. StateTypes'
  BY <1>1, <1>2 DEF ValInv, Prepare, syncVars, StateTypes
<1>5. UNCHANGED heightVars /\ VerifiedCommitted(msgs')
  BY Zenon DEF ValInv, Prepare, logVars, chainVars, syncVars, AllGood, heightVars
<1> QED
  BY <1>3, <1>4, <1>5, HeightKept, Zenon DEF ValInv

\* spinUpStateSync leaves a mode that exists.
LEMMA SpinUpTypes ==
  ASSUME StateTypes, NEW n, spinUpStateSync(n)
  PROVE  mode' \in {"Normal", "Syncing", "Listening"} /\ blockNumLow' \in BOOLEAN
BY Zenon DEF StateTypes, spinUpStateSync

\* onPrepared, with each of its early returns.
LEMMA OnPreparedKeeps == ASSUME ValInv, OnPrepared PROVE ValInv'
<1>1. PICK m \in Wire, b \in Blocks : m.type = "PREPARED" /\ onPrepared(m, b)
  BY Zenon DEF OnPrepared
<1>2. [m EXCEPT !.verified = TRUE] \in LoggedMsgs /\ [m EXCEPT !.verified = TRUE].type = "PREPARED"
  <2>1. m \in MsgRec
    BY WireLogged, LoggedFacts, Zenon
  <2> QED
    BY <1>1, <2>1, WireLogged, Zenon DEF MsgRec
<1>3. AddVerifiedMessage(msgs, m) \in SUBSET LoggedMsgs /\ VerifiedCommitted(AddVerifiedMessage(msgs, m))
  BY <1>2, StoreKeeps, Zenon DEF AddVerifiedMessage, ValInv, AllGood, LogTypes
<1>4. msgs' \in SUBSET LoggedMsgs /\ VerifiedCommitted(msgs')
  BY <1>1, <1>3, Zenon DEF onPrepared, logVars, ValInv, AllGood, LogTypes
<1>5. blocks' \subseteq Blocks /\ IsFiniteSet(blocks')
  <2>1. {c \in blocks : c.hash # b.hash} \subseteq Blocks /\ IsFiniteSet({c \in blocks : c.hash # b.hash})
    BY FS_Subset, Zenon DEF ValInv, LogTypes
  <2>2. AddBlock(blocks, b) \subseteq Blocks /\ IsFiniteSet(AddBlock(blocks, b))
    BY <2>1, FS_AddElement, Zenon DEF AddBlock
  <2> QED
    BY <1>1, <2>2, Zenon DEF onPrepared, logVars, ValInv, LogTypes
<1>6. verifiedBlocks' \subseteq {c.hash : c \in Blocks}
  BY <1>1, Zenon DEF onPrepared, logVars, ValInv, LogTypes
<1>7. replays' \subseteq ReplayRec
  <2>1. [blk |-> b, msgs |-> {}] \in ReplayRec
    BY Zenon DEF ReplayRec
  <2>2. replays' \in {replays, replays \cup {[blk |-> b, msgs |-> {}]}}
    BY <1>1, Zenon DEF onPrepared
  <2> QED
    BY <2>1, <2>2, Zenon DEF ValInv, LogTypes
<1>8. LogTypes'
  BY <1>1, <1>4, <1>5, <1>6, <1>7, Zenon DEF onPrepared, ValInv, LogTypes
<1>9. StateTypes' /\ SigTypes'
  BY <1>1, SpinUpTypes, Zenon DEF onPrepared, chainVars, syncVars, ValInv, StateTypes, SigTypes
<1>10. UNCHANGED heightVars
  BY <1>1, Zenon DEF onPrepared, chainVars, syncVars, heightVars
<1> QED
  BY <1>4, <1>8, <1>9, <1>10, HeightKept, Zenon DEF ValInv

------------------------------------------------------------------------------
(* onCommitted and the replays.                                            *)

\* onCommitted, for a message from the network or from the log: what it does to the
\* log, the stored signatures and the list of tryCatchup.
LEMMA onCommittedKeeps ==
  ASSUME ValInv, NEW m \in LoggedMsgs, m.type = "COMMITTED", onCommitted(m),
         replays' \subseteq ReplayRec
  PROVE  ValInv'
<1> DEFINE no == [m EXCEPT !.verified = FALSE]
           yes == [m EXCEPT !.verified = TRUE]
           stored == AddNotVerifiedMessage(msgs, m)
           found == {b \in GetBlockByHash(blocks, m.hash) : CommittedVerifies(m, b)}
<1>1. /\ no \in LoggedMsgs /\ ~no.verified
      /\ yes \in LoggedMsgs /\ yes.hash = m.hash
  <2>1. m \in MsgRec
    BY LoggedFacts, Zenon
  <2> QED
    BY <2>1, LoggedFacts, Zenon DEF MsgRec
<1>2. stored \in SUBSET LoggedMsgs /\ VerifiedCommitted(stored)
  BY <1>1, StoreKeeps, Zenon DEF AddNotVerifiedMessage, ValInv, AllGood, LogTypes
<1>3. ASSUME NEW b \in found
      PROVE  /\ b \in Committed
             /\ AddVerifiedMessage(stored, m) \in SUBSET LoggedMsgs
             /\ VerifiedCommitted(AddVerifiedMessage(stored, m))
  <2>1. b \in Blocks /\ b.hash = m.hash /\ CommittedVerifies(m, b)
    BY Zenon DEF GetBlockByHash, ValInv, LogTypes
  <2>2. b \in Committed
    BY <2>1, LoggedFacts, Zenon
  <2>3. \A c \in Blocks : c.hash = yes.hash => c \in Committed
    BY <1>1, <2>1, <2>2, ValidatorAssumption
  <2> HIDE DEF yes, stored
  <2>4. Store(stored, yes) \in SUBSET LoggedMsgs /\ VerifiedCommitted(Store(stored, yes))
    BY <1>1, <1>2, <2>3, StoreKeeps, Zenon
  <2> QED
    BY <2>2, <2>4, Zenon DEF AddVerifiedMessage, yes
<1>4. msgs' \in SUBSET LoggedMsgs /\ VerifiedCommitted(msgs')
  <2>1. msgs' = stored \/ \E b \in found : msgs' = AddVerifiedMessage(stored, m)
    BY Zenon DEF onCommitted
  <2> HIDE DEF stored, found
  <2> QED
    BY <1>2, <1>3, <2>1, Zenon
<1>5. SigTypes'
  <2>1. commitSigs' = commitSigs \/ \E b \in found : commitSigs' = overrideCommitSig(b, m.payload)
    BY Zenon DEF onCommitted
  <2>2. m.payload \in {w.payload : w \in Wire}
    BY LoggedFacts, Zenon
  <2> QED
    BY <2>1, <2>2, Zenon DEF overrideCommitSig, ValInv, SigTypes
<1>6. LogTypes'
  BY <1>4, Zenon DEF onCommitted, ValInv, LogTypes
<1>7. StateTypes'
  BY SpinUpTypes, Zenon DEF onCommitted, syncVars, ValInv, StateTypes
<1>8. CASE catchup' = catchup
  <2>1. UNCHANGED heightVars
    BY <1>8, Zenon DEF onCommitted, syncVars, heightVars
  <2> QED
    BY <1>4, <1>5, <1>6, <1>7, <2>1, HeightKept, Zenon DEF ValInv
<1>9. CASE catchup' # catchup
  <2>1. PICK todo \in getLastMileBlocksAndMsg(blocks, msgs', blockNum) :
          catchup' = [pc |-> "next", todo |-> todo]
    BY <1>9, Zenon DEF onCommitted
  <2>2. /\ todo \in Seq(Pair)
        /\ \A i \in 1..Len(todo) : todo[i].blk \in Committed /\ todo[i].blk.num = blockNum + i - 1
    BY <1>4, <2>1, LastMile, Zenon DEF ValInv, StateTypes
  <2>3. UNCHANGED <<blockNum, head, chain, sync, main>> /\ catchup.pc = "none"
    BY Zenon DEF onCommitted, syncVars, MutexFree
  <2>4. ThreadTypes'
    BY <2>1, <2>2, <2>3, Zenon DEF ValInv, ThreadTypes
  <2>5. AllGood'
    BY <1>4, <2>1, <2>2, <2>3, Zenon DEF ValInv, AllGood
  <2>6. NotAhead'
    BY <2>1, <2>3, Zenon DEF ValInv, NotAhead
  <2>7. Follows'
    <3>1. head.num \in Nat
      BY GoodHeight, Zenon DEF ValInv, AllGood
    <3> QED
      BY <2>1, <2>2, <2>3, <3>1 DEF ValInv, Follows, ThreadTypes
  <2> QED
    BY <1>5, <1>6, <1>7, <2>4, <2>5, <2>6, <2>7, Zenon DEF ValInv
<1> QED
  BY <1>8, <1>9, Zenon

\* onCommitted, with each of its early returns.
LEMMA OnCommittedKeeps == ASSUME ValInv, OnCommitted PROVE ValInv'
<1>1. PICK m \in Wire : m.type = "COMMITTED" /\ onCommitted(m)
  BY Zenon DEF OnCommitted
<1>2. m \in LoggedMsgs
  BY WireLogged, Zenon
<1>3. replays' \subseteq ReplayRec
  BY Zenon DEF OnCommitted, ValInv, LogTypes
<1> QED
  BY <1>1, <1>2, <1>3, onCommittedKeeps, Zenon

\* The goroutine of onPrepared looks for the COMMITTED that came first.
LEMMA ReplayStartKeeps == ASSUME ValInv, NEW b \in Blocks, ReplayStart(b) PROVE ValInv'
<1> DEFINE found == GetNotVerifiedCommittedMessages(msgs, b.num, b.hash)
<1>1. PICK r \in replays :
        replays' = (replays \ {r}) \cup IF found = {} THEN {} ELSE {[r EXCEPT !.msgs = found]}
  BY Zenon DEF ReplayStart
<1>2. found \in SUBSET {m \in LoggedMsgs : m.type = "COMMITTED"}
  BY Zenon DEF GetNotVerifiedCommittedMessages, ValInv, LogTypes
<1> HIDE DEF found
<1>3. [r EXCEPT !.msgs = found] \in ReplayRec
  BY <1>2, Zenon DEF ReplayRec, ValInv, LogTypes
<1>4. replays' \subseteq ReplayRec
  BY <1>1, <1>3, Zenon DEF ValInv, LogTypes
<1>5. LogTypes' /\ StateTypes' /\ SigTypes'
  BY <1>4, Zenon DEF ValInv, ReplayStart, logVars, chainVars, syncVars, LogTypes, StateTypes, SigTypes
<1>6. UNCHANGED heightVars /\ VerifiedCommitted(msgs')
  BY Zenon DEF ValInv, ReplayStart, logVars, chainVars, syncVars, AllGood, heightVars
<1> QED
  BY <1>5, <1>6, HeightKept, Zenon DEF ValInv

\* The goroutine hands that COMMITTED to onCommitted.
LEMMA ReplayCommittedKeeps == ASSUME ValInv, NEW b \in Blocks, ReplayCommitted(b) PROVE ValInv'
<1>0. PICK r \in replays : \E m \in r.msgs :
        /\ replays' = replays \ {r}
        /\ \/ onCommitted(m)
           \/ UNCHANGED <<blockNum, mode, verifier, logVars, chainVars, announcing, catchup,
                          main, syncVars, blockNumLow, sent>>
  BY Zenon DEF ReplayCommitted
<1>1. PICK m \in r.msgs :
        /\ replays' = replays \ {r}
        /\ \/ onCommitted(m)
           \/ UNCHANGED <<blockNum, mode, verifier, logVars, chainVars, announcing, catchup,
                          main, syncVars, blockNumLow, sent>>
  BY <1>0, Zenon
<1>2. m \in LoggedMsgs /\ m.type = "COMMITTED"
  BY Zenon DEF ReplayRec, ValInv, LogTypes
<1>3. replays' \subseteq ReplayRec
  BY <1>1, Zenon DEF ValInv, LogTypes
<1>4. CASE onCommitted(m)
  BY <1>2, <1>3, <1>4, onCommittedKeeps, Zenon
<1>5. CASE UNCHANGED <<blockNum, mode, verifier, logVars, chainVars, announcing, catchup,
                       main, syncVars, blockNumLow, sent>>
  <2>1. LogTypes' /\ StateTypes' /\ SigTypes'
    BY <1>3, <1>5, Zenon DEF ValInv, logVars, chainVars, syncVars, LogTypes, StateTypes, SigTypes
  <2>2. UNCHANGED heightVars /\ VerifiedCommitted(msgs')
    BY <1>5, Zenon DEF ValInv, logVars, chainVars, syncVars, AllGood, heightVars
  <2> QED
    BY <2>1, <2>2, HeightKept, Zenon DEF ValInv
<1> QED
  BY <1>1, <1>4, <1>5, Zenon

------------------------------------------------------------------------------
(* tryCatchup.                                                             *)

\* A step of a thread that ends without having touched the chain.
LEMMA CatchupEnds ==
  ASSUME ValInv, catchup' = NotCatching, catchup.pc # "setup",
         UNCHANGED <<blockNum, msgs, head, chain, main, sync>>
  PROVE  (ThreadTypes /\ AllGood /\ NotAhead /\ Follows)'
<1>1. catchup'.pc = "none" /\ catchup'.todo = <<>> /\ <<>> \in Seq(Pair)
  BY DEF NotCatching
<1>2. ThreadTypes'
  BY <1>1, Zenon DEF ValInv, ThreadTypes, NotCatching
<1>3. AllGood'
  BY <1>1 DEF ValInv, AllGood
<1>4. NotAhead'
  BY <1>1, Zenon DEF ValInv, NotAhead
<1>5. Follows'
  BY <1>1 DEF ValInv, Follows
<1> QED
  BY <1>2, <1>3, <1>4, <1>5, Zenon

\* The first block of the catch-up's list and the rest.
LEMMA FirstTodo ==
  ASSUME NEW todo \in Seq(Pair), todo # <<>>
  PROVE  /\ Head(todo) = todo[1] /\ 1 \in 1..Len(todo) /\ Len(todo) \in Nat
         /\ Tail(todo) \in Seq(Pair) /\ Len(Tail(todo)) = Len(todo) - 1
         /\ \A i \in 1..Len(Tail(todo)) : Tail(todo)[i] = todo[i + 1] /\ i + 1 \in 1..Len(todo)
OBVIOUS

\* The block that the catch-up is about to commit was committed by a quorum.
LEMMA CatchupHead ==
  ASSUME ValInv, catchup.todo # <<>>
  PROVE  /\ Head(catchup.todo).blk = catchup.todo[1].blk
         /\ catchup.todo[1].blk \in Blocks /\ catchup.todo[1].blk \in Committed
         /\ catchup.todo[1].blk.num \in Nat
<1>1. catchup.todo \in Seq(Pair)
  BY Zenon DEF ValInv, ThreadTypes
<1>2. Head(catchup.todo) = catchup.todo[1] /\ 1 \in 1..Len(catchup.todo)
  BY <1>1, FirstTodo, Zenon
<1>3. catchup.todo[1].blk \in Committed
  BY <1>2, Zenon DEF ValInv, AllGood
<1> QED
  BY <1>2, <1>3, ValidatorAssumption

\* The verification of the next block of a catch-up, and commitBlock's look at the head.
LEMMA CatchupNextKeeps == ASSUME ValInv, CatchupNext PROVE ValInv'
<1> DEFINE b == Head(catchup.todo).blk
<1>1. /\ catchup.pc = "next"
      /\ UNCHANGED <<blockNum, mode, verifier, blocks, msgs, chainVars, announcing, replays, main,
                     syncVars, blockNumLow, sent>>
  BY Zenon DEF CatchupNext
<1>2. \/ catchup' = NotCatching /\ UNCHANGED verifiedBlocks
      \/ /\ catchup.todo # <<>>
         /\ verifiedBlocks' = verifiedBlocks \cup {b.hash}
         /\ catchup' = [catchup EXCEPT !.pc = IF head.num < b.num THEN "insert" ELSE "setup"]
  BY Zenon DEF CatchupNext
<1>3. catchup \in [pc : {"none", "next", "insert", "setup"}, todo : Seq(Pair)]
  BY Zenon DEF ValInv, ThreadTypes
<1>4. catchup.todo # <<>> => b \in Blocks /\ b = catchup.todo[1].blk /\ b \in Committed
  BY CatchupHead, Zenon
<1> HIDE DEF b
<1>5. StateTypes' /\ SigTypes'
  BY <1>1, Zenon DEF ValInv, chainVars, syncVars, StateTypes, SigTypes
<1>6. LogTypes'
  BY <1>1, <1>2, <1>4, Zenon DEF ValInv, LogTypes
<1>7. CASE catchup' = NotCatching
  BY <1>1, <1>5, <1>6, <1>7, CatchupEnds, Zenon DEF ValInv, chainVars, syncVars
<1>8. CASE /\ catchup.todo # <<>>
           /\ catchup' = [catchup EXCEPT !.pc = IF head.num < b.num THEN "insert" ELSE "setup"]
  <2>1. /\ catchup'.todo = catchup.todo
        /\ catchup'.pc = IF head.num < b.num THEN "insert" ELSE "setup"
        /\ catchup' \in [pc : {"none", "next", "insert", "setup"}, todo : Seq(Pair)]
    BY <1>3, <1>8, Zenon
  <2>2. head.num \in Nat /\ b.num \in Nat
    BY <1>4, <1>8, GoodHeight, Zenon DEF ValInv, AllGood, Good
  <2>3. UNCHANGED <<blockNum, head, chain, main, sync, msgs>>
    BY <1>1, Zenon DEF chainVars, syncVars
  <2>4. ThreadTypes'
    BY <1>8, <2>1, <2>3, Zenon DEF ValInv, ThreadTypes
  <2>5. AllGood'
    BY <2>1, <2>3, Zenon DEF ValInv, AllGood
  <2>6. NotAhead'
    BY <1>4, <1>8, <2>1, <2>2, <2>3 DEF ValInv, NotAhead
  <2>7. Follows'
    <3>1. main.pc = "select" /\ sync.pc = "idle" => b.num = head.num + 1
      BY <1>1, <1>3, <1>4, <1>8, FirstTodo, Zenon DEF ValInv, Follows
    <3> QED
      BY <1>1, <2>1, <2>2, <2>3, <3>1 DEF ValInv, Follows
  <2> QED
    BY <1>5, <1>6, <2>4, <2>5, <2>6, <2>7, Zenon DEF ValInv
<1> QED
  BY <1>2, <1>7, <1>8, Zenon

\* commitBlock: a committed child of the head, so the height grows by one.
LEMMA InsertFacts ==
  ASSUME ValInv, NEW b \in Committed, CanInsert(b), InsertChain(b)
  PROVE  /\ head' = b /\ b.num = head.num + 1 /\ head.num \in Nat
         /\ chain' \subseteq Good /\ head' \in Good
<1>1. head \in Good /\ chain \subseteq Good
  BY Zenon DEF ValInv, AllGood
<1> QED
  BY <1>1, ChildIsNext, GoodHeight, Zenon DEF InsertChain, Good

\* commitBlock inserts the block that it looked at the head for.
LEMMA CatchupInsertKeeps == ASSUME ValInv, CatchupInsert PROVE ValInv'
<1> DEFINE b == Head(catchup.todo).blk
<1>1. /\ catchup.pc = "insert"
      /\ UNCHANGED <<blockNum, mode, verifier, logVars, commitSigs, announcing, replays, main,
                     syncVars, blockNumLow, sent>>
  BY Zenon DEF CatchupInsert
<1>2. \/ CanInsert(b) /\ InsertChain(b) /\ catchup' = [catchup EXCEPT !.pc = "setup"]
      \/ UNCHANGED <<head, chain>> /\ catchup' = NotCatching
  BY Zenon DEF CatchupInsert
<1>3. /\ catchup \in [pc : {"none", "next", "insert", "setup"}, todo : Seq(Pair)]
      /\ catchup.todo # <<>>
  BY <1>1, Zenon DEF ValInv, ThreadTypes
<1>4. b = catchup.todo[1].blk /\ b \in Committed /\ b.num \in Nat
  BY <1>3, CatchupHead, Zenon
<1> HIDE DEF b
<1>5. StateTypes' /\ SigTypes' /\ LogTypes'
  BY <1>1, Zenon DEF ValInv, logVars, syncVars, StateTypes, SigTypes, LogTypes
<1>6. CASE UNCHANGED <<head, chain>> /\ catchup' = NotCatching
  BY <1>1, <1>5, <1>6, CatchupEnds, Zenon DEF ValInv, logVars, syncVars
<1>7. CASE CanInsert(b) /\ InsertChain(b) /\ catchup' = [catchup EXCEPT !.pc = "setup"]
  <2>1. /\ catchup'.todo = catchup.todo /\ catchup'.pc = "setup"
        /\ catchup' \in [pc : {"none", "next", "insert", "setup"}, todo : Seq(Pair)]
    BY <1>3, <1>7, Zenon
  <2>2. /\ head' = b /\ b.num = head.num + 1 /\ head.num \in Nat
        /\ chain' \subseteq Good /\ head' \in Good
    BY <1>4, <1>7, InsertFacts, Zenon
  <2>3. UNCHANGED <<blockNum, main, sync, msgs>>
    BY <1>1, Zenon DEF logVars, syncVars
  <2>4. ThreadTypes'
    BY <1>3, <2>1, <2>3, Zenon DEF ValInv, ThreadTypes
  <2>5. AllGood'
    BY <2>1, <2>2, <2>3, Zenon DEF ValInv, AllGood
  <2>6. NotAhead'
    <3>1. blockNum \in Nat /\ main.num \in Nat
      BY Zenon DEF ValInv, StateTypes, ThreadTypes
    <3> QED
      BY <1>4, <2>1, <2>2, <2>3, <3>1 DEF ValInv, NotAhead
  <2>7. Follows'
    <3>1. \A i \in 1..Len(catchup.todo) : head.num + i = (head.num + 1) + i - 1
      BY <1>3, <2>2
    <3> QED
      BY <1>1, <2>1, <2>2, <2>3, <3>1 DEF ValInv, Follows
  <2> QED
    BY <1>5, <2>4, <2>5, <2>6, <2>7, Zenon DEF ValInv
<1> QED
  BY <1>2, <1>6, <1>7, Zenon

\* The modes that an update can leave exist.
LEMMA Modes == UpdateModes \subseteq {"Normal", "Syncing", "Listening"}
BY ValidatorAssumption, Zenon

\* SetupForNewConsensus prunes the log.
LEMMA PruneKeeps ==
  ASSUME ValInv, NEW b \in Committed, SetupForNewConsensus(b),
         UNCHANGED <<announcing, replays>>
  PROVE  LogTypes' /\ VerifiedCommitted(msgs')
<1>1. blocks' \subseteq blocks /\ msgs' \subseteq msgs /\ verifiedBlocks' \subseteq verifiedBlocks
  BY Zenon DEF SetupForNewConsensus, PruneCacheBeforeBlock, DeleteLessThan
<1>2. IsFiniteSet(blocks')
  BY <1>1, FS_Subset, Zenon DEF ValInv, LogTypes
<1>3. VerifiedCommitted(msgs')
  BY <1>1, Zenon DEF ValInv, AllGood, VerifiedCommitted
<1> QED
  BY <1>1, <1>2, <1>3, Zenon DEF ValInv, LogTypes

\* SetupForNewConsensus and the pruning of the log, after a catch-up.
LEMMA CatchupSetupKeeps == ASSUME ValInv, CatchupSetup PROVE ValInv'
<1> DEFINE b == Head(catchup.todo).blk
<1>1. /\ catchup.pc = "setup"
      /\ SetupForNewConsensus(b)
      /\ catchup' = [pc |-> "next", todo |-> Tail(catchup.todo)]
      /\ UNCHANGED <<verifier, chainVars, announcing, replays, main, syncVars, blockNumLow, sent>>
  BY Zenon DEF CatchupSetup
<1>2. catchup.todo \in Seq(Pair) /\ catchup.todo # <<>>
  BY <1>1, Zenon DEF ValInv, ThreadTypes
<1>3. b = catchup.todo[1].blk /\ b \in Committed /\ b.num \in Nat
  BY <1>2, CatchupHead, Zenon
<1> HIDE DEF b
<1>4. LogTypes' /\ VerifiedCommitted(msgs')
  BY <1>1, <1>3, PruneKeeps, Zenon
<1>5. StateTypes' /\ SigTypes'
  <2>1. mode' \in {"Normal", "Syncing", "Listening"}
    BY <1>1, Modes, Zenon DEF SetupForNewConsensus, ValInv, StateTypes
  <2> QED
    BY <1>1, <1>3, <2>1 DEF SetupForNewConsensus, ValInv, chainVars, syncVars, StateTypes, SigTypes
<1>6. /\ catchup'.pc = "next" /\ catchup'.todo \in Seq(Pair)
      /\ catchup' \in [pc : {"none", "next", "insert", "setup"}, todo : Seq(Pair)]
      /\ Len(catchup.todo) \in Nat /\ 1 \in 1..Len(catchup.todo)
      /\ \A i \in 1..Len(catchup'.todo) :
           catchup'.todo[i] = catchup.todo[i + 1] /\ i + 1 \in 1..Len(catchup.todo)
  BY <1>1, <1>2, FirstTodo, Zenon
<1>7. UNCHANGED <<head, chain, main, sync>> /\ blockNum' = b.num + 1
  BY <1>1, Zenon DEF chainVars, syncVars, SetupForNewConsensus
<1>8. head.num \in Nat /\ main.num \in Nat /\ b.num <= head.num
  BY <1>1, <1>3, GoodHeight, Zenon DEF ValInv, AllGood, NotAhead, ThreadTypes
<1>9. ThreadTypes'
  BY <1>6, <1>7, Zenon DEF ValInv, ThreadTypes
<1>10. AllGood'
  BY <1>4, <1>6, <1>7, Zenon DEF ValInv, AllGood
<1>11. NotAhead'
  BY <1>3, <1>6, <1>7, <1>8 DEF ValInv, NotAhead
<1>12. Follows'
  <2>1. SUFFICES ASSUME main.pc = "select", sync.pc = "idle"
                 PROVE  /\ blockNum' = head.num + 1
                        /\ \A i \in 1..Len(catchup'.todo) : catchup'.todo[i].blk.num = head.num + i
    BY <1>6, <1>7, Zenon DEF Follows
  <2>2. \A i \in 1..Len(catchup.todo) : catchup.todo[i].blk.num = head.num + i - 1
    BY <1>1, <2>1, Zenon DEF ValInv, Follows
  <2>3. b.num = head.num
    BY <1>3, <1>6, <1>8, <2>2
  <2>4. ASSUME NEW i \in 1..Len(catchup'.todo)
        PROVE  catchup'.todo[i].blk.num = head.num + i
    <3>1. catchup'.todo[i].blk.num = head.num + (i + 1) - 1
      BY <1>6, <2>2, <2>4, Zenon
    <3>2. i \in Nat
      BY <1>6
    <3> QED
      BY <1>8, <3>1, <3>2
  <2> QED
    BY <1>7, <2>3, <2>4, Zenon
<1> QED
  BY <1>4, <1>5, <1>9, <1>10, <1>11, <1>12, Zenon DEF ValInv

------------------------------------------------------------------------------
(* The synchronisation and the main loop.                                  *)

\* The synchronisation takes the signal of spinUpStateSync.
LEMMA SyncStartKeeps == ASSUME ValInv, SyncStart PROVE ValInv'
<1>1. /\ sync' = [sync EXCEPT !.pc = "download"] /\ syncs' = syncs + 1 /\ blockNumLow' = FALSE
      /\ UNCHANGED <<blockNum, mode, verifier, logVars, chainVars, announcing, replays, catchup,
                     main, sent>>
  BY Zenon DEF SyncStart
<1>2. LogTypes' /\ StateTypes' /\ SigTypes'
  <2>1. LogTypes' /\ SigTypes'
    BY <1>1, Zenon DEF ValInv, logVars, chainVars, LogTypes, SigTypes
  <2>2. syncs' \in Nat
    BY <1>1 DEF ValInv, StateTypes
  <2>3. blockNumLow' \in BOOLEAN
    BY <1>1, Zenon
  <2>4. StateTypes'
    BY <1>1, <2>2, <2>3, Zenon DEF ValInv, StateTypes
  <2> QED
    BY <2>1, <2>4, Zenon
<1>3. sync'.pc = "download" /\ sync'.todo = sync.todo
  BY <1>1, Zenon DEF ValInv, ThreadTypes
<1>4. ThreadTypes'
  BY <1>1, <1>3, Zenon DEF ValInv, ThreadTypes
<1>5. AllGood'
  BY <1>1, <1>3, Zenon DEF ValInv, logVars, chainVars, AllGood
<1>6. NotAhead' /\ Follows'
  BY <1>1, <1>3, Zenon DEF ValInv, chainVars, NotAhead, Follows
<1> QED
  BY <1>2, <1>4, <1>5, <1>6, Zenon DEF ValInv

\* BlocksNotSynchronized: the main loop reads the head.
LEMMA NotReadyReadKeeps == ASSUME ValInv, NotReadyRead PROVE ValInv'
<1>1. /\ sync' = [sync EXCEPT !.pc = "download"] /\ syncs' = syncs + 1
      /\ main' = [pc |-> "notReady", num |-> head.num + 1]
      /\ UNCHANGED <<blockNum, mode, verifier, logVars, chainVars, announcing, replays, catchup,
                     blockNumLow, sent>>
  BY Zenon DEF NotReadyRead
<1>2. LogTypes' /\ StateTypes' /\ SigTypes'
  BY <1>1 DEF ValInv, logVars, chainVars, LogTypes, StateTypes, SigTypes
<1>3. sync'.pc = "download" /\ sync'.todo = sync.todo /\ head.num \in Nat
  BY <1>1, GoodHeight, Zenon DEF ValInv, ThreadTypes, AllGood
<1>4. ThreadTypes'
  BY <1>1, <1>3 DEF ValInv, ThreadTypes
<1>5. AllGood'
  BY <1>1, <1>3, Zenon DEF ValInv, logVars, chainVars, AllGood
<1>6. NotAhead' /\ Follows'
  BY <1>1, <1>3 DEF ValInv, chainVars, NotAhead, Follows
<1> QED
  BY <1>2, <1>4, <1>5, <1>6 DEF ValInv

\* The main loop then sets blockNum from the head it read, without the mutex.
LEMMA NotReadySetKeeps == ASSUME ValInv, NotReadySet PROVE ValInv'
<1>1. /\ main.pc = "notReady" /\ main' = [main EXCEPT !.pc = "select"]
      /\ blockNum' = main.num /\ mode' = "Syncing"
      /\ UNCHANGED <<verifier, logVars, chainVars, announcing, replays, catchup, syncVars,
                     blockNumLow, sent>>
  BY Zenon DEF NotReadySet
<1>2. main'.num = main.num /\ main'.pc = "select" /\ main.num \in Nat /\ sync.pc # "idle"
  BY <1>1, Zenon DEF ValInv, ThreadTypes
<1>3. LogTypes' /\ StateTypes' /\ SigTypes'
  BY <1>1, <1>2, Zenon DEF ValInv, logVars, chainVars, syncVars, LogTypes, StateTypes, SigTypes
<1>4. ThreadTypes'
  BY <1>1, <1>2, Zenon DEF ValInv, syncVars, ThreadTypes
<1>5. AllGood'
  BY <1>1, Zenon DEF ValInv, logVars, chainVars, syncVars, AllGood
<1>6. NotAhead' /\ Follows'
  BY <1>1, <1>2, Zenon DEF ValInv, chainVars, syncVars, NotAhead, Follows
<1> QED
  BY <1>3, <1>4, <1>5, <1>6, Zenon DEF ValInv

\* The synchronisation inserts a committed block while it is under way.
LEMMA SyncInserts ==
  ASSUME ValInv, NEW b \in Committed, CanInsert(b), InsertChain(b), sync'.pc # "idle",
         UNCHANGED <<blockNum, catchup, main>>
  PROVE  NotAhead' /\ Follows'
<1>1. /\ head' = b /\ b.num = head.num + 1 /\ head.num \in Nat
  BY InsertFacts, Zenon
<1>2. blockNum \in Nat /\ main.num \in Nat
  BY Zenon DEF ValInv, StateTypes, ThreadTypes
<1>3. catchup.pc = "setup" => catchup.todo[1].blk.num \in Nat
  BY CatchupHead, Zenon DEF ValInv, ThreadTypes
<1> QED
  BY <1>1, <1>2, <1>3 DEF ValInv, NotAhead, Follows

\* The synchronisation inserts a committed block from a peer.
LEMMA SyncInsertKeeps == ASSUME ValInv, SyncInsert PROVE ValInv'
<1>1. PICK b \in Committed : CanInsert(b) /\ InsertChain(b)
  BY Zenon DEF SyncInsert
<1>2. /\ sync.pc = "download"
      /\ UNCHANGED <<blockNum, mode, verifier, logVars, commitSigs, announcing, replays, catchup,
                     main, syncVars, blockNumLow, sent>>
  BY Zenon DEF SyncInsert
<1>3. LogTypes' /\ StateTypes' /\ SigTypes'
  BY <1>2, Zenon DEF ValInv, logVars, syncVars, LogTypes, StateTypes, SigTypes
<1>4. ThreadTypes'
  BY <1>2, Zenon DEF ValInv, syncVars, ThreadTypes
<1>5. AllGood'
  BY <1>1, <1>2, InsertFacts, Zenon DEF ValInv, logVars, syncVars, AllGood
<1>6. NotAhead' /\ Follows'
  BY <1>1, <1>2, SyncInserts, Zenon DEF syncVars
<1> QED
  BY <1>3, <1>4, <1>5, <1>6, Zenon DEF ValInv

\* GetLastMileBlockIter starts above the head, or fails without a verifier.
LEMMA GetLastMileBlockIterKeeps == ASSUME ValInv, GetLastMileBlockIter PROVE ValInv'
<1>1. PICK todo \in IF verifier THEN getLastMileBlocksAndMsg(blocks, msgs, head.num + 1) ELSE {<<>>} :
        sync' = [pc |-> "iter", todo |-> todo]
  BY Zenon DEF GetLastMileBlockIter
<1>2. UNCHANGED <<blockNum, mode, verifier, logVars, chainVars, announcing, replays, catchup,
                  main, syncs, blockNumLow, sent>>
  BY Zenon DEF GetLastMileBlockIter
<1>3. head.num + 1 \in Nat
  BY GoodHeight DEF ValInv, AllGood
<1>4. todo \in Seq(Pair) /\ \A i \in 1..Len(todo) : todo[i].blk \in Committed
  <2>1. CASE todo = <<>>
    BY <2>1
  <2>2. CASE todo \in getLastMileBlocksAndMsg(blocks, msgs, head.num + 1)
    BY <1>3, <2>2, LastMile, Zenon DEF ValInv, LogTypes, AllGood
  <2> QED
    BY <2>1, <2>2, Zenon
<1>5. LogTypes' /\ StateTypes' /\ SigTypes'
  BY <1>2, Zenon DEF ValInv, logVars, chainVars, LogTypes, StateTypes, SigTypes
<1>6. ThreadTypes'
  BY <1>1, <1>2, <1>4, Zenon DEF ValInv, ThreadTypes
<1>7. AllGood'
  BY <1>1, <1>2, <1>4, Zenon DEF ValInv, logVars, chainVars, AllGood
<1>8. NotAhead' /\ Follows'
  BY <1>1, <1>2, Zenon DEF ValInv, chainVars, NotAhead, Follows
<1> QED
  BY <1>5, <1>6, <1>7, <1>8, Zenon DEF ValInv

\* Next of the iterator, with the caller's insertion of the block.
LEMMA IterNextKeeps == ASSUME ValInv, IterNext PROVE ValInv'
<1> DEFINE b == Head(sync.todo).blk
<1>1. /\ sync.pc = "iter"
      /\ UNCHANGED <<blockNum, mode, verifier, blocks, msgs, commitSigs, announcing, replays, catchup,
                     main, syncs, blockNumLow, sent>>
  BY Zenon DEF IterNext
<1>2. \/ /\ sync' = [pc |-> "done", todo |-> <<>>] /\ UNCHANGED <<head, chain>>
         /\ \/ UNCHANGED verifiedBlocks
            \/ sync.todo # <<>> /\ verifiedBlocks' = verifiedBlocks \cup {b.hash}
      \/ /\ sync.todo # <<>> /\ CanInsert(b) /\ InsertChain(b)
         /\ sync' = [sync EXCEPT !.todo = Tail(@)]
         /\ verifiedBlocks' = verifiedBlocks \cup {b.hash}
  BY Zenon DEF IterNext
<1>3. sync \in [pc : {"idle", "download", "iter", "done"}, todo : Seq(Pair)]
  BY Zenon DEF ValInv, ThreadTypes
<1>4. sync.todo # <<>> => b \in Committed /\ b \in Blocks
  <2>1. sync.todo # <<>> => Head(sync.todo) = sync.todo[1] /\ 1 \in 1..Len(sync.todo)
    BY <1>3, FirstTodo, Zenon
  <2>2. sync.todo # <<>> => b \in Committed
    BY <2>1, Zenon DEF ValInv, AllGood
  <2> QED
    BY <2>2, ValidatorAssumption, Zenon
<1> HIDE DEF b
<1>5. LogTypes'
  BY <1>1, <1>2, <1>4, Zenon DEF ValInv, LogTypes
<1>6. StateTypes' /\ SigTypes'
  BY <1>1, Zenon DEF ValInv, StateTypes, SigTypes
<1>7. CASE sync' = [pc |-> "done", todo |-> <<>>] /\ UNCHANGED <<head, chain>>
  <2>1. sync'.pc = "done" /\ sync'.todo = <<>> /\ <<>> \in Seq(Pair)
    BY <1>7
  <2>2. ThreadTypes'
    BY <1>1, <1>7, <2>1, Zenon DEF ValInv, ThreadTypes
  <2>3. AllGood'
    BY <1>1, <1>7, <2>1 DEF ValInv, AllGood
  <2>4. NotAhead' /\ Follows'
    BY <1>1, <1>7, <2>1, Zenon DEF ValInv, NotAhead, Follows
  <2> QED
    BY <1>5, <1>6, <2>2, <2>3, <2>4, Zenon DEF ValInv
<1>8. CASE /\ sync.todo # <<>> /\ CanInsert(b) /\ InsertChain(b)
           /\ sync' = [sync EXCEPT !.todo = Tail(@)]
  <2>1. /\ sync'.pc = "iter" /\ sync'.todo = Tail(sync.todo) /\ Tail(sync.todo) \in Seq(Pair)
        /\ sync' \in [pc : {"idle", "download", "iter", "done"}, todo : Seq(Pair)]
    BY <1>1, <1>3, <1>8, FirstTodo, Zenon
  <2>2. \A i \in 1..Len(sync'.todo) : sync'.todo[i] = sync.todo[i + 1] /\ i + 1 \in 1..Len(sync.todo)
    BY <1>3, <1>8, <2>1, FirstTodo, Zenon
  <2>3. ThreadTypes'
    BY <1>1, <2>1, Zenon DEF ValInv, ThreadTypes
  <2>4. AllGood'
    BY <1>1, <1>4, <1>8, <2>2, InsertFacts, Zenon DEF ValInv, AllGood
  <2>5. NotAhead' /\ Follows'
    BY <1>1, <1>4, <1>8, <2>1, SyncInserts, Zenon
  <2> QED
    BY <1>5, <1>6, <2>3, <2>4, <2>5 DEF ValInv
<1> QED
  BY <1>2, <1>7, <1>8, Zenon

\* The main loop takes the mutex, so no catch-up is under way: blockNum is raised to
\* the height after the head, above which it never was.
LEMMA SyncReadyKeeps == ASSUME ValInv, SyncReady PROVE ValInv'
<1>1. /\ sync.pc = "done" /\ main.pc = "select" /\ catchup.pc = "none"
      /\ sync' = [sync EXCEPT !.pc = "idle"]
      /\ UNCHANGED <<verifier, logVars, chainVars, announcing, replays, catchup, main, syncs,
                     blockNumLow, sent>>
  BY Zenon DEF SyncReady, MutexFree
<1>2. head.num \in Nat /\ blockNum \in Nat /\ blockNum <= head.num + 1
  BY GoodHeight, Zenon DEF ValInv, AllGood, StateTypes, NotAhead
<1>3. blockNum' = head.num + 1
  BY <1>2 DEF SyncReady
<1>4. mode' \in {"Normal", "Syncing", "Listening"}
  BY Modes, Zenon DEF SyncReady, ValInv, StateTypes
<1>5. LogTypes' /\ SigTypes'
  BY <1>1, Zenon DEF ValInv, logVars, chainVars, LogTypes, SigTypes
<1>6. StateTypes'
  BY <1>1, <1>2, <1>3, <1>4 DEF ValInv, StateTypes
<1>7. sync'.pc = "idle" /\ sync'.todo = sync.todo /\ catchup.todo = <<>>
  BY <1>1, Zenon DEF ValInv, ThreadTypes
<1>8. ThreadTypes'
  BY <1>1, <1>7, Zenon DEF ValInv, ThreadTypes
<1>9. AllGood'
  BY <1>1, <1>7, Zenon DEF ValInv, logVars, chainVars, AllGood
<1>10. NotAhead'
  BY <1>1, <1>2, <1>3 DEF ValInv, chainVars, NotAhead
<1>11. Follows'
  BY <1>1, <1>3, <1>7 DEF chainVars, Follows
<1> QED
  BY <1>5, <1>6, <1>8, <1>9, <1>10, <1>11, Zenon DEF ValInv

------------------------------------------------------------------------------
(* The theorems.                                                           *)

\* The invariant holds at the start.
LEMMA ValInit == Init => ValInv
<1> SUFFICES ASSUME Init PROVE ValInv
  BY Zenon
<1>1. Start \in Good /\ Start.num \in Nat
  BY ValidatorAssumption, GoodHeight, Zenon DEF Good
<1>2. blocks \subseteq Blocks /\ IsFiniteSet(blocks)
  <2>1. StartSig # NoPayload => Start \in Blocks
    BY ValidatorAssumption, Zenon
  <2>2. blocks = IF StartSig = NoPayload THEN {} ELSE {Start}
    BY Zenon DEF Init
  <2>3. IsFiniteSet({}) /\ IsFiniteSet({Start})
    BY FS_EmptySet, FS_Singleton, Zenon
  <2> QED
    BY <2>1, <2>2, <2>3, Zenon
<1>3. LogTypes
  BY <1>2, Zenon DEF Init, LogTypes
<1>4. StateTypes
  <2>1. blockNum \in Nat /\ syncs \in Nat /\ sent = {}
    BY <1>1 DEF Init
  <2>2. mode \in {"Normal", "Syncing", "Listening"} /\ verifier \in BOOLEAN /\ blockNumLow \in BOOLEAN
    BY ValidatorAssumption, Zenon DEF Init
  <2> QED
    BY <2>1, <2>2, Zenon DEF StateTypes
<1>5. SigTypes
  BY ValidatorAssumption, Zenon DEF Init, SigTypes
<1>6. ThreadTypes
  <2>1. <<>> \in Seq(Pair)
    OBVIOUS
  <2>2. /\ catchup = [pc |-> "none", todo |-> <<>>] /\ main = [pc |-> "select", num |-> 0]
        /\ sync = [pc |-> "idle", todo |-> <<>>]
    BY Zenon DEF Init, NotCatching
  <2> QED
    BY <2>1, <2>2, Zenon DEF ThreadTypes
<1>7. AllGood
  <2>1. catchup.todo = <<>> /\ sync.todo = <<>>
    BY Zenon DEF Init, NotCatching
  <2>2. VerifiedCommitted(msgs)
    BY Zenon DEF Init, VerifiedCommitted
  <2>3. chain \subseteq Good /\ head \in Good
    BY <1>1, Zenon DEF Init
  <2> QED
    BY <2>1, <2>2, <2>3 DEF AllGood
<1>8. NotAhead /\ Follows
  BY <1>1 DEF Init, NotCatching, NotAhead, Follows
<1> QED
  BY <1>3, <1>4, <1>5, <1>6, <1>7, <1>8, Zenon DEF ValInv

\* Every step of the handlers, the catch-up, the main loop and the synchronisation keeps the invariant.
LEMMA ValStep == ValInv /\ [Next]_vars => ValInv'
<1> SUFFICES ASSUME ValInv, [Next]_vars PROVE ValInv'
  BY Zenon
<1>1. CASE Next
  BY <1>1, SetBlockVerifierKeeps, OnAnnounceKeeps, PrepareKeeps, OnPreparedKeeps, OnCommittedKeeps, Zenon,
     ReplayStartKeeps, ReplayCommittedKeeps, CatchupNextKeeps, CatchupInsertKeeps, CatchupSetupKeeps,
     NotReadySetKeeps, SyncStartKeeps, NotReadyReadKeeps, SyncInsertKeeps,
     GetLastMileBlockIterKeeps, IterNextKeeps, SyncReadyKeeps
     DEF Next, CatchupStep, ReplayStep, SyncStep
<1>2. CASE UNCHANGED vars
  <2>1. UNCHANGED <<blockNum, mode, verifier, logVars, chainVars, announcing, replays, catchup, main,
                    syncVars, blockNumLow, sent>>
    BY <1>2, Zenon DEF vars
  <2>2. LogTypes' /\ StateTypes' /\ SigTypes'
    BY <2>1, Zenon DEF ValInv, logVars, chainVars, syncVars, LogTypes, StateTypes, SigTypes
  <2>3. UNCHANGED heightVars /\ VerifiedCommitted(msgs')
    BY <2>1, Zenon DEF ValInv, logVars, chainVars, syncVars, AllGood, heightVars
  <2> QED
    BY <2>2, <2>3, HeightKept, Zenon DEF ValInv
<1> QED
  BY <1>1, <1>2, Zenon

\* The invariant holds always.
LEMMA ValAlways == Spec => []ValInv
BY ValInit, ValStep, PTL DEF Spec

\* For every order, loss and repetition of the messages of a leader and every
\* interleaving of catch-up and synchronisation, onCommitted and tryCatchup bring
\* committed blocks only into the chain.
THEOREM ChainOfCommitted == Spec => []OnlyCommittedChain
<1>1. ValInv => OnlyCommittedChain
  BY Zenon DEF ValInv, AllGood, Good, OnlyCommittedChain
<1> QED
  BY <1>1, ValAlways, PTL

\* The invariant includes the types that the runs check.
LEMMA ValTypes == ValInv => TypeOK
<1> SUFFICES ASSUME ValInv PROVE TypeOK
  BY Zenon
<1>1. head \in Blocks \cup {Genesis} /\ chain \subseteq Blocks \cup {Genesis}
  BY ValidatorAssumption, Zenon DEF ValInv, AllGood, Good
<1>2. \A t \in {catchup.todo, sync.todo} : \A i \in DOMAIN t :
        t[i].blk \in Blocks /\ t[i].msg \in LoggedMsgs
  <2>1. ASSUME NEW t \in Seq(Pair), NEW i \in DOMAIN t
        PROVE  t[i].blk \in Blocks /\ t[i].msg \in LoggedMsgs
    <3>1. t[i] \in Pair
      BY <2>1
    <3> QED
      BY <3>1, Zenon DEF Pair
  <2>2. catchup.todo \in Seq(Pair) /\ sync.todo \in Seq(Pair)
    BY Zenon DEF ValInv, ThreadTypes
  <2> QED
    BY <2>1, <2>2, Zenon
<1>3. replays \subseteq [blk : Blocks, msgs : SUBSET LoggedMsgs]
  BY Zenon DEF ValInv, LogTypes, ReplayRec
<1>4. /\ catchup.pc \in {"none", "next", "insert", "setup"}
      /\ main.pc \in {"select", "notReady"} /\ main.num \in Nat
      /\ sync.pc \in {"idle", "download", "iter", "done"}
  BY Zenon DEF ValInv, ThreadTypes
<1> QED
  BY <1>1, <1>2, <1>3, <1>4, Zenon DEF ValInv, LogTypes, StateTypes, SigTypes, TypeOK

\* The height a validator agrees on never passes the block after its head, and is that
\* of the next block whenever the main loop, tryCatchup and the state synchronisation
\* are at rest, although SyncStart, NotReadySet and tryCatchup move both under
\* different locks.
THEOREM HeightFollows == Spec => []HeightFollowsHead
<1>1. ValInv => BlockNumNotAhead
  BY Zenon DEF ValInv, NotAhead, BlockNumNotAhead
<1>2. ValInv => BlockNumIsNext
  BY Zenon DEF ValInv, Follows, BlockNumIsNext, MutexFree
<1>3. ValInv => HeightFollowsHead
  BY <1>1, <1>2, ValTypes, Zenon DEF HeightFollowsHead
<1> QED
  BY <1>3, ValAlways, PTL

\* Only onCommitted writes a commit signature.
LEMMA SigStep ==
  ASSUME ValInv, [Next]_vars, commitSigs' # commitSigs
  PROVE  \E m \in LoggedMsgs : m.type = "COMMITTED" /\ onCommitted(m)
<1>1. CASE OnCommitted
  BY <1>1, WireLogged, Zenon DEF OnCommitted
<1>2. ASSUME NEW b \in Blocks, ReplayCommitted(b)
      PROVE  \E m \in LoggedMsgs : m.type = "COMMITTED" /\ onCommitted(m)
  <2>1. PICK r \in replays : \E m \in r.msgs : onCommitted(m)
    BY <1>2, Zenon DEF ReplayCommitted, chainVars
  <2> QED
    BY <2>1, Zenon DEF ValInv, LogTypes, ReplayRec
<1>3. \/ OnCommitted \/ \E b \in Blocks : ReplayCommitted(b)
  BY Zenon DEF Next, vars, CatchupStep, ReplayStep, SyncStep, chainVars, SetBlockVerifier, OnAnnounce,
         onAnnounce, Prepare, OnPrepared, onPrepared, ReplayStart, CatchupNext, CatchupInsert,
         CatchupSetup, NotReadySet, SyncStart, NotReadyRead, SyncInsert, GetLastMileBlockIter,
         IterNext, SyncReady
<1> QED
  BY <1>1, <1>2, <1>3, Zenon

\* A stored commit signature is only replaced, for the block of the chain of that
\* height, by one with more signers that verifies.
THEOREM SignaturesImprove == Spec => CommitSigsImprove
<1> DEFINE Improves(n) ==
      commitSigs'[n] # commitSigs[n] =>
         /\ Cardinality(commitSigs'[n].bitmap) > Cardinality(commitSigs[n].bitmap)
         /\ \E b \in chain' : /\ b.num = n
                              /\ VerifyHash(commitSigs'[n].agg, commitSigs'[n].bitmap, b.hash)
<1>1. ASSUME ValInv, [Next]_vars, NEW n \in DOMAIN commitSigs
      PROVE  Improves(n)
  <2>1. SUFFICES ASSUME commitSigs'[n] # commitSigs[n]
                 PROVE  /\ Cardinality(commitSigs'[n].bitmap) > Cardinality(commitSigs[n].bitmap)
                        /\ \E b \in chain' :
                             /\ b.num = n
                             /\ VerifyHash(commitSigs'[n].agg, commitSigs'[n].bitmap, b.hash)
    BY Zenon
  <2>2. PICK m \in LoggedMsgs : onCommitted(m)
    BY <1>1, <2>1, SigStep, Zenon
  <2>3. PICK b \in blocks : CommittedVerifies(m, b) /\ commitSigs' = overrideCommitSig(b, m.payload)
    BY <2>1, <2>2, Zenon DEF onCommitted, GetBlockByHash
  <2>4. /\ b \in chain /\ Cardinality(m.payload.bitmap) > Cardinality(commitSigs[b.num].bitmap)
        /\ commitSigs' = [commitSigs EXCEPT ![b.num] = m.payload]
    BY <2>1, <2>3, Zenon DEF overrideCommitSig
  <2>5. n = b.num /\ commitSigs'[n] = m.payload
    BY <2>1, <2>4, Zenon
  <2>6. chain' = chain
    BY <2>2, Zenon DEF onCommitted
  <2> QED
    BY <2>3, <2>4, <2>5, <2>6, Zenon DEF CommittedVerifies
<1>2. ValInv /\ [Next]_vars => [\A n \in DOMAIN commitSigs : Improves(n)]_vars
  BY <1>1, Zenon
<1> QED
  BY <1>2, ValAlways, PTL DEF Spec, CommitSigsImprove

------------------------------------------------------------------------------
(* onCommitted leaves nothing behind, while no synchronisation moves the    *)
(* head under tryCatchup.                                                   *)

\* No verified COMMITTED of height n together with its block.
NothingFor(bs, ms, n) ==
  \A b \in bs, m \in ms :
    ~(m.type = "COMMITTED" /\ m.num = n /\ m.verified /\ b.hash = m.hash)

\* The block of a verified COMMITTED stays in the log as long as the message.
HasBlock == \A m \in msgs : m.type = "COMMITTED" /\ m.verified => \E b \in blocks : b.hash = m.hash

\* Beyond the blocks that tryCatchup has in hand there is nothing.
Behind ==
  NothingFor(blocks, msgs, head.num + Len(catchup.todo) + (IF catchup.pc = "setup" THEN 0 ELSE 1))

Quiet == sync.pc = "idle" /\ main.pc = "select" /\ verifier = TRUE

LeftInv == Quiet /\ HasBlock /\ Behind

\* NothingFor is what GetCommittedBlockAndMsgsFromNumber finds.
LEMMA NothingFound ==
  ASSUME NEW bs, NEW ms, NEW n
  PROVE  GetCommittedBlockAndMsgsFromNumber(bs, ms, n) = {} <=> NothingFor(bs, ms, n)
<1>1. ASSUME NEW b \in bs, NEW m \in ms, m.type = "COMMITTED", m.num = n, m.verified, b.hash = m.hash
      PROVE  [blk |-> b, msg |-> m] \in GetCommittedBlockAndMsgsFromNumber(bs, ms, n)
  BY <1>1, Zenon DEF GetCommittedBlockAndMsgsFromNumber, GetMessagesByTypeSeq
<1>2. ASSUME NEW p \in GetCommittedBlockAndMsgsFromNumber(bs, ms, n)
      PROVE  /\ p.blk \in bs /\ p.msg \in ms /\ p.msg.type = "COMMITTED" /\ p.msg.num = n
             /\ p.msg.verified /\ p.blk.hash = p.msg.hash
  BY Zenon DEF GetCommittedBlockAndMsgsFromNumber, GetMessagesByTypeSeq
<1>3. ASSUME NothingFor(bs, ms, n) PROVE GetCommittedBlockAndMsgsFromNumber(bs, ms, n) = {}
  BY <1>2, <1>3, Zenon DEF NothingFor
<1>4. ASSUME GetCommittedBlockAndMsgsFromNumber(bs, ms, n) = {} PROVE NothingFor(bs, ms, n)
  BY <1>1, <1>4, Zenon DEF NothingFor
<1> QED
  BY <1>3, <1>4, Zenon

\* getLastMileBlocksAndMsg stops at the first height without a block to commit.
LEMMA LastMileEnds ==
  ASSUME LogTypes, NEW ms \in SUBSET LoggedMsgs, NEW n \in Nat,
         NEW todo \in getLastMileBlocksAndMsg(blocks, ms, n), todo \in Seq(Pair)
  PROVE  NothingFor(blocks, ms, n + Len(todo))
<1> DEFINE At(k) == GetCommittedBlockAndMsgsFromNumber(blocks, ms, k)
           heights == {k \in {b.num : b \in blocks} : k >= n /\ \A j \in n..k : At(j) # {}}
           length == Cardinality(heights)
<1>1. IsFiniteSet({b.num : b \in blocks})
  <2>1. [b \in blocks |-> b.num] \in Surjection(blocks, {b.num : b \in blocks})
    BY Zenon DEF Surjection
  <2> QED
    BY <2>1, FS_Surjection, Zenon DEF LogTypes
<1>2. IsFiniteSet(heights) /\ length \in Nat
  BY <1>1, FS_Subset, FS_CardinalityType, Zenon
<1>3. todo \in [1..length -> UNION {At(b.num) : b \in blocks}] /\ \A i \in 1..length : todo[i] \in At(n + i - 1)
  BY Zenon DEF getLastMileBlocksAndMsg
<1> HIDE DEF At, heights, length
<1>4. Len(todo) = length
  <2>1. DOMAIN todo = 1..length /\ DOMAIN todo = 1..Len(todo) /\ Len(todo) \in Nat
    BY <1>3
  <2> QED
    BY <1>2, <2>1
<1>5. ASSUME NEW k, NEW p \in At(k)
      PROVE  k \in {b.num : b \in blocks}
  <2>1. /\ p.blk \in blocks /\ p.msg \in LoggedMsgs /\ p.msg.num = k /\ p.blk.hash = p.msg.hash
    BY <1>5, Zenon DEF At, GetCommittedBlockAndMsgsFromNumber, GetMessagesByTypeSeq
  <2>2. p.blk \in Blocks
    BY <2>1, Zenon DEF LogTypes
  <2>3. p.msg.num = p.blk.num
    BY <2>1, <2>2, LoggedFacts, Zenon
  <2> QED
    BY <2>1, <2>3, Zenon
<1>6. ASSUME At(n + length) # {} PROVE FALSE
  <2>1. ASSUME NEW k \in n..(n + length) PROVE At(k) # {}
    <3>1. CASE k = n + length
      BY <1>6, <3>1, Zenon
    <3>2. CASE k # n + length
      <4>1. k - n + 1 \in 1..length /\ n + (k - n + 1) - 1 = k
        BY <1>2, <3>2
      <4> QED
        BY <1>3, <4>1, Zenon
    <3> QED
      BY <3>1, <3>2, Zenon
  <2>2. n..(n + length) \subseteq heights
    <3> SUFFICES ASSUME NEW k \in n..(n + length) PROVE k \in heights
      BY Zenon
    <3>1. k \in {b.num : b \in blocks}
      <4>1. PICK p : p \in At(k)
        BY <2>1, Zenon
      <4> QED
        BY <1>5, <4>1, Zenon
    <3>2. k >= n /\ n..k \subseteq n..(n + length)
      BY <1>2
    <3>3. \A j \in n..k : At(j) # {}
      BY <2>1, <3>2, Zenon
    <3> QED
      BY <3>1, <3>2, <3>3, Zenon DEF heights
  <2>3. Cardinality(n..(n + length)) <= length
    BY <1>2, <2>2, FS_Subset, Zenon DEF length
  <2>4. Cardinality(n..(n + length)) = length + 1
    BY <1>2, FS_Interval
  <2> QED
    BY <1>2, <2>3, <2>4
<1> QED
  BY <1>4, <1>6, NothingFound, Zenon DEF At

\* A step that adds no verified COMMITTED and takes no block away.
LEMMA LogGrows ==
  ASSUME ValInv, LeftInv, UNCHANGED <<head, sync, main>>, verifier' = TRUE,
         catchup'.todo = catchup.todo, catchup'.pc = "setup" <=> catchup.pc = "setup",
         blocks \subseteq blocks', blocks' \subseteq Blocks,
         \A m \in msgs' : m.type = "COMMITTED" /\ m.verified => m \in msgs
  PROVE  LeftInv'
<1>1. Quiet'
  BY Zenon DEF LeftInv, Quiet
<1>2. HasBlock'
  BY Zenon DEF LeftInv, HasBlock
<1>3. PICK n : n = head.num + Len(catchup.todo) + (IF catchup.pc = "setup" THEN 0 ELSE 1)
  BY Zenon
<1>4. NothingFor(blocks, msgs, n)
  BY <1>3, Zenon DEF LeftInv, Behind
<1>5. ASSUME NEW b \in blocks', NEW m \in msgs', m.type = "COMMITTED", m.num = n, m.verified, b.hash = m.hash
      PROVE  FALSE
  <2>1. m \in msgs
    BY <1>5, Zenon
  <2>2. PICK c \in blocks : c.hash = m.hash
    BY <1>5, <2>1, Zenon DEF LeftInv, HasBlock
  <2> QED
    BY <1>4, <1>5, <2>1, <2>2, Zenon DEF NothingFor
<1>6. NothingFor(blocks', msgs', n)
  BY <1>5, Zenon DEF NothingFor
<1>7. n = head'.num + Len(catchup'.todo) + (IF catchup'.pc = "setup" THEN 0 ELSE 1)
  BY <1>3, Zenon
<1>8. Behind'
  BY <1>6, <1>7, Zenon DEF Behind
<1> QED
  BY <1>1, <1>2, <1>8, Zenon DEF LeftInv

\* The messages that arrive outside onCommitted.
LEMMA HandlersLeave ==
  ASSUME ValInv, LeftInv, SetBlockVerifier \/ OnAnnounce \/ Prepare \/ OnPrepared
  PROVE  LeftInv'
<1>1. UNCHANGED <<head, sync, main, catchup>> /\ verifier' = TRUE
  BY Zenon DEF SetBlockVerifier, OnAnnounce, onAnnounce, Prepare, OnPrepared, onPrepared, LeftInv, Quiet,
         chainVars, syncVars
<1>2. blocks \subseteq blocks' /\ blocks' \subseteq Blocks
  <2>1. blocks \subseteq Blocks
    BY Zenon DEF ValInv, LogTypes
  <2>2. blocks' = blocks \/ \E b \in Blocks : blocks' = AddBlock(blocks, b)
    BY Zenon DEF SetBlockVerifier, OnAnnounce, onAnnounce, Prepare, OnPrepared, onPrepared, logVars
  <2>3. ASSUME NEW b \in Blocks, blocks' = AddBlock(blocks, b)
        PROVE  blocks \subseteq blocks' /\ blocks' \subseteq Blocks
    BY <2>1, <2>3, ValidatorAssumption, Zenon DEF AddBlock
  <2> QED
    BY <2>1, <2>2, <2>3, Zenon
<1>3. \A m \in msgs' : m.type = "COMMITTED" /\ m.verified => m \in msgs
  <2>1. msgs' = msgs \/ \E m \in Wire : m.type # "COMMITTED" /\ msgs' = AddVerifiedMessage(msgs, m)
    BY Zenon DEF SetBlockVerifier, OnAnnounce, onAnnounce, Prepare, OnPrepared, onPrepared, logVars
  <2>2. ASSUME NEW m \in Wire, m.type # "COMMITTED", msgs' = AddVerifiedMessage(msgs, m)
        PROVE  \A k \in msgs' : k.type = "COMMITTED" => k \in msgs
    <3>1. m \in MsgRec
      BY ValidatorAssumption, Zenon DEF MsgRec
    <3>2. [m EXCEPT !.verified = TRUE].type # "COMMITTED"
      BY <2>2, <3>1, Zenon DEF MsgRec
    <3> QED
      BY <2>2, <3>2, Zenon DEF AddVerifiedMessage, Store
  <2> QED
    BY <2>1, <2>2, Zenon
<1> QED
  BY <1>1, <1>2, <1>3, LogGrows, Zenon

\* onCommitted: what it marks as verified is in the list it hands to tryCatchup.
LEMMA onCommittedLeaves ==
  ASSUME ValInv, LeftInv, NEW m \in LoggedMsgs, m.type = "COMMITTED", onCommitted(m)
  PROVE  LeftInv'
<1>1. UNCHANGED <<head, sync, main, blocks, blockNum, verifier>> /\ catchup.pc = "none" /\ verifier = TRUE
  BY Zenon DEF onCommitted, LeftInv, Quiet, syncVars, MutexFree
<1>2. PICK m0 : m0 = [m EXCEPT !.verified = FALSE]
  BY Zenon
<1>3. PICK m1 : m1 = [m EXCEPT !.verified = TRUE]
  BY Zenon
<1>4. /\ m0.verified = FALSE /\ m1.type = "COMMITTED" /\ m1.hash = m.hash /\ m1 \in LoggedMsgs
      /\ m0 \in LoggedMsgs
  BY <1>2, <1>3, LoggedFacts, Zenon DEF MsgRec
<1>5. CASE {b \in GetBlockByHash(blocks, m.hash) : CommittedVerifies(m, b)} = {}
  <2>1. msgs' = Store(msgs, m0) /\ catchup' = catchup
    BY <1>2, <1>5, Zenon DEF onCommitted, AddNotVerifiedMessage
  <2>2. \A k \in msgs' : k.type = "COMMITTED" /\ k.verified => k \in msgs
    BY <1>4, <2>1, Zenon DEF Store
  <2>3. blocks' \subseteq Blocks
    BY <1>1, Zenon DEF ValInv, LogTypes
  <2> QED
    BY <1>1, <2>1, <2>2, <2>3, LogGrows, Zenon
<1>6. CASE {b \in GetBlockByHash(blocks, m.hash) : CommittedVerifies(m, b)} # {}
  <2>1. PICK b \in blocks : b.hash = m.hash /\ CommittedVerifies(m, b)
    BY <1>6, Zenon DEF GetBlockByHash
  <2>2. msgs' = Store(Store(msgs, m0), m1)
    BY <1>2, <1>3, <1>6, Zenon DEF onCommitted, AddNotVerifiedMessage, AddVerifiedMessage
  <2>3. PICK todo : /\ todo \in getLastMileBlocksAndMsg(blocks, msgs', blockNum)
                    /\ catchup' = [pc |-> "next", todo |-> todo]
    BY <1>1, <1>6, Zenon DEF onCommitted
  <2>4. catchup'.pc = "next" /\ catchup'.todo = todo
    BY <2>3, Zenon
  <2>5. \A k \in msgs' : k = m1 \/ k \in msgs \/ ~k.verified
    BY <1>4, <2>2, Zenon DEF Store
  <2>6. msgs' \in SUBSET LoggedMsgs /\ VerifiedCommitted(msgs')
    <3>1. \A c \in Blocks : c.hash = m1.hash => c \in Committed
      BY <1>4, <2>1, LoggedFacts, ValidatorAssumption DEF ValInv, LogTypes
    <3>2. Store(msgs, m0) \in SUBSET LoggedMsgs /\ VerifiedCommitted(Store(msgs, m0))
      BY <1>4, StoreKeeps, Zenon DEF ValInv, LogTypes, AllGood
    <3> QED
      BY <1>4, <2>2, <3>1, <3>2, StoreKeeps, Zenon
  <2>7. blockNum \in Nat /\ LogTypes /\ blockNum = head.num + 1 /\ head.num \in Nat
    <3>1. head.num \in Nat
      BY GoodHeight, Zenon DEF ValInv, AllGood
    <3> QED
      BY <1>1, <3>1, Zenon DEF ValInv, StateTypes, LeftInv, Quiet, Follows
  <2>8. todo \in Seq(Pair) /\ Len(todo) \in Nat
    BY <2>3, <2>6, <2>7, LastMile
  <2>9. NothingFor(blocks, msgs', blockNum + Len(todo))
    BY <2>3, <2>6, <2>7, <2>8, LastMileEnds, Zenon
  <2>10. blockNum + Len(todo) = head'.num + Len(catchup'.todo) + (IF catchup'.pc = "setup" THEN 0 ELSE 1)
    BY <1>1, <2>4, <2>7, <2>8
  <2>11. Behind'
    BY <1>1, <2>9, <2>10, Zenon DEF Behind
  <2>12. HasBlock'
    BY <1>1, <1>4, <2>1, <2>5, Zenon DEF LeftInv, HasBlock
  <2>13. Quiet'
    BY <1>1, Zenon DEF LeftInv, Quiet
  <2> QED
    BY <2>11, <2>12, <2>13, Zenon DEF LeftInv
<1> QED
  BY <1>5, <1>6, Zenon

\* While nothing else moves the head, the next block of tryCatchup is its child.
LEMMA NextFits ==
  ASSUME ValInv, Quiet, catchup.pc \in {"next", "insert"}, catchup.todo # <<>>
  PROVE  LET b == Head(catchup.todo).blk
         IN  b.num = head.num + 1 /\ b.parent = head.hash /\ head.num \in Nat
<1>1. PICK b : b = Head(catchup.todo).blk
  BY Zenon
<1>2. b = catchup.todo[1].blk /\ b \in Committed /\ b.num \in Nat
  BY <1>1, CatchupHead, Zenon
<1>3. catchup.todo \in Seq(Pair)
  BY Zenon DEF ValInv, ThreadTypes
<1>4. 1 \in 1..Len(catchup.todo)
  BY <1>3, FirstTodo, Zenon
<1>5. b.num = head.num + 1
  BY <1>2, <1>4, Zenon DEF ValInv, Follows, Quiet
<1>6. PICK c \in Good : c.hash = b.parent /\ c.num = b.num - 1
  BY <1>2, ValidatorAssumption, Zenon DEF Good
<1>7. head \in Good /\ head.num \in Nat /\ c.num \in Nat
  BY GoodHeight, Zenon DEF ValInv, AllGood
<1>8. c.num = head.num
  BY <1>5, <1>6, <1>7
<1>9. c = head
  BY <1>7, <1>8, ValidatorAssumption DEF Good, Genesis
<1> QED
  BY <1>1, <1>5, <1>6, <1>7, <1>9, Zenon

\* tryCatchup goes to the end of its list.
LEMMA CatchupLeaves ==
  ASSUME ValInv, LeftInv, CatchupStep
  PROVE  LeftInv'
<1>1. catchup \in [pc : {"none", "next", "insert", "setup"}, todo : Seq(Pair)]
  BY Zenon DEF ValInv, ThreadTypes
<1>2. blocks \subseteq Blocks /\ msgs \subseteq LoggedMsgs
  BY Zenon DEF ValInv, LogTypes
<1>3. CASE CatchupNext
  <2>1. /\ catchup.pc = "next" /\ UNCHANGED <<head, sync, main, blocks, msgs>> /\ verifier' = TRUE
    BY <1>3, Zenon DEF CatchupNext, chainVars, syncVars, LeftInv, Quiet
  <2>2. CASE catchup.todo = <<>>
    <3>1. catchup'.pc = "none" /\ catchup'.todo = catchup.todo
      BY <1>3, <2>2 DEF CatchupNext, NotCatching
    <3> QED
      BY <1>2, <2>1, <3>1, LogGrows, Zenon
  <2>3. CASE catchup.todo # <<>>
    <3>1. PICK b : b = Head(catchup.todo).blk
      BY Zenon
    <3>2. b.num = head.num + 1 /\ b.parent = head.hash /\ head.num \in Nat
      BY <2>1, <2>3, <3>1, NextFits, Zenon DEF LeftInv
    <3>3. BlockVerifier(b) = {TRUE}
      BY <3>2, Zenon DEF BlockVerifier
    <3>4. head.num < b.num
      BY <3>2
    <3>5. catchup' = [catchup EXCEPT !.pc = "insert"]
      BY <1>3, <2>3, <3>1, <3>3, <3>4, Zenon DEF CatchupNext
    <3>6. catchup'.pc = "insert" /\ catchup'.todo = catchup.todo
      BY <1>1, <3>5, Zenon
    <3> QED
      BY <1>2, <2>1, <3>6, LogGrows, Zenon
  <2> QED
    BY <2>2, <2>3, Zenon
<1>4. CASE CatchupInsert
  <2>1. /\ catchup.pc = "insert" /\ UNCHANGED <<sync, main, blocks, msgs>> /\ verifier' = TRUE
    BY <1>4, Zenon DEF CatchupInsert, logVars, syncVars, LeftInv, Quiet
  <2>2. catchup.todo # <<>>
    BY <2>1, Zenon DEF ValInv, ThreadTypes
  <2>3. PICK b : b = Head(catchup.todo).blk
    OBVIOUS
  <2>4. b.num = head.num + 1 /\ b.parent = head.hash /\ head.num \in Nat
    BY <2>1, <2>2, <2>3, NextFits, Zenon DEF LeftInv
  <2>5. head' = b /\ catchup' = [catchup EXCEPT !.pc = "setup"]
    BY <1>4, <2>3, <2>4, Zenon DEF CatchupInsert, CanInsert, InsertChain
  <2>6. catchup'.pc = "setup" /\ catchup'.todo = catchup.todo
    BY <1>1, <2>5, Zenon
  <2>7. head'.num + Len(catchup'.todo) + 0 = head.num + Len(catchup.todo) + 1
    <3>1. Len(catchup.todo) \in Nat
      BY <1>1
    <3> QED
      BY <2>4, <2>5, <2>6, <3>1
  <2>8. Behind'
    BY <2>1, <2>6, <2>7, Zenon DEF LeftInv, Behind
  <2> QED
    BY <2>1, <2>8, Zenon DEF LeftInv, Quiet, HasBlock
<1>5. CASE CatchupSetup
  <2>1. PICK b : b = Head(catchup.todo).blk
    OBVIOUS
  <2>2. /\ catchup.pc = "setup" /\ UNCHANGED <<head, sync, main>> /\ verifier' = TRUE
        /\ blocks' = PruneCacheBeforeBlock(blocks, b.num) /\ msgs' = PruneCacheBeforeBlock(msgs, b.num)
        /\ catchup' = [pc |-> "next", todo |-> Tail(catchup.todo)]
    BY <1>5, <2>1, Zenon DEF CatchupSetup, SetupForNewConsensus, chainVars, syncVars, LeftInv, Quiet
  <2>3. catchup.todo # <<>>
    BY <2>2, Zenon DEF ValInv, ThreadTypes
  <2>4. catchup'.pc = "next" /\ Len(catchup'.todo) = Len(catchup.todo) - 1 /\ Len(catchup.todo) \in Nat
    BY <1>1, <2>2, <2>3, FirstTodo, Zenon
  <2>5. blocks' \subseteq blocks /\ msgs' \subseteq msgs
    BY <2>2, Zenon DEF PruneCacheBeforeBlock, DeleteLessThan
  <2>6. HasBlock'
    <3> SUFFICES ASSUME NEW m \in msgs', m.type = "COMMITTED", m.verified
                 PROVE  \E c \in blocks' : c.hash = m.hash
      BY Zenon DEF HasBlock
    <3>1. PICK c \in blocks : c.hash = m.hash
      BY <2>5, Zenon DEF LeftInv, HasBlock
    <3>2. m.num = c.num
      BY <1>2, <2>5, <3>1, LoggedFacts, Zenon
    <3>3. m.num >= b.num - 1
      BY <2>2, Zenon DEF PruneCacheBeforeBlock, DeleteLessThan
    <3>4. c \in blocks'
      BY <2>2, <3>2, <3>3, Zenon DEF PruneCacheBeforeBlock, DeleteLessThan
    <3> QED
      BY <3>1, <3>4, Zenon
  <2>7. head.num + Len(catchup'.todo) + 1 = head.num + Len(catchup.todo) + 0
    <3>1. head.num \in Nat
      BY GoodHeight, Zenon DEF ValInv, AllGood
    <3> QED
      BY <2>4, <3>1
  <2>8. Behind'
    <3>1. PICK n : n = head.num + Len(catchup.todo) + 0
      BY Zenon
    <3>2. NothingFor(blocks, msgs, n)
      BY <2>2, <3>1, Zenon DEF LeftInv, Behind
    <3>3. NothingFor(blocks', msgs', n)
      BY <2>5, <3>2, Zenon DEF NothingFor
    <3> QED
      BY <2>2, <2>4, <2>7, <3>1, <3>3, Zenon DEF Behind
  <2>9. Quiet'
    BY <2>2, Zenon DEF LeftInv, Quiet
  <2> QED
    BY <2>6, <2>8, <2>9, Zenon DEF LeftInv
<1> QED
  BY <1>3, <1>4, <1>5, Zenon DEF CatchupStep

\* Without a synchronisation no other action changes log, head or catch-up.
LEMMA LeftStep ==
  ASSUME MaxSyncs = 0, ValInv, LeftInv, [Next]_vars
  PROVE  LeftInv'
<1>1. CASE SetBlockVerifier \/ OnAnnounce \/ Prepare \/ OnPrepared
  BY <1>1, HandlersLeave, Zenon
<1>2. CASE OnCommitted
  BY <1>2, onCommittedLeaves, WireLogged, Zenon DEF OnCommitted
<1>3. CASE CatchupStep
  BY <1>3, CatchupLeaves, Zenon
<1>4. ASSUME UNCHANGED <<head, sync, main, verifier, blocks, msgs, catchup>> PROVE LeftInv'
  <2>1. blocks' \subseteq Blocks /\ verifier' = TRUE
    BY <1>4, Zenon DEF ValInv, LogTypes, LeftInv, Quiet
  <2> QED
    BY <1>4, <2>1, LogGrows, Zenon
<1>5. ASSUME NEW b \in Blocks, ReplayStart(b) PROVE LeftInv'
  BY <1>4, <1>5, Zenon DEF ReplayStart, logVars, chainVars, syncVars
<1>6. ASSUME NEW b \in Blocks, ReplayCommitted(b) PROVE LeftInv'
  <2>1. PICK r \in replays : \E m \in r.msgs :
          \/ onCommitted(m)
          \/ UNCHANGED <<blockNum, mode, verifier, logVars, chainVars, announcing, catchup, main, syncVars>>
    BY <1>6, Zenon DEF ReplayCommitted
  <2>2. \A m \in r.msgs : m \in LoggedMsgs /\ m.type = "COMMITTED"
    BY Zenon DEF ValInv, LogTypes, ReplayRec
  <2> QED
    BY <1>4, <2>1, <2>2, onCommittedLeaves, Zenon DEF logVars, chainVars, syncVars
<1>7. ~NotReadySet /\ ~SyncStep
  <2>1. sync.pc = "idle" /\ main.pc = "select" /\ ~(syncs < MaxSyncs)
    BY DEF LeftInv, Quiet, ValInv, StateTypes
  <2> QED
    BY <2>1, Zenon DEF NotReadySet, SyncStep, SyncStart, NotReadyRead, SyncInsert, GetLastMileBlockIter,
                IterNext, SyncReady
<1>8. CASE UNCHANGED vars
  BY <1>4, <1>8, Zenon DEF vars, logVars, chainVars, syncVars
<1> QED
  BY <1>1, <1>2, <1>3, <1>5, <1>6, <1>7, <1>8, Zenon DEF Next, ReplayStep

\* onCommitted leaves nothing in the log that it could insert: for every committee, tree of blocks
\* and set of messages, in every order, when the verifier is set before the first message and no
\* synchronisation moves the head while tryCatchup is at work.
THEOREM LeavesNothing == VerifierAtStart /\ MaxSyncs = 0 => (Spec => []NothingLeftBehind)
<1> SUFFICES ASSUME VerifierAtStart, MaxSyncs = 0 PROVE Spec => []NothingLeftBehind
  BY Zenon
<1>1. Init => LeftInv
  <2> SUFFICES ASSUME Init PROVE LeftInv
    BY Zenon
  <2>1. Quiet
    <3>1. VerifierAtStart = TRUE
      BY ValidatorAssumption, Zenon
    <3> QED
      BY <3>1, Zenon DEF Init, Quiet
  <2>2. HasBlock /\ Behind
    BY Zenon DEF Init, HasBlock, Behind, NothingFor
  <2> QED
    BY <2>1, <2>2, Zenon DEF LeftInv
<1>2. ValInv /\ LeftInv => NothingLeftBehind
  <2> SUFFICES ASSUME ValInv, LeftInv, MutexFree
               PROVE  GetCommittedBlockAndMsgsFromNumber(blocks, msgs, blockNum) = {}
    BY Zenon DEF NothingLeftBehind
  <2>1. catchup.pc = "none" /\ catchup.todo = <<>>
    BY Zenon DEF MutexFree, ValInv, ThreadTypes
  <2>2. blockNum = head.num + 1 /\ head.num \in Nat
    BY <2>1, GoodHeight, Zenon DEF ValInv, AllGood, Follows, LeftInv, Quiet
  <2>3. head.num + Len(catchup.todo) + 1 = blockNum
    BY <2>1, <2>2
  <2>4. NothingFor(blocks, msgs, blockNum)
    <3>1. NothingFor(blocks, msgs, head.num + Len(catchup.todo) + (IF catchup.pc = "setup" THEN 0 ELSE 1))
      BY Zenon DEF LeftInv, Behind
    <3>2. (IF catchup.pc = "setup" THEN 0 ELSE 1) = 1
      BY <2>1, Zenon
    <3> QED
      BY <2>3, <3>1, <3>2, Zenon
  <2> QED
    BY <2>4, NothingFound, Zenon
<1>3. ValInv /\ LeftInv /\ [Next]_vars => LeftInv'
  BY LeftStep, Zenon
<1> QED
  BY <1>1, <1>2, <1>3, ValAlways, PTL DEF Spec
==============================================================================
