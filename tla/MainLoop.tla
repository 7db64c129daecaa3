------------------------------ MODULE MainLoop ------------------------------
(***************************************************************************)
(* The main loop of consensus (consensus.go, Start), the committee that    *)
(* it works with (consensus_service.go, UpdateConsensusInformation), the   *)
(* randomness of the epochs (VRF and VDF), and what starts and stops the   *)
(* loop: the consensus service and BootstrapConsensus.                     *)
(*                                                                         *)
(* A height is agreed on in one step here (FBFTLeader and FBFTValidator    *)
(* have the phases).  The timers are left out: the loop only stops them    *)
(* and looks whether they are expired, and nothing depends on it.          *)
(***************************************************************************)
EXTENDS Integers, Sequences, FiniteSets, Absent

CONSTANTS ShardKeys,    \* the keys of the validators
          MyKeys,       \* the keys of this node
          Committees,   \* possible sequences of keys of a committee, or None
          EpochLen,     \* blocks of an epoch
          RandomnessStart,   \* the first epoch with randomness
          MaxHeight, MaxSyncs, MaxFailures, MaxStarts   \* bounds

\* The blocks whose VRFs make a seed, a proposed block, and an output of the VDF on its way into
\* the list of outputs.
Seeds == SUBSET (1..MaxHeight)
BlockRecord == [n : Nat, by : ShardKeys, vrf : BOOLEAN, vdf : Seeds \cup {None}]
AddRecord == [old : Seq(Seeds), seed : Seeds]

\* Every schedule has epochs of several blocks.
ASSUME LoopAssumption ==
  /\ Committees \subseteq Seq(ShardKeys) \cup {None}
  /\ EpochLen \in Nat /\ EpochLen > 1 /\ RandomnessStart \in Nat
  /\ MaxHeight \in Nat /\ MaxSyncs \in Nat /\ MaxFailures \in Nat /\ MaxStarts \in Nat
  /\ None \notin BlockRecord /\ None \notin AddRecord

VARIABLES committee,    \* epoch -> the shard's committee in the shard state
          chain,        \* the blocks 1..head: [by, vrf, vdf]
          blockNum, mode, leader, parts,
          asked,        \* history: height -> proposals asked for when it became the next one
          signals,      \* goroutines that send on ReadySignal
          proposer,     \* the proposed block that waits for blockChannel, or None
          loop,         \* [pc, block, popped]
          announced,    \* the height that consensus runs on, or None
          vdfInProgress,
          computing,    \* seeds of the VDFs that are computed
          pendingRnds,  \* outputs, as their seeds
          adding,       \* WaitForNewRandomness: [old, seed] while it appends, or None
          starter,      \* the goroutine of an initial leader
          boot,         \* BootstrapConsensus: [pc, counter]
          ready, notReady,   \* callers of BlocksSynchronized and BlocksNotSynchronized
          stopping, starts, syncs, failures,
          gap           \* history: blocks came from synchronization since the last update

loopVars == <<committee, chain, blockNum, mode, leader, parts, asked, signals, proposer, loop,
              announced, vdfInProgress, computing, pendingRnds, adding, starter, boot, ready,
              notReady, stopping, starts, syncs, failures, gap>>
Rnd == <<vdfInProgress, computing, pendingRnds, adding>>
Life == <<starter, boot, stopping, starts>>
Info == <<blockNum, mode, leader, parts>>
Syncs == <<ready, notReady, syncs>>

Epoch(n) == n \div EpochLen
head == Len(chain)

\* IsLastBlockInEpoch; the genesis block has a shard state as well.
IsLast(n) == n = 0 \/ (n + 1) % EpochLen = 0

\* VdfSeedSize.
VdfSeedSize == (Len(parts) * 2) \div 3

IsLeader(k) == k \in MyKeys

------------------------------------------------------------------------------
(* The committee. *)

\* Mutant: the committee of the epoch that ends is taken again.
EpochToSet_Same(hd) == Epoch(hd)

\* The last block of an epoch decides on the next committee.
EpochToSet(hd) == IF IsLast(hd) /\ hd > 0 THEN Epoch(hd) + 1 ELSE Epoch(hd)

\* UpdatePublicKeys: the first participant leads; an empty committee leaves the old leader.
FirstKey(keys, old) == IF keys = <<>> THEN old ELSE keys[1]

\* Mutant: a proposal is asked for although the leader is the same.
Becomes_Any(old, new) == IsLeader(new)

\* Mutant: the proposal is asked of the old leader.
Becomes_Was(old, new) == new # old /\ IsLeader(old)

\* "If the leader changed and I myself become the leader".
Becomes(old, new) == new # old /\ IsLeader(new)

\* UpdateConsensusInformation with the head hd and the leader old.  A shard state that
\* cannot be read leaves the keys alone.
UpdateConsensusInformation(hd, old, ok) ==
  LET keys == committee[EpochToSet(hd)]
      new  == FirstKey(keys, old)
      in   == \E i \in 1..Len(keys) : keys[i] \in MyKeys
  IN  IF ~ok \/ keys = None
      THEN [mode |-> "Syncing", leader |-> old, parts |-> parts, ask |-> FALSE]
      ELSE [mode |-> IF in THEN "Normal" ELSE "Listening", leader |-> new, parts |-> keys,
            ask |-> in /\ Becomes(old, new)]

\* n goroutines start to send on ReadySignal, when hd is the head.
Ask(n, hd) == signals' = signals + n /\ asked' = [asked EXCEPT ![hd + 1] = @ + n]

------------------------------------------------------------------------------
(* Randomness. *)

VrfNums(e) == {n \in 1..head : chain[n].vrf /\ Epoch(n) = e}
HasVdf(e) == \E n \in 1..head : chain[n].vdf # None /\ Epoch(n) = e

\* GenerateVdfAndProof: the VRFs that are XORed into the seed are the first ones.
Seed(nums) == {n \in nums : Cardinality({m \in nums : m <= n}) <= VdfSeedSize}

\* Mutant: a computation that runs is not looked at.
StartsVdf_Again(nums, e) == Cardinality(nums) >= VdfSeedSize /\ ~HasVdf(e)

StartsVdf(nums, e) == ~vdfInProgress /\ Cardinality(nums) >= VdfSeedSize /\ ~HasVdf(e)

\* Mutant: every block of a leader gets a VRF.
NeedsVrf_Always(b) == Epoch(b.n) >= RandomnessStart /\ ~(b.n <= head /\ chain[b.n].vrf)

\* NeedsRandomNumberGeneration, the leader differs from the one of the parent, and the VRF
\* of the block is not there yet.
NeedsVrf(b) ==
  /\ Epoch(b.n) >= RandomnessStart
  /\ b.n = 1 \/ chain[b.n - 1].by # b.by
  /\ ~(b.n <= head /\ chain[b.n].vrf)

------------------------------------------------------------------------------
(* The loop. *)

LoopAt(pc, b, popped) == [pc |-> pc, block |-> b, popped |-> popped]
Idle == LoopAt("select", None, None)

LoopInit ==
  /\ committee \in [0..Epoch(MaxHeight + 1) -> Committees]
  /\ committee[0] # None /\ committee[0] # <<>>
  /\ chain = <<>> /\ blockNum = 1
  /\ leader = committee[0][1] /\ parts = committee[0]
  /\ mode = IF \E i \in 1..Len(parts) : parts[i] \in MyKeys THEN "Normal" ELSE "Listening"
  /\ asked = [n \in 1..(MaxHeight + 1) |-> 0] /\ signals = 0 /\ proposer = None
  /\ loop = LoopAt("new", None, None) /\ announced = None
  /\ vdfInProgress = FALSE /\ computing = <<>> /\ pendingRnds = <<>> /\ adding = None
  /\ starter = "none" /\ boot = "polling" /\ ready = 0 /\ notReady = 0
  /\ stopping = FALSE /\ starts = 0 /\ syncs = 0 /\ failures = 0 /\ gap = FALSE

\* StartService and Start: the initial leader waits for the signal of the bootstrap.
StartService ==
  /\ loop.pc \in {"new", "stopped"} /\ starts < MaxStarts /\ starter \in {"none", "done"}
  /\ starts' = starts + 1
  /\ loop' = Idle /\ vdfInProgress' = FALSE
  /\ starter' = IF IsLeader(leader) THEN "wait" ELSE "none"
  /\ UNCHANGED <<committee, chain, Info, asked, signals, proposer, announced, computing,
                 pendingRnds, adding, boot, Syncs, stopping, failures, gap>>

\* BootstrapConsensus polls the peers until there are enough or a minute is over; the
\* signal is sent by a goroutine of its own.
Bootstrap ==
  /\ boot = "polling" /\ boot' \in {"send", "timeout"}
  /\ UNCHANGED <<committee, chain, Info, asked, signals, proposer, loop, announced, Rnd,
                 starter, Syncs, stopping, starts, failures, gap>>

StarterGoes ==
  /\ starter = "wait" /\ boot = "send"
  /\ starter' = "done" /\ boot' = "sent"
  /\ signals' = signals + 1
  /\ UNCHANGED <<committee, chain, Info, asked, proposer, loop, announced, Rnd, Syncs, stopping,
                 starts, failures, gap>>

\* The proposer takes a ready signal and makes the next block.
Propose ==
  /\ signals > 0 /\ proposer = None /\ head < MaxHeight
  /\ signals' = signals - 1
  /\ proposer' = IF IsLeader(leader) THEN [n |-> head + 1, by |-> leader, vrf |-> FALSE, vdf |-> None]
                 ELSE None
  /\ UNCHANGED <<committee, chain, Info, asked, loop, announced, Rnd, Life, Syncs, failures, gap>>

\* "received old block, abort".
IsOld(b) == b.n < blockNum

ReceiveBlock ==
  /\ loop.pc = "select" /\ proposer # None
  /\ proposer' = None
  /\ loop' = IF IsOld(proposer) THEN loop ELSE LoopAt("vrf", proposer, None)
  /\ UNCHANGED <<committee, chain, Info, asked, signals, announced, Rnd, Life, Syncs, failures, gap>>

\* After the block time: GenerateVrfAndProof, and GenerateVdfAndProof when there are enough.
GenerateVrf ==
  /\ loop.pc = "vrf"
  /\ LET b    == loop.block
         nums == VrfNums(Epoch(b.n))
     IN  IF NeedsVrf(b)
         THEN /\ loop' = LoopAt("rnd", [n |-> b.n, by |-> b.by, vrf |-> IsLeader(leader), vdf |-> b.vdf], None)
              /\ IF StartsVdf(nums, Epoch(b.n))
                 THEN computing' = Append(computing, Seed(nums)) /\ vdfInProgress' = TRUE
                 ELSE UNCHANGED <<computing, vdfInProgress>>
         ELSE loop' = LoopAt("rnd", b, None) /\ UNCHANGED <<computing, vdfInProgress>>
  /\ UNCHANGED <<committee, chain, Info, asked, signals, proposer, announced, pendingRnds, adding,
                 Life, Syncs, failures, gap>>

\* Mutant: without randomness the loop goes on to its next turn.
ReadRnd_Continue ==
  /\ loop.pc = "rnd"
  /\ loop' = IF pendingRnds = <<>> THEN Idle ELSE LoopAt("pop", loop.block, pendingRnds)
  /\ UNCHANGED <<committee, chain, Info, asked, signals, proposer, announced, Rnd, Life, Syncs,
                 failures, gap>>

\* GetNextRnd reads the list and then takes the first output off it.
ReadRnd ==
  /\ loop.pc = "rnd"
  /\ loop' = IF pendingRnds = <<>> \/ Epoch(loop.block.n) < RandomnessStart THEN LoopAt("announce", loop.block, None)
             ELSE LoopAt("pop", loop.block, pendingRnds)
  /\ UNCHANGED <<committee, chain, Info, asked, signals, proposer, announced, Rnd, Life, Syncs,
                 failures, gap>>

\* Mutant: a VDF is added whether the epoch has one or not.
AddsVdf_Always(e) == TRUE

\* "write the VDF only if VDF has not been generated".
AddsVdf(e) == ~HasVdf(e)

PopRnd ==
  /\ loop.pc = "pop"
  /\ pendingRnds' = Tail(loop.popped) /\ vdfInProgress' = FALSE
  /\ LET b == loop.block
     IN  loop' = LoopAt("announce", [n |-> b.n, by |-> b.by, vrf |-> b.vrf,
                                     vdf |-> IF AddsVdf(Epoch(b.n)) THEN Head(loop.popped) ELSE b.vdf], None)
  /\ UNCHANGED <<committee, chain, Info, asked, signals, proposer, announced, computing, adding,
                 Life, Syncs, failures, gap>>

\* announce: consensus runs on the block.
Announce ==
  /\ loop.pc = "announce"
  /\ announced' = loop.block /\ loop' = Idle
  /\ UNCHANGED <<committee, chain, Info, asked, signals, proposer, Rnd, Life, Syncs, failures, gap>>

\* A VDF is computed; its goroutine sends it on RndChannel, and WaitForNewRandomness appends
\* it to the list, which it reads and writes without a lock.
TakeRnd ==
  /\ computing # <<>> /\ adding = None
  /\ computing' = Tail(computing)
  /\ adding' = [old |-> pendingRnds, seed |-> Head(computing)]
  /\ UNCHANGED <<committee, chain, Info, asked, signals, proposer, loop, announced, vdfInProgress,
                 pendingRnds, Life, Syncs, failures, gap>>

StoreRnd ==
  /\ adding # None
  /\ pendingRnds' = Append(adding.old, adding.seed) /\ adding' = None
  /\ UNCHANGED <<committee, chain, Info, asked, signals, proposer, loop, announced, vdfInProgress,
                 computing, Life, Syncs, failures, gap>>

------------------------------------------------------------------------------
(* Blocks are committed, by consensus or by synchronization. *)

\* SetupForNewConsensus after the block b, and whoever is the leader then asks for the next
\* proposal: the pipelined one before the last signatures, or the one after an epoch.
SetupForNewConsensus(b, mine, ok) ==
  LET last == IsLast(b.n)
      u    == IF last THEN UpdateConsensusInformation(b.n, b.by, ok)
              ELSE [mode |-> mode, leader |-> b.by, parts |-> parts, ask |-> FALSE]
      own  == mine /\ (last => IsLeader(u.leader))
  IN  /\ blockNum' = b.n + 1
      /\ mode' = u.mode /\ leader' = u.leader /\ parts' = u.parts
      /\ Ask((IF u.ask THEN 1 ELSE 0) + (IF own THEN 1 ELSE 0), b.n)


ReadFails(ok) == IF ok THEN UNCHANGED failures ELSE failures < MaxFailures /\ failures' = failures + 1

\* The announced block is committed, when the committee knows its leader.
CommitOwn ==
  /\ announced # None /\ announced.n = head + 1 /\ announced.n = blockNum
  /\ committee[Epoch(announced.n)] \notin {None, <<>>} /\ announced.by = committee[Epoch(announced.n)][1]
  /\ chain' = Append(chain, [by |-> announced.by, vrf |-> announced.vrf, vdf |-> announced.vdf])
  /\ \E ok \in BOOLEAN :
       ReadFails(ok) /\ SetupForNewConsensus(announced, announced.by \in MyKeys, ok)
  /\ announced' = None /\ gap' = FALSE
  /\ UNCHANGED <<committee, proposer, loop, Rnd, Life, Syncs>>

\* The next block of another leader.
Others ==
  LET n == head + 1
      k == committee[Epoch(n)]
      e == Epoch(n)
  IN  IF n > MaxHeight \/ k = None \/ k = <<>> \/ k[1] \in MyKeys THEN {}
      ELSE {[n |-> n, by |-> k[1], vrf |-> n = 1 \/ chain[n - 1].by # k[1], vdf |-> v] :
              v \in {None} \cup (IF VdfSeedSize <= Cardinality(VrfNums(e)) /\ ~HasVdf(e) THEN {Seed(VrfNums(e))} ELSE {})}

\* A committed message of the leader, as a validator takes it: in Normal mode of the leader
\* that it knows.
CommitOther ==
  /\ blockNum = head + 1
  /\ \E b \in Others, ok \in BOOLEAN :
       /\ mode = "Normal" => leader = b.by
       /\ chain' = Append(chain, [by |-> b.by, vrf |-> b.vrf, vdf |-> b.vdf])
       /\ ReadFails(ok) /\ SetupForNewConsensus(b, FALSE, ok)
  /\ announced' = None /\ gap' = FALSE
  /\ UNCHANGED <<committee, proposer, loop, Rnd, Life, Syncs>>

\* State synchronization inserts blocks and tells the loop.
SyncInsert ==
  /\ \E b \in Others : chain' = Append(chain, [by |-> b.by, vrf |-> b.vrf, vdf |-> b.vdf])
  /\ gap' = TRUE
  /\ UNCHANGED <<committee, Info, asked, signals, proposer, loop, announced, Rnd, Life, Syncs, failures>>

BlocksSynchronized ==
  /\ syncs < MaxSyncs /\ syncs' = syncs + 1
  /\ ready' = ready + 1 /\ UNCHANGED notReady
  /\ UNCHANGED <<committee, chain, Info, asked, signals, proposer, loop, announced, Rnd, Life, failures, gap>>

BlocksNotSynchronized ==
  /\ syncs < MaxSyncs /\ syncs' = syncs + 1
  /\ notReady' = notReady + 1 /\ UNCHANGED ready
  /\ UNCHANGED <<committee, chain, Info, asked, signals, proposer, loop, announced, Rnd, Life, failures, gap>>

\* syncReadyChan does something only when the chain is ahead.
Behind == blockNum < head + 1

\* Mutant: the signal is only taken when the chain is ahead.
SyncReady_Ahead ==
  /\ loop.pc = "select" /\ ready > 0 /\ Behind /\ ready' = ready - 1
  /\ blockNum' = head + 1
  /\ UNCHANGED <<committee, chain, mode, leader, parts, asked, signals, announced, failures, gap,
                 proposer, loop, Rnd, Life, notReady, syncs>>

SyncReady ==
  /\ loop.pc = "select" /\ ready > 0 /\ ready' = ready - 1
  /\ IF Behind
     THEN \E ok \in BOOLEAN :
            LET u == UpdateConsensusInformation(head, leader, ok)
            IN  /\ ReadFails(ok)
                /\ blockNum' = head + 1
                /\ mode' = u.mode /\ leader' = u.leader /\ parts' = u.parts
                /\ Ask(IF u.ask THEN 1 ELSE 0, head)
                /\ announced' = IF u.mode = "Syncing" THEN announced ELSE None
                /\ gap' = (gap /\ u.leader = leader)
     ELSE UNCHANGED <<Info, asked, signals, announced, failures, gap>>
  /\ UNCHANGED <<committee, chain, proposer, loop, Rnd, Life, notReady, syncs>>

\* Mutant: off by one.
SyncNotReady_Next ==
  /\ loop.pc = "select" /\ notReady > 0 /\ notReady' = notReady - 1
  /\ blockNum' = head + 2 /\ mode' = "Syncing"
  /\ UNCHANGED <<committee, chain, leader, parts, asked, signals, proposer, loop, announced, Rnd,
                 Life, ready, syncs, failures, gap>>

SyncNotReady ==
  /\ loop.pc = "select" /\ notReady > 0 /\ notReady' = notReady - 1
  /\ blockNum' = head + 1 /\ mode' = "Syncing"
  /\ UNCHANGED <<committee, chain, leader, parts, asked, signals, proposer, loop, announced, Rnd,
                 Life, ready, syncs, failures, gap>>

\* StopService sends on stopChan and waits for the loop to end.
StopService ==
  /\ loop.pc \notin {"new", "stopped"} /\ ~stopping /\ stopping' = TRUE
  /\ UNCHANGED <<committee, chain, Info, asked, signals, proposer, loop, announced, Rnd, starter,
                 boot, starts, Syncs, failures, gap>>

\* Mutant: the case leaves the select, not the loop.
TakeStop_Break ==
  /\ loop.pc = "select" /\ stopping /\ stopping' = FALSE
  /\ UNCHANGED <<committee, chain, Info, asked, signals, proposer, loop, announced, Rnd, starter, boot,
                 starts, Syncs, failures, gap>>

TakeStop ==
  /\ loop.pc = "select" /\ stopping /\ stopping' = FALSE
  /\ loop' = LoopAt("stopped", None, None)
  /\ UNCHANGED <<committee, chain, Info, asked, signals, proposer, announced, Rnd, starter, boot,
                 starts, Syncs, failures, gap>>

------------------------------------------------------------------------------

LoopStep == ReceiveBlock \/ GenerateVrf \/ ReadRnd \/ PopRnd \/ Announce

LoopNext ==
  \/ StartService \/ Bootstrap \/ StarterGoes \/ Propose \/ LoopStep \/ TakeRnd \/ StoreRnd
  \/ CommitOwn \/ CommitOther \/ SyncInsert \/ BlocksSynchronized \/ BlocksNotSynchronized
  \/ SyncReady \/ SyncNotReady \/ StopService \/ TakeStop

\* The goroutines go on, and a select takes every case that stays ready again and again.
\* Nobody has to start or to stop the service, or to synchronize.
LoopFairness ==
  /\ WF_loopVars(Propose) /\ WF_loopVars(TakeRnd) /\ WF_loopVars(StoreRnd)
  /\ WF_loopVars(GenerateVrf \/ ReadRnd \/ PopRnd \/ Announce)
  /\ SF_loopVars(ReceiveBlock) /\ SF_loopVars(TakeStop) /\ SF_loopVars(SyncReady)

LoopSpec == LoopInit /\ [][LoopNext]_loopVars /\ LoopFairness

------------------------------------------------------------------------------
(* Properties. *)

Total == Len(pendingRnds) + Len(computing) + (IF adding = None THEN 0 ELSE 1)

\* The shape of the state.
LoopTypeOK ==
  /\ \A n \in 1..head : chain[n].vrf \in BOOLEAN /\ chain[n].vdf \in {None} \cup Seeds
  /\ blockNum \in 1..(head + 1) /\ mode \in {"Normal", "Syncing", "Listening"} /\ head <= MaxHeight
  /\ loop.pc \in {"new", "select", "vrf", "rnd", "pop", "announce", "stopped"}
  /\ signals \in Nat /\ ready \in 0..MaxSyncs /\ notReady \in 0..MaxSyncs
  /\ loop.pc \in {"vrf", "rnd", "pop", "announce"} <=> loop.block # None

\* In Normal mode and with the chain's next height to agree on, the participants and the
\* leader are those of the epoch of that height, whatever commits, synchronization and
\* failed reads of shard states came before (UpdateConsensusInformation).
CommitteeCurrent ==
  mode = "Normal" /\ blockNum = head + 1
    => LET k == committee[Epoch(head + 1)] IN parts = k /\ leader = k[1]

\* The node that leads the next height has been asked for its proposal, by the commit that
\* ended the last height or by the update of the committee, unless it comes back as the
\* leader after blocks that it got by synchronization.
LeaderIsAsked ==
  mode = "Normal" /\ blockNum = head + 1 /\ head > 0 /\ IsLeader(leader) /\ ~gap
    => asked[head + 1] >= 1

\* A height is asked for once, save when the leadership passes from one key of this node to
\* another: then finalCommit and UpdateConsensusInformation both send a signal.
AskedOnce ==
  \A n \in DOMAIN asked : asked[n] > 1 =>
    /\ asked[n] = 2 /\ IsLeader(chain[n - 1].by)
    /\ committee[Epoch(n)][1] \in MyKeys \ {chain[n - 1].by}

\* At most one VDF is computed or waits until the loop is stopped and started again, so that
\* GetNextRnd and WaitForNewRandomness do not change the list at a time, without a lock.
OneRandomness == starts <= 1 => Total <= (IF vdfInProgress THEN 1 ELSE 0)

\* Without view changes a leader differs from its predecessor only in the first block of
\* an epoch: a VDF is computed from no VRF at all, in committees of one key, unless a node
\* that could not read a shard state proposes on as a leader.
SeedsAreEmpty ==
  failures = 0 =>
  /\ \A i \in 1..Len(computing) : computing[i] = {}
  /\ \A n \in 1..head : chain[n].vdf # None /\ IsLeader(chain[n].by) => chain[n].vdf = {}

\* An epoch has at most one block with a VDF.
OneVdf ==
  \A m, n \in 1..head : chain[m].vdf # None /\ chain[n].vdf # None /\ Epoch(m) = Epoch(n) => m = n

\* A ready signal leads to an announcement, unless the loop stops, the node no longer leads or
\* the height is over.
SignalAnnounces ==
  \A n \in 1..MaxHeight :
    (proposer # None /\ proposer.n = n)
      ~> (announced # None /\ announced.n >= n) \/ blockNum > n \/ loop.pc \in {"new", "stopped"}

\* StopService returns: the loop comes back to its select, whatever it is doing.
StopReturns == stopping ~> loop.pc = "stopped"

\* The callers of BlocksSynchronized return while the loop runs.
SyncCallersReturn == (ready > 0) ~> (ready = 0 \/ loop.pc \in {"new", "stopped"})

\* Committee, leader, ready signals and randomness belong to the height the node is at.
LoopConsistent ==
  /\ LoopTypeOK
  /\ CommitteeCurrent /\ LeaderIsAsked /\ AskedOnce
  /\ OneRandomness /\ SeedsAreEmpty /\ OneVdf

\* Nobody waits for the main loop for ever: neither the proposer nor whoever stops it nor
\* the callers that report on the synchronization.
LoopProgress == SignalAnnounces /\ StopReturns /\ SyncCallersReturn
=============================================================================
