----------------------------- MODULE ChainProofs -----------------------------
(*****************************************************************************)
(* What a block is made by and of, each part for itself: the main loop of    *)
(* consensus, for committees, epochs and chains of every length, and the     *)
(* list of an account, for every set of transactions.                        *)
(*****************************************************************************)
EXTENDS MainLoop, TxList, FiniteSetTheorems, TLAPS

------------------------------------------------------------------------------
(* The main loop: its inductive invariant. *)

\* Where the loop is while it works on a block, where it can be, and its records.
Busy == {"vrf", "rnd", "pop", "announce"}
Pcs == {"new", "select", "stopped"} \cup Busy
LoopRecord == [pc : Pcs, block : BlockRecord \cup {None}, popped : Seq(Seeds) \cup {None}]
ChainRecord == [by : ShardKeys, vrf : BOOLEAN, vdf : Seeds \cup {None}]

\* The types of the variables.
LoopShape ==
  /\ committee \in [0..Epoch(MaxHeight + 1) -> Committees]
  /\ chain \in Seq(ChainRecord) /\ head <= MaxHeight
  /\ blockNum \in 1..(head + 1) /\ mode \in {"Normal", "Syncing", "Listening"}
  /\ leader \in ShardKeys /\ parts \in Seq(ShardKeys)
  /\ asked \in [1..(MaxHeight + 1) -> Nat] /\ signals \in Nat
  /\ proposer \in BlockRecord \cup {None} /\ announced \in BlockRecord \cup {None}
  /\ gap \in BOOLEAN /\ failures \in Nat /\ starts \in Nat

\* The loop has a block while it works on one, and outputs while it takes one off their list.
LoopBlock ==
  /\ loop \in LoopRecord
  /\ loop.pc \in Busy <=> loop.block # None
  /\ loop.pc = "pop" => loop.popped \in Seq(Seeds) /\ loop.popped # <<>>

\* The callers that report on the synchronization.
Callers == ready \in Nat /\ notReady \in Nat /\ syncs \in Nat /\ ready + notReady <= syncs /\ syncs <= MaxSyncs

\* The first of the committee of epoch e, if it has one.
Empty(e) == committee[e] = None \/ committee[e] = <<>>
First(e) == committee[e][1]

\* The leader of the block n, as far as a node can know it: with no committee, the one before.
Leads(k, n) == IF Empty(Epoch(n)) THEN n > 1 /\ chain[n - 1].by = k ELSE First(Epoch(n)) = k

\* A block gets a VRF only when its leader is new.
NewLeader(n, k) == n = 1 \/ chain[n - 1].by # k

\* A block that was proposed: its height is the next one or over, and it has the VDF of its
\* epoch only if there was none.
Proposed(b) ==
  /\ b.n \in 1..MaxHeight /\ b.n <= head + 1 /\ b.by \in MyKeys
  /\ b.vrf => NewLeader(b.n, b.by)
  /\ b.vdf # None /\ b.n = head + 1 => ~HasVdf(Epoch(b.n))
  /\ failures = 0 => Leads(b.by, b.n) /\ (b.vdf # None => b.vdf = {})

Proposals ==
  /\ proposer # None => Proposed(proposer)
  /\ loop.block # None => Proposed(loop.block)
  /\ announced # None => Proposed(announced)

\* A block of the chain: the first of its committee made it, and what was not agreed on by this
\* node was made by another.
Made(n) ==
  /\ ~Empty(Epoch(n)) /\ chain[n].by = First(Epoch(n))
  /\ chain[n].vrf => NewLeader(n, chain[n].by)
  /\ n >= blockNum => chain[n].by \notin MyKeys
  /\ failures = 0 /\ chain[n].by \in MyKeys /\ chain[n].vdf # None => chain[n].vdf = {}

BlocksMade == \A n \in 1..head : Made(n)

\* A node that thinks that it leads does.
Leading ==
  failures = 0 =>
    /\ IsLeader(leader) => Leads(leader, head + 1)
    /\ Behind => ~IsLeader(leader)

\* Nothing was asked for above the height that the node is at.
Asking ==
  /\ (~gap => blockNum = head + 1) /\ asked[1] = 0
  /\ \A n \in 1..(MaxHeight + 1) : n > blockNum => asked[n] = 0

\* One output at a time, from the start of its computation to the block that gets it.
Single ==
  /\ loop.pc = "new" => starts = 0
  /\ starts = 0 => loop.pc = "new" /\ Total = 0
  /\ starts <= 1 => /\ Total <= (IF vdfInProgress THEN 1 ELSE 0)
                    /\ adding # None => adding.old = <<>>
                    /\ loop.pc = "pop" => loop.popped = pendingRnds

NoVrfs(s) == \A i \in 1..Len(s) : s[i] = {}

\* The outputs on their way, and their seeds.
Outputs ==
  /\ vdfInProgress \in BOOLEAN
  /\ computing \in Seq(Seeds) /\ pendingRnds \in Seq(Seeds) /\ adding \in AddRecord \cup {None}
  /\ failures = 0 => /\ NoVrfs(computing) /\ NoVrfs(pendingRnds)
                     /\ adding # None => NoVrfs(adding.old) /\ adding.seed = {}
                     /\ loop.pc = "pop" => NoVrfs(loop.popped)

\* What is agreed on.
Agreed == BlocksMade /\ Leading /\ Asking /\ CommitteeCurrent /\ LeaderIsAsked /\ AskedOnce /\ OneVdf

LoopInv == LoopShape /\ LoopBlock /\ Callers /\ Proposals /\ Agreed /\ Single /\ Outputs

------------------------------------------------------------------------------
(* Epochs. *)

\* A product with a positive number is at least the other factor.
LEMMA Product == ASSUME NEW a \in Nat, NEW d \in Int, d >= 1 PROVE a * d >= a
  OBVIOUS

\* Quotient and remainder, and that they are unique.
LEMMA Divided ==
  ASSUME NEW n \in Nat
  PROVE  /\ Epoch(n) \in Nat /\ n % EpochLen \in 0..(EpochLen - 1)
         /\ n = EpochLen * Epoch(n) + (n % EpochLen)
  BY LoopAssumption DEF Epoch

\* They are the only ones.
LEMMA Quotient ==
  ASSUME NEW n \in Nat, NEW q \in Int, NEW r \in 0..(EpochLen - 1), n = EpochLen * q + r
  PROVE  Epoch(n) = q /\ n % EpochLen = r
  <1>1. PICK p, s : p = Epoch(n) /\ s = n % EpochLen
    OBVIOUS
  <1>2. /\ p \in Nat /\ s \in 0..(EpochLen - 1) /\ n = EpochLen * p + s /\ EpochLen \in Nat
    BY <1>1, Divided, LoopAssumption
  <1>3. EpochLen * (p - q) = r - s /\ EpochLen * (q - p) = s - r
    BY <1>2
  <1>4. ~(p - q >= 1)
    BY <1>2, <1>3, Product
  <1>5. ~(q - p >= 1)
    BY <1>2, <1>3, Product
  <1>6. p = q
    BY <1>2, <1>4, <1>5
  <1>7. s = r
    BY <1>2, <1>6
  <1> QED
    BY <1>1, <1>6, <1>7

\* Epochs follow one another; the last block of one is where the next begins.
LEMMA NextEpoch ==
  ASSUME NEW n \in Nat
  PROVE  /\ n > 0 /\ IsLast(n) => Epoch(n + 1) = Epoch(n) + 1
         /\ ~IsLast(n) => Epoch(n + 1) = Epoch(n)
  <1>1. PICK q, r : q = Epoch(n + 1) /\ r = (n + 1) % EpochLen
    OBVIOUS
  <1>2. q \in Nat /\ r \in 0..(EpochLen - 1) /\ n + 1 = EpochLen * q + r /\ EpochLen \in Nat /\ EpochLen > 1
    BY <1>1, Divided, LoopAssumption
  <1>3. CASE r = 0
    <2>1. n = EpochLen * (q - 1) + (EpochLen - 1)
      BY <1>2, <1>3
    <2>2. Epoch(n) = q - 1
      BY <1>2, <2>1, Quotient
    <2> QED
      BY <1>1, <1>2, <1>3, <2>2 DEF IsLast
  <1>4. CASE r # 0
    <2>1. n = EpochLen * q + (r - 1) /\ r - 1 \in 0..(EpochLen - 1)
      BY <1>2, <1>4
    <2>2. Epoch(n) = q
      BY <1>2, <2>1, Quotient
    <2> QED
      BY <1>1, <1>2, <1>4, <2>2 DEF IsLast
  <1> QED
    BY <1>3, <1>4

\* Later blocks are in later epochs.
LEMMA EpochsGrow ==
  ASSUME NEW m \in Nat, NEW n \in Nat, m <= n
  PROVE  Epoch(m) <= Epoch(n) /\ Epoch(m) \in Nat /\ Epoch(n) \in Nat
  <1>1. PICK p, q, r, s : p = Epoch(m) /\ q = Epoch(n) /\ r = m % EpochLen /\ s = n % EpochLen
    OBVIOUS
  <1>2. /\ p \in Nat /\ q \in Nat /\ r \in 0..(EpochLen - 1) /\ s \in 0..(EpochLen - 1) /\ EpochLen \in Nat
        /\ m = EpochLen * p + r /\ n = EpochLen * q + s
    BY <1>1, Divided, LoopAssumption
  <1>3. EpochLen * (p - q) <= s - r
    BY <1>2
  <1>4. ~(p - q >= 1)
    BY <1>2, <1>3, Product
  <1> QED
    BY <1>1, <1>2, <1>4

\* Block 1 is in the epoch of the genesis block.
LEMMA FirstEpoch == Epoch(0) = 0 /\ Epoch(1) = 0
  <1>1. 0 = EpochLen * 0 + 0 /\ 1 = EpochLen * 0 + 1 /\ 0 \in 0..(EpochLen - 1) /\ 1 \in 0..(EpochLen - 1)
    BY LoopAssumption
  <1> QED
    BY <1>1, Quotient

------------------------------------------------------------------------------
(* The main loop. *)

\* The invariant implies what is promised.
LEMMA LoopFollows == LoopInv => LoopConsistent
  <1> SUFFICES ASSUME LoopInv PROVE LoopConsistent
    OBVIOUS
  <1>1. chain \in Seq(ChainRecord) /\ head \in Nat /\ \A n \in 1..head : chain[n] \in ChainRecord
    BY DEF LoopInv, LoopShape, head
  <1>2. \A n \in 1..head : chain[n].vrf \in BOOLEAN /\ chain[n].vdf \in {None} \cup Seeds
    BY <1>1, Zenon DEF ChainRecord
  <1>3. loop.pc \in {"new", "select", "vrf", "rnd", "pop", "announce", "stopped"}
    BY Zenon DEF LoopInv, LoopBlock, LoopRecord, Pcs, Busy
  <1>4. loop.pc \in {"vrf", "rnd", "pop", "announce"} <=> loop.block # None
    BY Zenon DEF LoopInv, LoopBlock, Busy
  <1>5. ready \in 0..MaxSyncs /\ notReady \in 0..MaxSyncs
    BY LoopAssumption DEF LoopInv, Callers
  <1>6. LoopTypeOK
    BY <1>2, <1>3, <1>4, <1>5, Zenon DEF LoopTypeOK, LoopInv, LoopShape
  <1>7. OneRandomness
    BY Zenon DEF OneRandomness, LoopInv, Single
  <1>8. SeedsAreEmpty
    BY Zenon DEF SeedsAreEmpty, LoopInv, Outputs, NoVrfs, Agreed, BlocksMade, Made, IsLeader
  <1> QED
    BY <1>6, <1>7, <1>8, Zenon DEF LoopConsistent, LoopInv, Agreed

\* At the start there is no block, and the committee of the first epoch is the one to agree.
LEMMA LoopInitial == LoopInit => LoopInv
  <1> SUFFICES ASSUME LoopInit PROVE LoopInv
    OBVIOUS
  <1>0. chain = <<>> /\ head = 0 /\ computing = <<>> /\ pendingRnds = <<>> /\ adding = None
    BY DEF LoopInit, head
  <1>1. Epoch(0) = 0 /\ Epoch(1) = 0 /\ 0 \in 0..Epoch(MaxHeight + 1) /\ 1 \in 1..(MaxHeight + 1) /\ MaxHeight \in Nat
    <2>1. Epoch(MaxHeight + 1) \in Nat
      BY LoopAssumption, EpochsGrow
    <2> QED
      BY <2>1, FirstEpoch, LoopAssumption
  <1>2. committee \in [0..Epoch(MaxHeight + 1) -> Committees] /\ committee[0] # None /\ committee[0] # <<>>
    BY Zenon DEF LoopInit
  <1>3. committee[0] \in Seq(ShardKeys)
    BY <1>1, <1>2, LoopAssumption, Zenon
  <1>4. committee[0][1] \in ShardKeys
    BY <1>2, <1>3
  <1>5. LoopShape
    <2>1. chain \in Seq(ChainRecord) /\ head <= MaxHeight /\ blockNum \in 1..(head + 1)
      BY <1>0, <1>1 DEF LoopInit
    <2>2. asked \in [1..(MaxHeight + 1) -> Nat] /\ signals \in Nat /\ failures \in Nat /\ starts \in Nat
      BY DEF LoopInit
    <2> QED
      BY <1>2, <1>3, <1>4, <2>1, <2>2, Zenon DEF LoopInit, LoopShape
  <1>6. LoopBlock
    BY Zenon DEF LoopBlock, LoopInit, LoopAt, LoopRecord, Pcs, Busy
  <1>7. Callers
    BY LoopAssumption DEF LoopInit, Callers
  <1>8. Proposals
    BY Zenon DEF Proposals, LoopInit, LoopAt
  <1>9. Agreed
    <2>1. BlocksMade /\ OneVdf
      BY <1>0 DEF BlocksMade, OneVdf
    <2>2. Leading
      BY <1>0, <1>1, <1>2 DEF Leading, LoopInit, Leads, Behind, Empty, First
    <2>3. Asking
      BY <1>0, <1>1 DEF Asking, LoopInit
    <2>4. CommitteeCurrent
      BY <1>0, <1>1 DEF CommitteeCurrent, LoopInit
    <2>5. LeaderIsAsked
      BY <1>0 DEF LeaderIsAsked
    <2>6. AskedOnce
      BY DEF AskedOnce, LoopInit
    <2> QED
      BY <2>1, <2>2, <2>3, <2>4, <2>5, <2>6, Zenon DEF Agreed
  <1>10. Single
    BY <1>0 DEF Single, LoopInit, LoopAt, Total
  <1>11. Outputs
    <2>1. vdfInProgress \in BOOLEAN /\ loop.pc # "pop"
      BY Zenon DEF LoopInit, LoopAt
    <2>3. computing \in Seq(Seeds) /\ pendingRnds \in Seq(Seeds)
      BY <1>0
    <2>2. NoVrfs(computing) /\ NoVrfs(pendingRnds)
      BY <1>0 DEF NoVrfs
    <2> QED
      BY <1>0, <2>1, <2>2, <2>3, Zenon DEF Outputs
  <1> QED
    BY <1>5, <1>6, <1>7, <1>8, <1>9, <1>10, <1>11, Zenon DEF LoopInv

\* What each part of the invariant speaks of.
AgreedVars == <<committee, chain, blockNum, mode, leader, parts, asked, failures, gap>>

\* A step that leaves these variables alone keeps what is agreed on.
LEMMA AgreedKept == Agreed /\ UNCHANGED AgreedVars => Agreed'
  <1> SUFFICES ASSUME Agreed, UNCHANGED AgreedVars PROVE Agreed'
    OBVIOUS
  <1>0. UNCHANGED <<committee, chain, blockNum, mode, leader, parts, asked, failures, gap>> /\ head' = head
    BY Zenon DEF AgreedVars, head
  <1>1. BlocksMade'
    BY <1>0, Zenon DEF Agreed, BlocksMade, Made, NewLeader, Empty, First
  <1>2. Leading'
    BY <1>0, Zenon DEF Agreed, Leading, Leads, Behind, Empty, First, IsLeader
  <1>3. Asking'
    BY <1>0, Zenon DEF Agreed, Asking
  <1>4. CommitteeCurrent' /\ LeaderIsAsked' /\ AskedOnce'
    BY <1>0, Zenon DEF Agreed, CommitteeCurrent, LeaderIsAsked, AskedOnce, IsLeader
  <1>5. OneVdf'
    BY <1>0, Zenon DEF Agreed, OneVdf
  <1> QED
    BY <1>1, <1>2, <1>3, <1>4, <1>5, Zenon DEF Agreed

\* A proposal stays one while the chain stays as it is.
LEMMA ProposedKept ==
  ASSUME NEW b, Proposed(b), UNCHANGED <<committee, chain, failures>>
  PROVE  Proposed(b)'
  <1>1. head' = head
    BY Zenon DEF head
  <1> QED
    BY <1>1, Zenon DEF Proposed, NewLeader, HasVdf, Leads, Empty, First

\* So do all of them.
LEMMA ProposalsKept ==
  ASSUME Proposals, UNCHANGED <<committee, chain, failures, proposer, loop, announced>>
  PROVE  Proposals'
  <1>1. \A b : Proposed(b) => Proposed(b)'
    BY ProposedKept, Zenon
  <1> QED
    BY <1>1, Zenon DEF Proposals

\* A step that leaves the loop and its outputs alone keeps their count and their seeds.
LEMMA RandomKept ==
  ASSUME Single, Outputs, UNCHANGED <<loop, starts, failures, Rnd>>
  PROVE  Single' /\ Outputs'
  <1>1. UNCHANGED <<vdfInProgress, computing, pendingRnds, adding>> /\ Total' = Total
    BY Zenon DEF Rnd, Total
  <1> QED
    BY <1>1, Zenon DEF Single, Outputs, NoVrfs

\* The callers that report on the synchronization are as many as before.
LEMMA CallersKept == Callers /\ UNCHANGED Syncs => Callers'
  BY Zenon DEF Callers, Syncs

\* The loop has the block that it had.
LEMMA LoopBlockKept == LoopBlock /\ UNCHANGED loop => LoopBlock'
  BY Zenon DEF LoopBlock

\* A step outside consensus and randomness, or none.
LEMMA LifeKeeps ==
  ASSUME LoopInv, UNCHANGED <<committee, chain, Info, asked, proposer, loop, announced, Rnd, starts, failures, gap>>,
         signals' \in Nat, Callers'
  PROVE  LoopInv'
  <1>0. UNCHANGED <<committee, chain, blockNum, mode, leader, parts, asked, failures, gap>> /\ UNCHANGED AgreedVars /\ head' = head
    BY Zenon DEF Info, AgreedVars, head
  <1>1. LoopShape'
    BY <1>0, Zenon DEF LoopInv, LoopShape
  <1>2. LoopBlock'
    BY LoopBlockKept, Zenon DEF LoopInv
  <1>3. Proposals'
    BY <1>0, ProposalsKept, Zenon DEF LoopInv
  <1>4. Agreed'
    BY <1>0, AgreedKept, Zenon DEF LoopInv
  <1>5. Single' /\ Outputs'
    BY <1>0, RandomKept, Zenon DEF LoopInv
  <1> QED
    BY <1>1, <1>2, <1>3, <1>4, <1>5, Zenon DEF LoopInv

\* A step of the loop and of the outputs, which leaves the chain and the committee alone.
LEMMA RandomKeeps ==
  ASSUME LoopInv, UNCHANGED <<committee, chain, Info, asked, signals, failures, gap, Syncs>>, starts' \in Nat,
         proposer' \in BlockRecord \cup {None}, announced' \in BlockRecord \cup {None},
         LoopBlock', Proposals', Single', Outputs'
  PROVE  LoopInv'
  <1>0. UNCHANGED <<committee, chain, blockNum, mode, leader, parts, asked, failures, gap>> /\ UNCHANGED AgreedVars /\ head' = head
    BY Zenon DEF Info, AgreedVars, head
  <1>1. LoopShape'
    BY <1>0, Zenon DEF LoopInv, LoopShape
  <1>2. Callers'
    BY CallersKept, Zenon DEF LoopInv
  <1>3. Agreed'
    BY <1>0, AgreedKept, Zenon DEF LoopInv
  <1> QED
    BY <1>1, <1>2, <1>3, Zenon DEF LoopInv

------------------------------------------------------------------------------
(* The loop and the outputs of the VDF. *)

\* The number of outputs on their way.
LEMMA TotalIs ==
  ASSUME Outputs
  PROVE  /\ Len(pendingRnds) \in Nat /\ Len(computing) \in Nat
         /\ adding = None => Total = Len(pendingRnds) + Len(computing)
         /\ adding # None => Total = Len(pendingRnds) + Len(computing) + 1
         /\ Total <= 0 => pendingRnds = <<>> /\ computing = <<>> /\ adding = None
         /\ Total <= 1 /\ adding # None => pendingRnds = <<>> /\ computing = <<>>
         /\ Total <= 1 /\ computing # <<>> => pendingRnds = <<>> /\ adding = None /\ Len(computing) = 1
         /\ Total <= 1 /\ pendingRnds # <<>> => computing = <<>> /\ adding = None /\ Len(pendingRnds) = 1
         /\ Total \in Nat
  <1>1. computing \in Seq(Seeds) /\ pendingRnds \in Seq(Seeds)
    BY Zenon DEF Outputs
  <1>2. Len(pendingRnds) \in Nat /\ Len(computing) \in Nat
    BY <1>1
  <1>3. (Len(pendingRnds) = 0 => pendingRnds = <<>>) /\ (Len(computing) = 0 => computing = <<>>)
    BY <1>1
  <1>4. (pendingRnds # <<>> => Len(pendingRnds) > 0) /\ (computing # <<>> => Len(computing) > 0)
    BY <1>1
  <1>5. CASE adding = None
    <2>1. Total = Len(pendingRnds) + Len(computing)
      BY <1>2, <1>5 DEF Total
    <2>2. /\ Total <= 0 => Len(pendingRnds) = 0 /\ Len(computing) = 0
          /\ Total <= 1 /\ Len(computing) > 0 => Len(pendingRnds) = 0 /\ Len(computing) = 1
          /\ Total <= 1 /\ Len(pendingRnds) > 0 => Len(computing) = 0 /\ Len(pendingRnds) = 1
          /\ Total \in Nat
      <3>1. PICK t, p, c : t = Total /\ p = Len(pendingRnds) /\ c = Len(computing)
        OBVIOUS
      <3>2. p \in Nat /\ c \in Nat /\ t = p + c
        BY <1>2, <2>1, <3>1, Zenon
      <3>3. /\ t <= 0 => p = 0 /\ c = 0
            /\ t <= 1 /\ c > 0 => p = 0 /\ c = 1
            /\ t <= 1 /\ p > 0 => c = 0 /\ p = 1
            /\ t \in Nat
        BY <3>2
      <3> QED
        BY <3>1, <3>3, Zenon
    <2> QED
      BY <1>2, <1>3, <1>4, <1>5, <2>1, <2>2, Zenon
  <1>6. CASE adding # None
    <2>1. Total = Len(pendingRnds) + Len(computing) + 1
      BY <1>2, <1>6 DEF Total
    <2>2. /\ ~(Total <= 0) /\ Total \in Nat
          /\ Total <= 1 => Len(pendingRnds) = 0 /\ Len(computing) = 0
          /\ Total <= 1 => ~(Len(computing) > 0) /\ ~(Len(pendingRnds) > 0)
      BY <1>2, <2>1
    <2> QED
      BY <1>2, <1>3, <1>4, <1>6, <2>1, <2>2, Zenon
  <1> QED
    BY <1>5, <1>6

\* While the flag is not set there is no output, and never more than one, in the first start.
LEMMA SingleIs ==
  ASSUME Single, Outputs, starts <= 1
  PROVE  Total <= 1 /\ (~vdfInProgress => Total <= 0)
  <1>1. Total <= (IF vdfInProgress THEN 1 ELSE 0) /\ Total \in Nat
    BY TotalIs, Zenon DEF Single
  <1>2. CASE vdfInProgress
    BY <1>1, <1>2
  <1>3. CASE ~vdfInProgress
    BY <1>1, <1>3
  <1> QED
    BY <1>2, <1>3

\* Where the loop has no block.
LEMMA RestingLoop ==
  ASSUME NEW pc \in {"new", "select", "stopped"}, loop' = LoopAt(pc, None, None)
  PROVE  LoopBlock' /\ loop'.pc = pc /\ loop'.block = None
  BY Zenon DEF LoopBlock, LoopRecord, LoopAt, Pcs, Busy

\* Where it has the block b.
LEMMA BusyLoop ==
  ASSUME NEW pc \in Busy \ {"pop"}, NEW b \in BlockRecord, loop' = LoopAt(pc, b, None)
  PROVE  LoopBlock' /\ loop'.pc = pc /\ loop'.block = b
  <1>1. b # None
    BY LoopAssumption, Zenon
  <1> QED
    BY <1>1, Zenon DEF LoopBlock, LoopRecord, LoopAt, Pcs, Busy

\* StartService: the loop starts with the flag reset, which only its first start may do.
LEMMA StartServiceKeeps == LoopInv /\ StartService => LoopInv'
  <1> SUFFICES ASSUME LoopInv, StartService PROVE LoopInv'
    OBVIOUS
  <1>0. /\ starts' = starts + 1 /\ starts \in Nat /\ vdfInProgress' = FALSE /\ loop' = LoopAt("select", None, None)
        /\ UNCHANGED <<committee, chain, Info, asked, signals, proposer, announced, computing,
                       pendingRnds, adding, Syncs, failures, gap>>
    BY Zenon DEF StartService, Idle, LoopInv, LoopShape
  <1>1. LoopBlock' /\ loop'.pc = "select" /\ loop'.block = None
    BY <1>0, RestingLoop, Zenon
  <1>2. Proposals'
    <2>1. \A b : Proposed(b) => Proposed(b)'
      BY <1>0, ProposedKept, Zenon
    <2> QED
      BY <1>0, <1>1, <2>1, Zenon DEF Proposals, LoopInv
  <1>3. Outputs'
    BY <1>0, <1>1, Zenon DEF Outputs, LoopInv, NoVrfs
  <1>4. Total' = Total
    BY <1>0, Zenon DEF Total
  <1>5. Single'
    <2>1. starts' # 0
      BY <1>0
    <2>2. ASSUME starts' <= 1 PROVE Total' <= (IF vdfInProgress' THEN 1 ELSE 0) /\ adding' = None
      <3>1. starts = 0
        BY <1>0, <2>2
      <3>2. Total = 0
        BY <3>1, Zenon DEF LoopInv, Single
      <3>3. adding = None
        BY <3>2, TotalIs DEF LoopInv
      <3>4. Total' <= 0
        BY <1>4, <3>2
      <3> QED
        BY <1>0, <3>3, <3>4, Zenon
    <2> QED
      BY <1>1, <2>1, <2>2, Zenon DEF Single
  <1>6. starts' \in Nat
    BY <1>0
  <1>7. proposer' \in BlockRecord \cup {None} /\ announced' \in BlockRecord \cup {None}
    BY <1>0, Zenon DEF LoopInv, LoopShape
  <1> QED
    BY <1>0, <1>1, <1>2, <1>3, <1>5, <1>6, <1>7, RandomKeeps, Zenon

\* TakeStop: the loop ends in its select.
LEMMA TakeStopKeeps == LoopInv /\ TakeStop => LoopInv'
  <1> SUFFICES ASSUME LoopInv, TakeStop PROVE LoopInv'
    OBVIOUS
  <1>0. /\ loop' = LoopAt("stopped", None, None) /\ loop.pc = "select"
        /\ UNCHANGED <<committee, chain, Info, asked, signals, proposer, announced, Rnd, starts, Syncs, failures, gap>>
    BY Zenon DEF TakeStop
  <1>1. LoopBlock' /\ loop'.pc = "stopped" /\ loop'.block = None
    BY <1>0, RestingLoop, Zenon
  <1>2. Proposals'
    <2>1. \A b : Proposed(b) => Proposed(b)'
      BY <1>0, ProposedKept, Zenon
    <2> QED
      BY <1>0, <1>1, <2>1, Zenon DEF Proposals, LoopInv
  <1>3. UNCHANGED <<vdfInProgress, computing, pendingRnds, adding>> /\ Total' = Total
    BY <1>0, Zenon DEF Rnd, Total
  <1>4. Outputs'
    BY <1>0, <1>1, <1>3, Zenon DEF Outputs, LoopInv, NoVrfs
  <1>5. Single'
    BY <1>0, <1>1, <1>3, Zenon DEF Single, LoopInv
  <1>6. starts' \in Nat /\ proposer' \in BlockRecord \cup {None} /\ announced' \in BlockRecord \cup {None}
    BY <1>0, Zenon DEF LoopInv, LoopShape
  <1> QED
    BY <1>0, <1>1, <1>2, <1>4, <1>5, <1>6, RandomKeeps, Zenon

\* ReceiveBlock: a proposal that is not old comes to the loop.
LEMMA ReceiveBlockKeeps == LoopInv /\ ReceiveBlock => LoopInv'
  <1> SUFFICES ASSUME LoopInv, ReceiveBlock PROVE LoopInv'
    OBVIOUS
  <1>0. /\ proposer' = None /\ loop.pc = "select" /\ proposer \in BlockRecord /\ Proposed(proposer)
        /\ loop' = loop \/ loop' = LoopAt("vrf", proposer, None)
        /\ UNCHANGED <<committee, chain, Info, asked, signals, announced, Rnd, starts, Syncs, failures, gap>>
    BY Zenon DEF ReceiveBlock, Life, LoopInv, LoopShape, Proposals
  <1>1. LoopBlock' /\ (loop' = loop \/ (loop'.pc = "vrf" /\ loop'.block = proposer))
    <2>1. CASE loop' = loop
      BY <2>1, LoopBlockKept, Zenon DEF LoopInv
    <2>2. CASE loop' = LoopAt("vrf", proposer, None)
      <3>1. "vrf" \in Busy \ {"pop"}
        BY DEF Busy
      <3> QED
        BY <1>0, <2>2, <3>1, BusyLoop, Zenon
    <2> QED
      BY <1>0, <2>1, <2>2, Zenon
  <1>2. Proposals'
    <2>1. \A b : Proposed(b) => Proposed(b)'
      BY <1>0, ProposedKept, Zenon
    <2> QED
      BY <1>0, <1>1, <2>1, Zenon DEF Proposals, LoopInv
  <1>3. UNCHANGED <<vdfInProgress, computing, pendingRnds, adding>> /\ Total' = Total
    BY <1>0, Zenon DEF Rnd, Total
  <1>4. Outputs'
    BY <1>0, <1>1, <1>3, Zenon DEF Outputs, LoopInv, NoVrfs
  <1>5. Single'
    BY <1>0, <1>1, <1>3, Zenon DEF Single, LoopInv
  <1>6. starts' \in Nat /\ proposer' \in BlockRecord \cup {None} /\ announced' \in BlockRecord \cup {None}
    BY <1>0, Zenon DEF LoopInv, LoopShape
  <1> QED
    BY <1>0, <1>1, <1>2, <1>4, <1>5, <1>6, RandomKeeps, Zenon

\* ReadRnd: the loop reads the list of outputs.
LEMMA ReadRndKeeps == LoopInv /\ ReadRnd => LoopInv'
  <1> SUFFICES ASSUME LoopInv, ReadRnd PROVE LoopInv'
    OBVIOUS
  <1>0. /\ loop.pc = "rnd" /\ loop.block \in BlockRecord /\ loop.block # None /\ Proposed(loop.block)
        /\ \/ loop' = LoopAt("announce", loop.block, None)
           \/ pendingRnds # <<>> /\ loop' = LoopAt("pop", loop.block, pendingRnds)
        /\ UNCHANGED <<committee, chain, Info, asked, signals, proposer, announced, Rnd, starts, Syncs, failures, gap>>
    BY Zenon DEF ReadRnd, Life, LoopInv, LoopBlock, LoopRecord, Proposals, Busy
  <1>1. LoopBlock' /\ loop'.block = loop.block /\ loop'.pc # "new"
        /\ (loop'.pc = "pop" => loop'.popped = pendingRnds /\ pendingRnds # <<>>)
    <2>1. CASE loop' = LoopAt("announce", loop.block, None)
      <3>1. "announce" \in Busy \ {"pop"} /\ "announce" # "new"
        BY DEF Busy
      <3> QED
        BY <1>0, <2>1, <3>1, BusyLoop, Zenon
    <2>2. CASE pendingRnds # <<>> /\ loop' = LoopAt("pop", loop.block, pendingRnds)
      BY <1>0, <2>2, Zenon DEF LoopBlock, LoopRecord, LoopAt, Pcs, Busy, LoopInv, Outputs
    <2> QED
      BY <1>0, <2>1, <2>2, Zenon
  <1>2. Proposals'
    <2>1. \A b : Proposed(b) => Proposed(b)'
      BY <1>0, ProposedKept, Zenon
    <2> QED
      BY <1>0, <1>1, <2>1, Zenon DEF Proposals, LoopInv
  <1>3. UNCHANGED <<vdfInProgress, computing, pendingRnds, adding>> /\ Total' = Total
    BY <1>0, Zenon DEF Rnd, Total
  <1>4. Outputs'
    BY <1>0, <1>1, <1>3, Zenon DEF Outputs, LoopInv, NoVrfs
  <1>5. Single'
    BY <1>0, <1>1, <1>3, Zenon DEF Single, LoopInv
  <1>6. starts' \in Nat /\ proposer' \in BlockRecord \cup {None} /\ announced' \in BlockRecord \cup {None}
    BY <1>0, Zenon DEF LoopInv, LoopShape
  <1> QED
    BY <1>0, <1>1, <1>2, <1>4, <1>5, <1>6, RandomKeeps, Zenon

\* Announce: consensus runs on the block.
LEMMA AnnounceKeeps == LoopInv /\ Announce => LoopInv'
  <1> SUFFICES ASSUME LoopInv, Announce PROVE LoopInv'
    OBVIOUS
  <1>0. /\ loop.pc = "announce" /\ loop.block \in BlockRecord /\ Proposed(loop.block)
        /\ announced' = loop.block /\ loop' = LoopAt("select", None, None)
        /\ UNCHANGED <<committee, chain, Info, asked, signals, proposer, Rnd, starts, Syncs, failures, gap>>
    BY Zenon DEF Announce, Idle, Life, LoopInv, LoopBlock, LoopRecord, Proposals, Busy
  <1>1. LoopBlock' /\ loop'.pc = "select" /\ loop'.block = None
    BY <1>0, RestingLoop, Zenon
  <1>2. Proposals'
    <2>1. \A b : Proposed(b) => Proposed(b)'
      BY <1>0, ProposedKept, Zenon
    <2> QED
      BY <1>0, <1>1, <2>1, Zenon DEF Proposals, LoopInv
  <1>3. UNCHANGED <<vdfInProgress, computing, pendingRnds, adding>> /\ Total' = Total
    BY <1>0, Zenon DEF Rnd, Total
  <1>4. Outputs'
    BY <1>0, <1>1, <1>3, Zenon DEF Outputs, LoopInv, NoVrfs
  <1>5. Single'
    BY <1>0, <1>1, <1>3, Zenon DEF Single, LoopInv
  <1>6. starts' \in Nat /\ proposer' \in BlockRecord \cup {None} /\ announced' \in BlockRecord \cup {None}
    BY <1>0, Zenon DEF LoopInv, LoopShape
  <1> QED
    BY <1>0, <1>1, <1>2, <1>4, <1>5, <1>6, RandomKeeps, Zenon

\* A leader is new in one block of an epoch at most.
LEMMA OneFirst ==
  ASSUME LoopInv, NEW k, NEW m \in 1..(head + 1), NEW n \in 1..(head + 1), m < n,
         Epoch(m) = Epoch(n), First(Epoch(n)) = k, NewLeader(n, k)
  PROVE  FALSE
  <1>0. chain \in Seq(ChainRecord) /\ head \in Nat
    BY DEF LoopInv, LoopShape, head
  <1>1. n > 1 /\ n - 1 \in 1..head /\ m \in Nat /\ n \in Nat /\ n - 1 \in Nat /\ m <= n - 1 /\ n - 1 <= n /\ n # 1
    BY <1>0
  <1>2. Epoch(m) <= Epoch(n - 1) /\ Epoch(n - 1) <= Epoch(n) /\ Epoch(m) \in Nat /\ Epoch(n) \in Nat /\ Epoch(n - 1) \in Nat
    BY <1>1, EpochsGrow
  <1>3. Epoch(n - 1) = Epoch(n)
    BY <1>2
  <1>4. chain[n - 1].by = First(Epoch(n - 1))
    BY <1>1, Zenon DEF LoopInv, Agreed, BlocksMade, Made
  <1> QED
    BY <1>1, <1>3, <1>4, Zenon DEF NewLeader

\* When a block needs a VRF, no block of its epoch has one: the seed of a VDF is empty.
LEMMA NoVrfYet ==
  ASSUME LoopInv, failures = 0, NEW b, Proposed(b), NeedsVrf(b)
  PROVE  VrfNums(Epoch(b.n)) = {}
  <1> SUFFICES ASSUME NEW m \in 1..head, chain[m].vrf, Epoch(m) = Epoch(b.n) PROVE FALSE
    BY Zenon DEF VrfNums
  <1>0. chain \in Seq(ChainRecord) /\ head \in Nat
    BY DEF LoopInv, LoopShape, head
  <1>1. ~Empty(Epoch(m)) /\ chain[m].by = First(Epoch(m)) /\ NewLeader(m, chain[m].by)
    BY Zenon DEF LoopInv, Agreed, BlocksMade, Made
  <1>2. b.by = First(Epoch(m)) /\ NewLeader(b.n, b.by)
    BY <1>1, Zenon DEF Proposed, Leads, NeedsVrf, NewLeader
  <1>3. PICK n : n = b.n
    OBVIOUS
  <1>4. n \in 1..(head + 1) /\ m \in 1..(head + 1)
    BY <1>0, <1>3, LoopAssumption DEF Proposed
  <1>5. ~(m < n)
    BY <1>1, <1>2, <1>3, <1>4, OneFirst, Zenon
  <1>6. ~(n < m)
    BY <1>1, <1>2, <1>3, <1>4, OneFirst, Zenon
  <1>7. m = n /\ n <= head
    BY <1>0, <1>4, <1>5, <1>6
  <1> QED
    BY <1>3, <1>7, Zenon DEF NeedsVrf

\* The VRFs of an epoch make a seed.
LEMMA SeedIs ==
  ASSUME LoopInv, NEW e
  PROVE  Seed(VrfNums(e)) \in Seeds /\ (VrfNums(e) = {} => Seed(VrfNums(e)) = {})
  <1>0. chain \in Seq(ChainRecord) /\ head \in Nat /\ head <= MaxHeight /\ MaxHeight \in Nat
    BY LoopAssumption DEF LoopInv, LoopShape, head
  <1>1. 1..head \subseteq 1..MaxHeight
    BY <1>0
  <1>2. VrfNums(e) \subseteq 1..MaxHeight
    BY <1>1, Zenon DEF VrfNums
  <1> QED
    BY <1>2, Zenon DEF Seed, Seeds

\* GenerateVrf: the block's VRF, and the start of a VDF.
LEMMA GenerateVrfKeeps == LoopInv /\ GenerateVrf => LoopInv'
  <1> SUFFICES ASSUME LoopInv, GenerateVrf PROVE LoopInv'
    OBVIOUS
  <1>0. PICK b, s : b = loop.block /\ s = Seed(VrfNums(Epoch(b.n)))
    OBVIOUS
  <1>1. /\ loop.pc = "vrf" /\ b \in BlockRecord /\ Proposed(b)
        /\ UNCHANGED <<committee, chain, Info, asked, signals, proposer, announced, pendingRnds, adding,
                       starts, Syncs, failures, gap>>
    BY <1>0, Zenon DEF GenerateVrf, Life, LoopInv, LoopBlock, LoopRecord, Proposals, Busy
  <1>2. \A c : Proposed(c) => Proposed(c)'
    BY <1>1, ProposedKept, Zenon
  <1>3. PICK c : /\ c \in BlockRecord /\ Proposed(c) /\ loop' = LoopAt("rnd", c, None)
    <2>1. CASE NeedsVrf(b)
      <3>1. PICK c : c = [n |-> b.n, by |-> b.by, vrf |-> IsLeader(leader), vdf |-> b.vdf]
        OBVIOUS
      <3>2. loop' = LoopAt("rnd", c, None)
        BY <1>0, <2>1, <3>1, Zenon DEF GenerateVrf
      <3>3. c \in BlockRecord
        <4>1. IsLeader(leader) \in BOOLEAN
          <5>1. CASE IsLeader(leader)
            BY <5>1 DEF IsLeader
          <5>2. CASE ~IsLeader(leader)
            BY <5>2 DEF IsLeader
          <5> QED
            BY <5>1, <5>2, Zenon
        <4>2. b.n \in Nat /\ b.by \in ShardKeys /\ b.vdf \in Seeds \cup {None}
          BY <1>1, Zenon DEF BlockRecord
        <4> QED
          BY <3>1, <4>1, <4>2, Zenon DEF BlockRecord
      <3>4. c.n = b.n /\ c.by = b.by /\ c.vdf = b.vdf
        BY <3>1, Zenon
      <3>5. NewLeader(c.n, c.by)
        BY <2>1, <3>4, Zenon DEF NeedsVrf, NewLeader
      <3>6. Proposed(c)
        BY <1>1, <3>4, <3>5, Zenon DEF Proposed
      <3> QED
        BY <3>2, <3>3, <3>6, Zenon
    <2>2. CASE ~NeedsVrf(b)
      BY <1>0, <1>1, <2>2, Zenon DEF GenerateVrf
    <2> QED
      BY <2>1, <2>2
  <1>4. LoopBlock' /\ loop'.pc = "rnd" /\ loop'.block = c
    <2>1. "rnd" \in Busy \ {"pop"}
      BY DEF Busy
    <2> QED
      BY <1>3, <2>1, BusyLoop, Zenon
  <1>5. Proposals'
    BY <1>1, <1>2, <1>3, <1>4, Zenon DEF Proposals, LoopInv
  <1>6. \/ UNCHANGED <<computing, vdfInProgress>>
        \/ computing' = Append(computing, s) /\ vdfInProgress' = TRUE /\ ~vdfInProgress /\ NeedsVrf(b)
    BY <1>0, Zenon DEF GenerateVrf, StartsVdf
  <1>7. s \in Seeds /\ (NeedsVrf(b) /\ failures = 0 => s = {})
    BY <1>0, <1>1, SeedIs, NoVrfYet, Zenon
  <1>8. starts' \in Nat /\ proposer' \in BlockRecord \cup {None} /\ announced' \in BlockRecord \cup {None}
    BY <1>1, Zenon DEF LoopInv, LoopShape
  <1>9. CASE UNCHANGED <<computing, vdfInProgress>>
    <2>1. Total' = Total
      BY <1>1, <1>9, Zenon DEF Total
    <2>2. Outputs'
      BY <1>1, <1>4, <1>9, Zenon DEF Outputs, LoopInv, NoVrfs
    <2>3. Single'
      BY <1>1, <1>4, <1>9, <2>1, Zenon DEF Single, LoopInv
    <2> QED
      BY <1>1, <1>4, <1>5, <1>8, <2>2, <2>3, RandomKeeps, Zenon
  <1>10. CASE computing' = Append(computing, s) /\ vdfInProgress' = TRUE /\ ~vdfInProgress /\ NeedsVrf(b)
    <2>1. computing \in Seq(Seeds) /\ Outputs /\ Single
      BY Zenon DEF LoopInv, Outputs
    <2>2. computing' \in Seq(Seeds) /\ Len(computing') = Len(computing) + 1
      BY <1>7, <1>10, <2>1
    <2>3. failures = 0 => NoVrfs(computing')
      BY <1>7, <1>10, <2>1 DEF Outputs, NoVrfs
    <2>4. Outputs'
      <3>1. failures' = 0 => NoVrfs(computing)'
        BY <1>1, <2>3, Zenon DEF NoVrfs
      <3> QED
        BY <1>1, <1>4, <1>10, <2>1, <2>2, <3>1, Zenon DEF Outputs, NoVrfs
    <2>5. starts' <= 1 => Total' <= 1 /\ adding' = None
      <3> SUFFICES ASSUME starts' <= 1 PROVE Total' <= 1 /\ adding' = None
        OBVIOUS
      <3>1. Total <= 0
        BY <1>1, <1>10, <2>1, SingleIs, Zenon
      <3>2. pendingRnds = <<>> /\ computing = <<>> /\ adding = None
        BY <2>1, <3>1, TotalIs, Zenon
      <3>3. Len(computing') = 1 /\ Len(pendingRnds') = 0
        BY <1>1, <2>2, <3>2
      <3> QED
        BY <1>1, <3>2, <3>3 DEF Total
    <2>6. starts' # 0
      BY <1>1, Zenon DEF LoopInv, Single
    <2>7. Single'
      BY <1>4, <1>10, <2>5, <2>6, Zenon DEF Single
    <2> QED
      BY <1>1, <1>4, <1>5, <1>8, <2>4, <2>7, RandomKeeps, Zenon
  <1> QED
    BY <1>6, <1>9, <1>10, Zenon

\* PopRnd: the block gets the output, unless its epoch has one.
LEMMA PopRndKeeps == LoopInv /\ PopRnd => LoopInv'
  <1> SUFFICES ASSUME LoopInv, PopRnd PROVE LoopInv'
    OBVIOUS
  <1>0. PICK b, s, c : /\ b = loop.block /\ s = loop.popped
                       /\ c = [n |-> b.n, by |-> b.by, vrf |-> b.vrf, vdf |-> IF AddsVdf(Epoch(b.n)) THEN Head(s) ELSE b.vdf]
    OBVIOUS
  <1>1. /\ loop.pc = "pop" /\ b \in BlockRecord /\ Proposed(b) /\ s \in Seq(Seeds) /\ s # <<>>
        /\ pendingRnds' = Tail(s) /\ vdfInProgress' = FALSE /\ loop' = LoopAt("announce", c, None)
        /\ UNCHANGED <<committee, chain, Info, asked, signals, proposer, announced, computing, adding,
                       starts, Syncs, failures, gap>>
    BY <1>0, Zenon DEF PopRnd, Life, LoopInv, LoopBlock, LoopRecord, Proposals, Busy
  <1>2. \A x : Proposed(x) => Proposed(x)'
    BY <1>1, ProposedKept, Zenon
  <1>3. Head(s) \in Seeds /\ Tail(s) \in Seq(Seeds) /\ Len(Tail(s)) = Len(s) - 1 /\ Len(s) \in Nat
        /\ Head(s) = s[1] /\ 1 \in 1..Len(s) /\ \A i \in 1..Len(Tail(s)) : Tail(s)[i] = s[i + 1] /\ i + 1 \in 1..Len(s)
    BY <1>1
  <1>4. failures = 0 => NoVrfs(s)
    BY <1>0, <1>1, Zenon DEF LoopInv, Outputs
  <1>5. c.n = b.n /\ c.by = b.by /\ c.vrf = b.vrf
    BY <1>0, Zenon
  <1>6. c.vdf = b.vdf \/ (c.vdf = Head(s) /\ ~HasVdf(Epoch(b.n)))
    <2>1. c.vdf = IF AddsVdf(Epoch(b.n)) THEN Head(s) ELSE b.vdf
      BY <1>0, Zenon
    <2> QED
      BY <2>1, Zenon DEF AddsVdf
  <1>7. c \in BlockRecord
    <2>1. b.n \in Nat /\ b.by \in ShardKeys /\ b.vrf \in BOOLEAN /\ b.vdf \in Seeds \cup {None}
      BY <1>1, Zenon DEF BlockRecord
    <2>2. PICK d : d = IF AddsVdf(Epoch(b.n)) THEN Head(s) ELSE b.vdf
      OBVIOUS
    <2>3. d \in Seeds \cup {None}
      BY <1>3, <2>1, <2>2, Zenon
    <2> QED
      BY <1>0, <2>1, <2>2, <2>3, Zenon DEF BlockRecord
  <1>8. failures = 0 => Head(s) = {}
    BY <1>3, <1>4, Zenon DEF NoVrfs
  <1>9. Proposed(c)
    BY <1>1, <1>5, <1>6, <1>8, Zenon DEF Proposed
  <1>10. LoopBlock' /\ loop'.pc = "announce" /\ loop'.block = c
    <2>1. "announce" \in Busy \ {"pop"}
      BY DEF Busy
    <2> QED
      BY <1>1, <1>7, <2>1, BusyLoop, Zenon
  <1>11. Proposals'
    BY <1>1, <1>2, <1>9, <1>10, Zenon DEF Proposals, LoopInv
  <1>12. Outputs'
    <2>1. failures = 0 => NoVrfs(Tail(s))
      BY <1>3, <1>4, Zenon DEF NoVrfs
    <2>2. failures' = 0 => NoVrfs(pendingRnds)' /\ NoVrfs(computing)' /\ (adding' # None => NoVrfs(adding.old)' /\ adding'.seed = {})
      BY <1>1, <2>1, Zenon DEF LoopInv, Outputs, NoVrfs
    <2> QED
      BY <1>1, <1>3, <1>10, <2>2, Zenon DEF LoopInv, Outputs
  <1>13. starts' <= 1 => Total' <= 0 /\ adding' = None
    <2> SUFFICES ASSUME starts' <= 1 PROVE Total' <= 0 /\ adding' = None
      OBVIOUS
    <2>1. s = pendingRnds /\ Outputs /\ Total <= 1
      BY <1>0, <1>1, SingleIs, Zenon DEF LoopInv, Single
    <2>2. computing = <<>> /\ adding = None /\ Len(pendingRnds) = 1
      BY <1>1, <2>1, TotalIs, Zenon
    <2>3. Len(pendingRnds') = 0 /\ Len(computing') = 0
      BY <1>1, <1>3, <2>1, <2>2
    <2> QED
      BY <1>1, <2>2, <2>3 DEF Total
  <1>14. starts' # 0
    BY <1>1, Zenon DEF LoopInv, Single
  <1>15. Single'
    BY <1>1, <1>10, <1>13, <1>14, Zenon DEF Single
  <1>16. starts' \in Nat /\ proposer' \in BlockRecord \cup {None} /\ announced' \in BlockRecord \cup {None}
    BY <1>1, Zenon DEF LoopInv, LoopShape
  <1> QED
    BY <1>1, <1>10, <1>11, <1>12, <1>15, <1>16, RandomKeeps, Zenon

\* TakeRnd: an output leaves its computation for WaitForNewRandomness.
LEMMA TakeRndKeeps == LoopInv /\ TakeRnd => LoopInv'
  <1> SUFFICES ASSUME LoopInv, TakeRnd PROVE LoopInv'
    OBVIOUS
  <1>1. /\ computing # <<>> /\ adding = None /\ computing' = Tail(computing)
        /\ adding' = [old |-> pendingRnds, seed |-> Head(computing)]
        /\ UNCHANGED <<committee, chain, Info, asked, signals, proposer, loop, announced, vdfInProgress,
                       pendingRnds, starts, Syncs, failures, gap>>
    BY Zenon DEF TakeRnd, Life
  <1>2. Outputs /\ computing \in Seq(Seeds) /\ pendingRnds \in Seq(Seeds)
    BY Zenon DEF LoopInv, Outputs
  <1>3. PICK s : s = computing
    OBVIOUS
  <1>4. Head(s) \in Seeds /\ Tail(s) \in Seq(Seeds) /\ Len(Tail(s)) = Len(s) - 1 /\ Len(s) \in Nat
        /\ Head(s) = s[1] /\ 1 \in 1..Len(s) /\ \A i \in 1..Len(Tail(s)) : Tail(s)[i] = s[i + 1] /\ i + 1 \in 1..Len(s)
    BY <1>1, <1>2, <1>3
  <1>5. failures = 0 => Head(s) = {} /\ NoVrfs(Tail(s)) /\ NoVrfs(pendingRnds)
    BY <1>2, <1>3, <1>4, Zenon DEF Outputs, NoVrfs
  <1>6. adding' \in AddRecord /\ adding' # None /\ adding'.old = pendingRnds /\ adding'.seed = Head(s)
    <2>1. adding' \in AddRecord
      BY <1>1, <1>2, <1>3, <1>4, Zenon DEF AddRecord
    <2> QED
      BY <1>1, <1>3, <2>1, LoopAssumption, Zenon
  <1>7. LoopBlock' /\ Proposals'
    BY <1>1, LoopBlockKept, ProposalsKept, Zenon DEF LoopInv
  <1>8. Outputs'
    <2>1. failures' = 0 => NoVrfs(pendingRnds)' /\ NoVrfs(computing)' /\ NoVrfs(adding.old)' /\ adding'.seed = {}
      BY <1>1, <1>3, <1>5, <1>6, Zenon DEF NoVrfs
    <2>2. failures' = 0 /\ loop'.pc = "pop" => NoVrfs(loop.popped)'
      BY <1>1, <1>2, Zenon DEF Outputs, NoVrfs
    <2> QED
      BY <1>1, <1>2, <1>3, <1>4, <1>6, <2>1, <2>2, Zenon DEF Outputs
  <1>9. Total' = Total
    <2>1. Len(pendingRnds') = Len(pendingRnds) /\ Len(computing') = Len(computing) - 1 /\ Len(pendingRnds) \in Nat /\ Len(computing) \in Nat
      BY <1>1, <1>2, <1>3, <1>4
    <2>2. Total = Len(pendingRnds) + Len(computing)
      BY <1>1, <1>2, TotalIs, Zenon
    <2>3. Total' = Len(pendingRnds') + Len(computing') + 1
      BY <1>6, <2>1 DEF Total
    <2> QED
      BY <2>1, <2>2, <2>3
  <1>10. starts' <= 1 => pendingRnds = <<>>
    BY <1>1, <1>2, SingleIs, TotalIs, Zenon DEF LoopInv
  <1>11. Single'
    BY <1>1, <1>6, <1>9, <1>10, Zenon DEF LoopInv, Single
  <1>12. starts' \in Nat /\ proposer' \in BlockRecord \cup {None} /\ announced' \in BlockRecord \cup {None}
    BY <1>1, Zenon DEF LoopInv, LoopShape
  <1> QED
    BY <1>1, <1>7, <1>8, <1>11, <1>12, RandomKeeps, Zenon

\* StoreRnd: the output comes to the end of the list that was read.
LEMMA StoreRndKeeps == LoopInv /\ StoreRnd => LoopInv'
  <1> SUFFICES ASSUME LoopInv, StoreRnd PROVE LoopInv'
    OBVIOUS
  <1>0. PICK a : a = adding
    OBVIOUS
  <1>1. /\ a # None /\ pendingRnds' = Append(a.old, a.seed) /\ adding' = None
        /\ UNCHANGED <<committee, chain, Info, asked, signals, proposer, loop, announced, vdfInProgress,
                       computing, starts, Syncs, failures, gap>>
    BY <1>0, Zenon DEF StoreRnd, Life
  <1>2. Outputs /\ computing \in Seq(Seeds) /\ pendingRnds \in Seq(Seeds)
    BY Zenon DEF LoopInv, Outputs
  <1>3. a.old \in Seq(Seeds) /\ a.seed \in Seeds
    BY <1>0, <1>1, <1>2, Zenon DEF Outputs, AddRecord
  <1>4. PICK s, x : s = a.old /\ x = a.seed
    OBVIOUS
  <1>5. /\ Append(s, x) \in Seq(Seeds) /\ Len(Append(s, x)) = Len(s) + 1 /\ Len(s) \in Nat
        /\ \A i \in 1..Len(Append(s, x)) : (i \in 1..Len(s) /\ Append(s, x)[i] = s[i]) \/ Append(s, x)[i] = x
    BY <1>3, <1>4
  <1>6. failures = 0 => x = {} /\ NoVrfs(s)
    BY <1>0, <1>1, <1>2, <1>4, Zenon DEF Outputs
  <1>7. pendingRnds' = Append(s, x)
    BY <1>1, <1>4, Zenon
  <1>8. failures = 0 => NoVrfs(Append(s, x))
    BY <1>5, <1>6, Zenon DEF NoVrfs
  <1>9. LoopBlock' /\ Proposals'
    BY <1>1, LoopBlockKept, ProposalsKept, Zenon DEF LoopInv
  <1>10. Outputs'
    <2>1. failures' = 0 => NoVrfs(pendingRnds)' /\ NoVrfs(computing)' /\ (loop'.pc = "pop" => NoVrfs(loop.popped)')
      BY <1>1, <1>2, <1>7, <1>8, Zenon DEF Outputs, NoVrfs
    <2> QED
      BY <1>1, <1>2, <1>5, <1>7, <2>1, Zenon DEF Outputs
  <1>11. starts <= 1 => s = <<>> /\ Total' = Total
    <2> SUFFICES ASSUME starts <= 1 PROVE s = <<>> /\ Total' = Total
      OBVIOUS
    <2>1. s = <<>> /\ Total <= 1
      BY <1>0, <1>1, <1>2, <1>4, SingleIs, Zenon DEF LoopInv, Single
    <2>2. pendingRnds = <<>> /\ computing = <<>>
      BY <1>0, <1>1, <1>2, <2>1, TotalIs, Zenon
    <2>3. Total = Len(pendingRnds) + Len(computing) + 1
      BY <1>0, <1>1, <1>2, TotalIs, Zenon
    <2>4. Total = 1
      BY <2>2, <2>3
    <2>5. Len(pendingRnds') = 1 /\ computing' = <<>>
      BY <1>1, <1>5, <1>7, <2>1, <2>2
    <2>6. Total' = 1
      BY <1>1, <2>5 DEF Total
    <2> QED
      BY <2>1, <2>4, <2>6
  <1>12. Single'
    <2>1. starts = 0 => FALSE
      BY <1>0, <1>1, <1>2, TotalIs DEF LoopInv, Single
    <2>2. starts <= 1 => loop.pc # "pop"
      <3> SUFFICES ASSUME starts <= 1, loop.pc = "pop" PROVE FALSE
        OBVIOUS
      <3>1. loop.popped = pendingRnds /\ loop.popped # <<>> /\ Total <= 1
        BY <1>2, SingleIs, Zenon DEF LoopInv, Single, LoopBlock
      <3> QED
        BY <1>0, <1>1, <1>2, <3>1, TotalIs, Zenon
    <2> QED
      BY <1>1, <1>11, <2>1, <2>2, Zenon DEF LoopInv, Single
  <1>13. starts' \in Nat /\ proposer' \in BlockRecord \cup {None} /\ announced' \in BlockRecord \cup {None}
    BY <1>1, Zenon DEF LoopInv, LoopShape
  <1> QED
    BY <1>1, <1>9, <1>10, <1>12, <1>13, RandomKeeps, Zenon

\* Propose: whoever thinks that it leads proposes the next block.
LEMMA ProposeKeeps == LoopInv /\ Propose => LoopInv'
  <1> SUFFICES ASSUME LoopInv, Propose PROVE LoopInv'
    OBVIOUS
  <1>1. /\ signals > 0 /\ head < MaxHeight /\ signals' = signals - 1
        /\ UNCHANGED <<committee, chain, Info, asked, loop, announced, Rnd, starts, Syncs, failures, gap>>
    BY Zenon DEF Propose, Life
  <1>2. UNCHANGED <<committee, chain, blockNum, mode, leader, parts, asked, failures, gap>> /\ UNCHANGED AgreedVars /\ head' = head
    BY <1>1, Zenon DEF Info, AgreedVars, head
  <1>3. signals' \in Nat
    <2>1. signals \in Nat
      BY Zenon DEF LoopInv, LoopShape
    <2> QED
      BY <1>1, <2>1
  <1>4. proposer' = None \/ (proposer' \in BlockRecord /\ Proposed(proposer'))
    <2> SUFFICES ASSUME proposer' # None PROVE proposer' \in BlockRecord /\ Proposed(proposer')
      OBVIOUS
    <2>1. IsLeader(leader) /\ leader \in ShardKeys /\ leader \in MyKeys /\ Leading
          /\ proposer' = [n |-> head + 1, by |-> leader, vrf |-> FALSE, vdf |-> None]
      BY Zenon DEF Propose, LoopInv, LoopShape, Agreed, IsLeader
    <2>2. head \in Nat
      <3>1. chain \in Seq(ChainRecord)
        BY Zenon DEF LoopInv, LoopShape
      <3> QED
        BY <3>1 DEF head
    <2>3. head + 1 \in Nat /\ head + 1 \in 1..MaxHeight /\ head + 1 <= head + 1
      BY <1>1, <2>2, LoopAssumption
    <2>4. PICK n, b : n = head + 1 /\ b = [n |-> n, by |-> leader, vrf |-> FALSE, vdf |-> None]
      OBVIOUS
    <2>5. b.n = n /\ b.by = leader /\ b.vrf = FALSE /\ b.vdf = None /\ b \in BlockRecord
      BY <2>1, <2>3, <2>4, Zenon DEF BlockRecord
    <2>6. failures = 0 => Leads(leader, n)
      BY <2>1, <2>4, Zenon DEF Leading
    <2>7. Proposed(b)
      BY <2>1, <2>3, <2>4, <2>5, <2>6, Zenon DEF Proposed
    <2> QED
      BY <2>1, <2>4, <2>5, <2>7, Zenon
  <1>5. \A b : Proposed(b) => Proposed(b)'
    BY <1>2, ProposedKept, Zenon
  <1>6. Proposals'
    BY <1>1, <1>4, <1>5, Zenon DEF LoopInv, Proposals
  <1>7. LoopShape'
    BY <1>1, <1>2, <1>3, <1>4, Zenon DEF LoopInv, LoopShape
  <1>8. LoopBlock' /\ Callers' /\ Agreed' /\ Single' /\ Outputs'
    BY <1>1, <1>2, LoopBlockKept, CallersKept, AgreedKept, RandomKept, Zenon DEF LoopInv
  <1> QED
    BY <1>6, <1>7, <1>8, Zenon DEF LoopInv

\* The steps around the loop: the bootstrap, the service and the callers.
LEMMA AroundKeeps ==
  LoopInv /\ (Bootstrap \/ StarterGoes \/ StopService \/ BlocksSynchronized \/ BlocksNotSynchronized) => LoopInv'
  <1> SUFFICES ASSUME LoopInv, Bootstrap \/ StarterGoes \/ StopService \/ BlocksSynchronized \/ BlocksNotSynchronized
      PROVE LoopInv'
    OBVIOUS
  <1>1. /\ UNCHANGED <<committee, chain, Info, asked, proposer, loop, announced, Rnd, starts, failures, gap>>
        /\ signals' = signals + 1 \/ signals' = signals
    BY Zenon DEF Bootstrap, StarterGoes, StopService, BlocksSynchronized, BlocksNotSynchronized, Life
  <1>2. signals' \in Nat
    <2>1. signals \in Nat
      BY Zenon DEF LoopInv, LoopShape
    <2> QED
      BY <1>1, <2>1
  <1>3. Callers'
    <2>1. Callers
      BY Zenon DEF LoopInv
    <2>2. CASE Bootstrap \/ StarterGoes \/ StopService
      BY <2>1, <2>2, CallersKept, Zenon DEF Bootstrap, StarterGoes, StopService
    <2>3. CASE BlocksSynchronized
      BY <2>1, <2>3, LoopAssumption DEF BlocksSynchronized, Callers
    <2>4. CASE BlocksNotSynchronized
      BY <2>1, <2>4, LoopAssumption DEF BlocksNotSynchronized, Callers
    <2> QED
      BY <2>2, <2>3, <2>4, Zenon
  <1> QED
    BY <1>1, <1>2, <1>3, LifeKeeps, Zenon

------------------------------------------------------------------------------
(* Blocks. *)

\* The block that the committee of its epoch puts on the chain.
Continues(b) ==
  /\ b \in BlockRecord /\ b.n = head + 1 /\ b.n <= MaxHeight
  /\ ~Empty(Epoch(b.n)) /\ b.by = First(Epoch(b.n))
  /\ b.vrf => NewLeader(b.n, b.by)
  /\ b.vdf # None => ~HasVdf(Epoch(b.n))
  /\ failures = 0 /\ b.by \in MyKeys /\ b.vdf # None => b.vdf = {}

Extend(b) == chain' = Append(chain, [by |-> b.by, vrf |-> b.vrf, vdf |-> b.vdf]) /\ UNCHANGED committee

\* The chain after the block b.
Longer(b) ==
  /\ chain' \in Seq(ChainRecord) /\ head' = head + 1 /\ head' = b.n /\ head \in Nat /\ head' <= MaxHeight
  /\ \A n \in 1..head : n \in 1..head' /\ chain'[n] = chain[n]
  /\ \A n \in 1..head' : n \in 1..head \/ n = b.n
  /\ b.n \in 1..head' /\ chain'[b.n].by = b.by /\ chain'[b.n].vrf = b.vrf /\ chain'[b.n].vdf = b.vdf
  /\ UNCHANGED committee

\* The blocks before stay where they are.
LEMMA Grown ==
  ASSUME LoopInv, NEW b, Continues(b), Extend(b)
  PROVE  Longer(b)
  <1>1. PICK r : r = [by |-> b.by, vrf |-> b.vrf, vdf |-> b.vdf]
    OBVIOUS
  <1>2. b.n = head + 1 /\ b.n <= MaxHeight /\ b.by \in ShardKeys /\ b.vrf \in BOOLEAN /\ b.vdf \in Seeds \cup {None}
    BY Zenon DEF Continues, BlockRecord
  <1>3. r.by = b.by /\ r.vrf = b.vrf /\ r.vdf = b.vdf /\ r \in ChainRecord
    BY <1>1, <1>2, Zenon DEF ChainRecord
  <1>4. chain \in Seq(ChainRecord) /\ chain' = Append(chain, r) /\ UNCHANGED committee
    BY <1>1, Zenon DEF LoopInv, LoopShape, Extend
  <1>5. /\ chain' \in Seq(ChainRecord) /\ Len(chain') = Len(chain) + 1 /\ Len(chain) \in Nat
        /\ \A n \in 1..Len(chain) : chain'[n] = chain[n]
        /\ chain'[Len(chain) + 1] = r
    BY <1>3, <1>4
  <1>6. PICK h, h2, n1 : h = head /\ h2 = head' /\ n1 = b.n
    OBVIOUS
  <1>7. h \in Nat /\ h2 = h + 1 /\ n1 = h + 1 /\ n1 <= MaxHeight /\ h = Len(chain)
    BY <1>2, <1>5, <1>6, Zenon DEF head
  <1>8. h2 <= MaxHeight /\ n1 \in 1..h2 /\ (\A n \in 1..h : n \in 1..h2) /\ (\A n \in 1..h2 : n \in 1..h \/ n = n1)
    BY <1>7
  <1>9. \A n \in 1..h : chain'[n] = chain[n]
    BY <1>5, <1>7, Zenon
  <1>10. chain'[n1] = r
    BY <1>5, <1>7, Zenon
  <1> QED
    BY <1>3, <1>4, <1>5, <1>6, <1>7, <1>8, <1>9, <1>10, Zenon DEF Longer

\* The new block has the only VDF of its epoch.
LEMMA OneVdfGrows ==
  ASSUME LoopInv, NEW b, Continues(b), Longer(b)
  PROVE  OneVdf'
  <1> SUFFICES ASSUME NEW m \in 1..head', NEW n \in 1..head', chain'[m].vdf # None, chain'[n].vdf # None, Epoch(m) = Epoch(n)
      PROVE m = n
    BY Zenon DEF OneVdf, Epoch
  <1>1. /\ m \in 1..head \/ m = b.n
        /\ n \in 1..head \/ n = b.n
    BY Zenon DEF Longer
  <1>2. CASE m \in 1..head /\ n \in 1..head
    BY <1>2, Zenon DEF LoopInv, Agreed, OneVdf, Longer
  <1>3. CASE m \in 1..head /\ n = b.n
    BY <1>3, Zenon DEF Longer, Continues, HasVdf
  <1>4. CASE m = b.n /\ n \in 1..head
    BY <1>4, Zenon DEF Longer, Continues, HasVdf
  <1> QED
    BY <1>1, <1>2, <1>3, <1>4, Zenon

\* Proposals of before keep what was said about them.
LEMMA ProposedGrows ==
  ASSUME LoopInv, NEW b, Longer(b), NEW x, Proposed(x), failures' = 0 => failures = 0
  PROVE  Proposed(x)'
  <1>1. PICK n, h : n = x.n /\ h = head
    OBVIOUS
  <1>2. n \in 1..MaxHeight /\ n <= h + 1 /\ h \in Nat /\ head' = h + 1 /\ MaxHeight \in Nat
    BY <1>1, LoopAssumption, Zenon DEF Longer, Proposed
  <1>3. n <= (h + 1) + 1 /\ n # (h + 1) + 1 /\ (n = 1 \/ n - 1 \in 1..h) /\ (n > 1 => n - 1 \in 1..h)
    BY <1>2
  <1>4. n - 1 \in 1..h => chain'[n - 1] = chain[n - 1]
    BY <1>1, Zenon DEF Longer
  <1>5. \A k : NewLeader(n, k) => NewLeader(n, k)'
    BY <1>3, <1>4, Zenon DEF NewLeader
  <1>6. \A k : Leads(k, n) => Leads(k, n)'
    BY <1>3, <1>4, Zenon DEF Leads, Empty, First, Epoch, Longer
  <1>7. x.n <= head' + 1 /\ x.n # head' + 1 /\ x.n \in 1..MaxHeight
    BY <1>1, <1>2, <1>3, Zenon
  <1> QED
    BY <1>1, <1>5, <1>6, <1>7, Zenon DEF Proposed

\* The blocks of before, and the new one, are those of their committees.
LEMMA BlocksGrow ==
  ASSUME LoopInv, NEW b, Continues(b), Longer(b), failures' = 0 => failures = 0,
         \A n \in 1..head : n >= blockNum' => n >= blockNum,
         b.n >= blockNum' => b.by \notin MyKeys
  PROVE  BlocksMade'
  <1> SUFFICES ASSUME NEW n \in 1..head' PROVE Made(n)'
    BY Zenon DEF BlocksMade
  <1>1. n \in 1..head \/ n = b.n
    BY Zenon DEF Longer
  <1>2. n = 1 \/ n - 1 \in 1..head
    <2>1. PICK h : h = head /\ h \in Nat /\ n \in 1..(h + 1)
      BY Zenon DEF Longer
    <2>2. n = 1 \/ n - 1 \in 1..h
      BY <2>1
    <2> QED
      BY <2>1, <2>2, Zenon
  <1>3. \A k : NewLeader(n, k) => NewLeader(n, k)'
    BY <1>2, Zenon DEF NewLeader, Longer
  <1>4. Empty(Epoch(n))' = Empty(Epoch(n)) /\ First(Epoch(n))' = First(Epoch(n))
    BY Zenon DEF Empty, First, Epoch, Longer
  <1>5. CASE n \in 1..head
    <2>1. Made(n) /\ chain'[n] = chain[n] /\ (n >= blockNum' => n >= blockNum)
      BY <1>5, Zenon DEF LoopInv, Agreed, BlocksMade, Longer
    <2> QED
      BY <1>3, <1>4, <2>1, Zenon DEF Made
  <1>6. CASE n = b.n
    <2>1. chain'[n].by = b.by /\ chain'[n].vrf = b.vrf /\ chain'[n].vdf = b.vdf
      BY <1>6, Zenon DEF Longer
    <2> QED
      BY <1>3, <1>4, <1>6, <2>1, Zenon DEF Made, Continues
  <1> QED
    BY <1>1, <1>5, <1>6, Zenon

\* What was asked for twice stays so.
LEMMA AskedGrows ==
  ASSUME LoopInv, NEW n \in 1..(MaxHeight + 1), asked[n] > 1
  PROVE  n - 1 \in 1..head /\ n <= blockNum
  <1>1. asked[n] # 0 /\ n <= blockNum /\ n # 1
    <2>1. asked[1] = 0 /\ (n > blockNum => asked[n] = 0) /\ asked[n] \in Nat /\ blockNum \in 1..(head + 1) /\ chain \in Seq(ChainRecord)
      BY Zenon DEF LoopInv, Agreed, Asking, LoopShape
    <2>2. asked[n] # 0
      BY <2>1
    <2>3. ~(n > blockNum) /\ n # 1
      BY <2>1, <2>2, Zenon
    <2>4. head \in Nat /\ MaxHeight \in Nat
      BY <2>1, LoopAssumption DEF head
    <2> QED
      BY <2>1, <2>2, <2>3, <2>4
  <1>2. blockNum \in 1..(head + 1) /\ head \in Nat /\ MaxHeight \in Nat
    BY LoopAssumption DEF LoopInv, LoopShape, head
  <1> QED
    BY <1>1, <1>2

\* A step of consensus or of the synchronization leaves the loop and its outputs alone.
LEMMA ConsensusKeeps ==
  ASSUME LoopInv, UNCHANGED <<proposer, loop, Rnd, starts>>, failures' = 0 => failures = 0,
         announced' = announced \/ announced' = None, \A x : Proposed(x) => Proposed(x)',
         Callers', LoopShape', Agreed'
  PROVE  LoopInv'
  <1>1. UNCHANGED <<vdfInProgress, computing, pendingRnds, adding>> /\ Total' = Total
    BY Zenon DEF Rnd, Total
  <1>2. LoopBlock'
    BY LoopBlockKept, Zenon DEF LoopInv
  <1>3. Proposals'
    BY Zenon DEF LoopInv, Proposals
  <1>4. Single'
    BY <1>1, Zenon DEF LoopInv, Single
  <1>5. Outputs'
    BY <1>1, Zenon DEF LoopInv, Outputs, NoVrfs
  <1> QED
    BY <1>2, <1>3, <1>4, <1>5, Zenon DEF LoopInv

\* What UpdateConsensusInformation makes of the committee of the epoch e.
Updated(u, old, ok, e) ==
  /\ u.mode \in {"Normal", "Syncing", "Listening"} /\ u.leader \in ShardKeys /\ u.parts \in Seq(ShardKeys)
  /\ u.mode = "Normal" => ~Empty(e) /\ u.parts = committee[e] /\ u.leader = First(e)
  /\ u.leader = old \/ (~Empty(e) /\ u.leader = First(e))
  /\ ok /\ ~Empty(e) => u.leader = First(e)
  /\ u.ask <=> u.mode = "Normal" /\ Becomes(old, u.leader)

\* It is the epoch of the next height.
LEMMA UpdateIs ==
  ASSUME LoopInv, NEW hd \in 1..MaxHeight, NEW old \in ShardKeys, NEW ok \in BOOLEAN
  PROVE  Updated(UpdateConsensusInformation(hd, old, ok), old, ok, Epoch(hd + 1))
  <1>1. hd \in Nat /\ hd + 1 \in Nat /\ hd > 0 /\ hd + 1 <= MaxHeight + 1 /\ MaxHeight + 1 \in Nat
    BY LoopAssumption
  <1>2. PICK e : e = Epoch(hd + 1)
    OBVIOUS
  <1>3. EpochToSet(hd) = e
    BY <1>1, <1>2, NextEpoch, Zenon DEF EpochToSet
  <1>4. e \in 0..Epoch(MaxHeight + 1)
    <2>1. e \in Nat /\ Epoch(MaxHeight + 1) \in Nat /\ e <= Epoch(MaxHeight + 1)
      BY <1>1, <1>2, EpochsGrow
    <2> QED
      BY <2>1
  <1>5. PICK keys : keys = committee[e]
    OBVIOUS
  <1>6. keys \in Seq(ShardKeys) \cup {None} /\ parts \in Seq(ShardKeys)
    BY <1>4, <1>5, LoopAssumption, Zenon DEF LoopInv, LoopShape
  <1>7. Empty(e) <=> keys = None \/ keys = <<>>
    BY <1>5, Zenon DEF Empty
  <1>8. First(e) = keys[1]
    BY <1>5, Zenon DEF First
  <1>9. PICK u : u = UpdateConsensusInformation(hd, old, ok)
    OBVIOUS
  <1>10. CASE ~ok \/ keys = None
    <2>1. u = [mode |-> "Syncing", leader |-> old, parts |-> parts, ask |-> FALSE]
      BY <1>3, <1>5, <1>9, <1>10, Zenon DEF UpdateConsensusInformation
    <2>2. u.mode = "Syncing" /\ u.leader = old /\ u.parts = parts /\ u.ask = FALSE
      BY <2>1, Zenon
    <2>3. ok => Empty(e)
      BY <1>7, <1>10, Zenon
    <2> QED
      BY <1>2, <1>6, <1>9, <2>2, <2>3, Zenon DEF Updated
  <1>11. CASE ok /\ keys # None
    <2>1. PICK new : new = FirstKey(keys, old)
      OBVIOUS
    <2>2. keys \in Seq(ShardKeys)
      BY <1>6, <1>11, Zenon
    <2>3. (keys = <<>> => new = old) /\ (keys # <<>> => new = keys[1]) /\ new \in ShardKeys
      <3>1. keys # <<>> => keys[1] \in ShardKeys
        BY <2>2
      <3> QED
        BY <2>1, <3>1, Zenon DEF FirstKey
    <2>4. CASE \E i \in 1..Len(keys) : keys[i] \in MyKeys
      <3>1. u.mode = "Normal" /\ u.leader = new /\ u.parts = keys /\ (u.ask <=> Becomes(old, new))
        BY <1>3, <1>5, <1>9, <1>11, <2>1, <2>4, Zenon DEF UpdateConsensusInformation
      <3>2. keys # <<>>
        BY <2>2, <2>4
      <3> QED
        BY <1>2, <1>5, <1>7, <1>8, <1>9, <1>11, <2>2, <2>3, <3>1, <3>2, Zenon DEF Updated
    <2>5. CASE ~(\E i \in 1..Len(keys) : keys[i] \in MyKeys)
      <3>1. u.mode = "Listening" /\ u.leader = new /\ u.parts = keys /\ ~u.ask
        BY <1>3, <1>5, <1>9, <1>11, <2>1, <2>5, Zenon DEF UpdateConsensusInformation
      <3> QED
        BY <1>2, <1>5, <1>7, <1>8, <1>9, <1>11, <2>2, <2>3, <3>1, Zenon DEF Updated
    <2> QED
      BY <2>4, <2>5, Zenon
  <1> QED
    BY <1>10, <1>11, Zenon

\* Failures are not forgotten.
LEMMA FailuresGrow ==
  ASSUME failures \in Nat, NEW ok \in BOOLEAN, ReadFails(ok)
  PROVE  failures' \in Nat /\ (failures' = 0 => failures = 0 /\ ok)
  <1>1. CASE ok
    BY <1>1, Zenon DEF ReadFails
  <1>2. CASE ~ok
    <2>1. failures' = failures + 1
      BY <1>2, Zenon DEF ReadFails
    <2> QED
      BY <2>1
  <1> QED
    BY <1>1, <1>2, Zenon

\* The signals for the height hd + 1, and no other.
LEMMA AskIs ==
  ASSUME LoopInv, NEW hd \in 1..MaxHeight, NEW a \in Nat, Ask(a, hd)
  PROVE  /\ signals' \in Nat /\ asked' \in [1..(MaxHeight + 1) -> Nat]
         /\ hd + 1 \in 1..(MaxHeight + 1) /\ hd + 1 # 1 /\ 1 \in 1..(MaxHeight + 1)
         /\ asked'[hd + 1] = asked[hd + 1] + a
         /\ \A n \in 1..(MaxHeight + 1) : n # hd + 1 => asked'[n] = asked[n]
  <1>1. signals \in Nat /\ asked \in [1..(MaxHeight + 1) -> Nat] /\ MaxHeight \in Nat
    BY LoopAssumption, Zenon DEF LoopInv, LoopShape
  <1>2. signals' = signals + a /\ asked' = [asked EXCEPT ![hd + 1] = @ + a]
    BY Zenon DEF Ask
  <1>3. hd + 1 \in 1..(MaxHeight + 1) /\ hd + 1 # 1 /\ 1 \in 1..(MaxHeight + 1) /\ signals' \in Nat
    BY <1>1, <1>2
  <1> QED
    BY <1>1, <1>2, <1>3

\* SyncNotReady: the node waits for the synchronization, at the next height.
LEMMA SyncNotReadyKeeps == LoopInv /\ SyncNotReady => LoopInv'
  <1> SUFFICES ASSUME LoopInv, SyncNotReady PROVE LoopInv'
    OBVIOUS
  <1>1. /\ notReady > 0 /\ notReady' = notReady - 1 /\ blockNum' = head + 1 /\ mode' = "Syncing"
        /\ UNCHANGED <<committee, chain, leader, parts, asked, signals, proposer, loop, announced, Rnd,
                       starts, ready, syncs, failures, gap>> /\ head' = head
    BY Zenon DEF SyncNotReady, Life, head
  <1>2. chain \in Seq(ChainRecord) /\ blockNum \in 1..(head + 1)
    BY Zenon DEF LoopInv, LoopShape
  <1>3. head \in Nat /\ MaxHeight \in Nat
    BY <1>2, LoopAssumption DEF head
  <1>4. /\ head + 1 \in 1..(head + 1) /\ ~(head + 1 < head + 1)
        /\ \A n \in 1..head : ~(n >= head + 1)
        /\ \A n \in 1..(MaxHeight + 1) : n > head + 1 => n > blockNum
    BY <1>2, <1>3
  <1>5. Callers'
    <2>1. Callers
      BY Zenon DEF LoopInv
    <2> QED
      BY <1>1, <2>1 DEF Callers
  <1>6. LoopShape'
    BY <1>1, <1>4, Zenon DEF LoopInv, LoopShape
  <1>7. \A x : Proposed(x) => Proposed(x)'
    BY <1>1, ProposedKept, Zenon
  <1>8. BlocksMade'
    BY <1>1, <1>4, Zenon DEF LoopInv, Agreed, BlocksMade, Made, NewLeader, Empty, First
  <1>9. Leading'
    BY <1>1, <1>4, Zenon DEF LoopInv, Agreed, Leading, Leads, Behind, Empty, First, IsLeader
  <1>10. Asking'
    BY <1>1, <1>4, Zenon DEF LoopInv, Agreed, Asking
  <1>11. CommitteeCurrent' /\ LeaderIsAsked' /\ OneVdf'
    BY <1>1, Zenon DEF LoopInv, Agreed, CommitteeCurrent, LeaderIsAsked, OneVdf
  <1>12. AskedOnce'
    BY <1>1, Zenon DEF LoopInv, Agreed, AskedOnce, IsLeader
  <1>13. Agreed'
    BY <1>8, <1>9, <1>10, <1>11, <1>12, Zenon DEF Agreed
  <1> QED
    BY <1>1, <1>5, <1>6, <1>7, <1>13, ConsensusKeeps, Zenon

\* The next block of another leader is one that its committee puts on the chain.
LEMMA OthersContinue ==
  ASSUME LoopInv, NEW b \in Others
  PROVE  Continues(b) /\ b.by \notin MyKeys
  <1>1. PICK n, k, e : n = head + 1 /\ k = committee[Epoch(n)] /\ e = Epoch(n)
    OBVIOUS
  <1>2. ~(n > MaxHeight \/ k = None \/ k = <<>> \/ k[1] \in MyKeys)
    BY <1>1, Zenon DEF Others
  <1>3. PICK v \in {None} \cup (IF VdfSeedSize <= Cardinality(VrfNums(e)) /\ ~HasVdf(e) THEN {Seed(VrfNums(e))} ELSE {}) :
          b = [n |-> n, by |-> k[1], vrf |-> n = 1 \/ chain[n - 1].by # k[1], vdf |-> v]
    BY <1>1, <1>2, Zenon DEF Others
  <1>4. v = None \/ (v = Seed(VrfNums(e)) /\ ~HasVdf(e))
    <2>1. CASE VdfSeedSize <= Cardinality(VrfNums(e)) /\ ~HasVdf(e)
      BY <1>3, <2>1, Zenon
    <2>2. CASE ~(VdfSeedSize <= Cardinality(VrfNums(e)) /\ ~HasVdf(e))
      BY <1>3, <2>2, Zenon
    <2> QED
      BY <2>1, <2>2, Zenon
  <1>5. v \in Seeds \cup {None}
    BY <1>4, SeedIs, Zenon
  <1>6. chain \in Seq(ChainRecord) /\ committee \in [0..Epoch(MaxHeight + 1) -> Committees]
    BY Zenon DEF LoopInv, LoopShape
  <1>7. head \in Nat /\ MaxHeight \in Nat
    BY <1>6, LoopAssumption DEF head
  <1>8. n \in Nat /\ n <= MaxHeight /\ n <= MaxHeight + 1 /\ MaxHeight + 1 \in Nat
    BY <1>1, <1>2, <1>7
  <1>9. e \in 0..Epoch(MaxHeight + 1)
    <2>1. e \in Nat /\ Epoch(MaxHeight + 1) \in Nat /\ e <= Epoch(MaxHeight + 1)
      BY <1>1, <1>8, EpochsGrow
    <2> QED
      BY <2>1
  <1>10. k \in Seq(ShardKeys) /\ k # <<>>
    BY <1>1, <1>2, <1>6, <1>9, LoopAssumption, Zenon
  <1>11. k[1] \in ShardKeys
    BY <1>10
  <1>12. PICK w : w = (n = 1 \/ chain[n - 1].by # k[1]) /\ w \in BOOLEAN
    OBVIOUS
  <1>13. b = [n |-> n, by |-> k[1], vrf |-> w, vdf |-> v]
    BY <1>3, <1>12, Zenon
  <1>14. b.n = n /\ b.by = k[1] /\ b.vrf = w /\ b.vdf = v /\ b \in BlockRecord
    BY <1>5, <1>8, <1>11, <1>12, <1>13, Zenon DEF BlockRecord
  <1>15. w => NewLeader(n, k[1])
    BY <1>12, Zenon DEF NewLeader
  <1>16. ~Empty(Epoch(n)) /\ k[1] = First(Epoch(n))
    BY <1>1, <1>2, Zenon DEF Empty, First
  <1> QED
    BY <1>1, <1>2, <1>4, <1>8, <1>14, <1>15, <1>16, Zenon DEF Continues

\* SyncInsert: a block comes from the synchronization.
LEMMA SyncInsertKeeps == LoopInv /\ SyncInsert => LoopInv'
  <1> SUFFICES ASSUME LoopInv, SyncInsert PROVE LoopInv'
    OBVIOUS
  <1>1. /\ gap' = TRUE
        /\ UNCHANGED <<committee, blockNum, mode, leader, parts, asked, signals, proposer, loop, announced, Rnd,
                       starts, Syncs, failures>>
    BY Zenon DEF SyncInsert, Info, Life
  <1>2. PICK b \in Others : Extend(b)
    BY <1>1, Zenon DEF SyncInsert, Extend
  <1>3. Continues(b) /\ b.by \notin MyKeys /\ Longer(b)
    BY <1>2, OthersContinue, Grown, Zenon
  <1>4. \A x : Proposed(x) => Proposed(x)'
    BY <1>1, <1>3, ProposedGrows, Zenon
  <1>5. BlocksMade' /\ OneVdf'
    BY <1>1, <1>3, BlocksGrow, OneVdfGrows, Zenon
  <1>6. blockNum \in 1..(head + 1) /\ head \in Nat /\ head' = head + 1 /\ b.n = head + 1
    BY <1>3, Zenon DEF LoopInv, LoopShape, Longer, Continues
  <1>7. blockNum' \in 1..(head' + 1) /\ blockNum' < head' + 1 /\ blockNum' # head' + 1
    <2>1. PICK h, h2, n : h = head /\ h2 = head' /\ n = blockNum
      OBVIOUS
    <2>2. n \in 1..(h + 1) /\ h \in Nat /\ h2 = h + 1
      BY <1>6, <2>1, Zenon
    <2>3. n \in 1..(h2 + 1) /\ n < h2 + 1 /\ n # h2 + 1
      BY <2>2
    <2> QED
      BY <1>1, <2>1, <2>3, Zenon
  <1>8. LoopShape'
    BY <1>1, <1>3, <1>7, Zenon DEF LoopInv, LoopShape, Longer
  <1>9. Leading'
    <2> SUFFICES ASSUME failures' = 0, IsLeader(leader)' PROVE FALSE
      BY Zenon DEF Leading
    <2>1. failures = 0 /\ IsLeader(leader)
      BY <1>1, Zenon DEF IsLeader
    <2>2. Leads(leader, b.n)
      BY <1>6, <2>1, Zenon DEF LoopInv, Agreed, Leading
    <2> QED
      BY <1>3, <2>1, <2>2, Zenon DEF Leads, Continues, IsLeader
  <1>10. Asking'
    BY <1>1, Zenon DEF LoopInv, Agreed, Asking
  <1>11. CommitteeCurrent' /\ LeaderIsAsked'
    BY <1>7, Zenon DEF CommitteeCurrent, LeaderIsAsked
  <1>12. AskedOnce'
    <2> SUFFICES ASSUME NEW n \in DOMAIN asked', asked'[n] > 1
        PROVE /\ asked'[n] = 2 /\ IsLeader(chain'[n - 1].by)
              /\ committee'[Epoch(n)][1] \in MyKeys \ {chain'[n - 1].by}
      BY Zenon DEF AskedOnce, IsLeader, Epoch
    <2>1. n \in 1..(MaxHeight + 1) /\ asked[n] > 1 /\ n \in DOMAIN asked
      BY <1>1, Zenon DEF LoopInv, LoopShape
    <2>2. chain'[n - 1] = chain[n - 1]
      BY <1>3, <2>1, AskedGrows, Zenon DEF Longer
    <2> QED
      BY <1>1, <2>1, <2>2, Zenon DEF LoopInv, Agreed, AskedOnce
  <1>13. Callers'
    BY <1>1, CallersKept, Zenon DEF LoopInv
  <1>14. Agreed'
    BY <1>5, <1>9, <1>10, <1>11, <1>12, Zenon DEF Agreed
  <1> QED
    BY <1>1, <1>4, <1>8, <1>13, <1>14, ConsensusKeeps, Zenon

\* SyncReady: the node takes the committee of the height that the chain is at.
LEMMA SyncReadyKeeps == LoopInv /\ SyncReady => LoopInv'
  <1> SUFFICES ASSUME LoopInv, SyncReady PROVE LoopInv'
    OBVIOUS
  <1>1. /\ ready > 0 /\ ready' = ready - 1
        /\ UNCHANGED <<committee, chain, proposer, loop, Rnd, starts, notReady, syncs>> /\ head' = head
    BY Zenon DEF SyncReady, Life, head
  <1>2. Callers'
    <2>1. Callers
      BY Zenon DEF LoopInv
    <2> QED
      BY <1>1, <2>1 DEF Callers
  <1>3. CASE ~Behind
    <2>1. UNCHANGED <<Info, asked, signals, announced, failures, gap>>
      BY <1>3, Zenon DEF SyncReady
    <2>2. signals' \in Nat
      BY <2>1, Zenon DEF LoopInv, LoopShape
    <2> QED
      BY <1>1, <1>2, <2>1, <2>2, LifeKeeps, Zenon
  <1>4. CASE Behind
    <2>1. PICK ok \in BOOLEAN :
            LET u == UpdateConsensusInformation(head, leader, ok)
            IN  /\ ReadFails(ok)
                /\ blockNum' = head + 1
                /\ mode' = u.mode /\ leader' = u.leader /\ parts' = u.parts
                /\ Ask(IF u.ask THEN 1 ELSE 0, head)
                /\ announced' = IF u.mode = "Syncing" THEN announced ELSE None
                /\ gap' = (gap /\ u.leader = leader)
      BY <1>4, Zenon DEF SyncReady
    <2>2. PICK u : u = UpdateConsensusInformation(head, leader, ok)
      OBVIOUS
    <2>3. PICK a : a = IF u.ask THEN 1 ELSE 0
      OBVIOUS
    <2>4. /\ ReadFails(ok) /\ blockNum' = head + 1
          /\ mode' = u.mode /\ leader' = u.leader /\ parts' = u.parts /\ Ask(a, head)
          /\ announced' = announced \/ announced' = None
      BY <2>1, <2>2, <2>3, Zenon
    <2>5. gap' = (gap /\ u.leader = leader)
      BY <2>1, <2>2, Zenon
    <2>6. a \in Nat /\ (u.ask => a = 1) /\ a <= 1
      BY <2>3
    <2>7. /\ chain \in Seq(ChainRecord) /\ head <= MaxHeight /\ blockNum \in 1..(head + 1) /\ leader \in ShardKeys
          /\ failures \in Nat /\ gap \in BOOLEAN /\ blockNum < head + 1
      BY <1>4, Zenon DEF LoopInv, LoopShape, Behind
    <2>8. head \in Nat /\ MaxHeight \in Nat
      BY <2>7, LoopAssumption DEF head
    <2>9. /\ head \in 1..MaxHeight /\ head + 1 \in 1..(head + 1) /\ ~(head + 1 < head + 1)
          /\ head + 1 \in 1..(MaxHeight + 1) /\ blockNum # head + 1 /\ head + 1 > blockNum
          /\ \A n \in 1..head : ~(n >= head + 1)
          /\ \A n \in 1..(MaxHeight + 1) : n > head + 1 => n > blockNum /\ n # head + 1
      BY <2>7, <2>8
    <2>10. Updated(u, leader, ok, Epoch(head + 1))
      BY <2>2, <2>7, <2>9, UpdateIs, Zenon
    <2>11. failures' \in Nat /\ (failures' = 0 => failures = 0 /\ ok)
      BY <2>4, <2>7, FailuresGrow, Zenon
    <2>12. /\ signals' \in Nat /\ asked' \in [1..(MaxHeight + 1) -> Nat]
           /\ head + 1 # 1 /\ 1 \in 1..(MaxHeight + 1)
           /\ asked'[head + 1] = asked[head + 1] + a
           /\ \A n \in 1..(MaxHeight + 1) : n # head + 1 => asked'[n] = asked[n]
      BY <2>4, <2>6, <2>9, AskIs, Zenon
    <2>13. asked'[head + 1] = a
      <3>1. asked[head + 1] = 0
        BY <2>9, Zenon DEF LoopInv, Agreed, Asking
      <3> QED
        BY <2>6, <2>12, <3>1
    <2>14. gap
      BY <2>9, Zenon DEF LoopInv, Agreed, Asking
    <2>15. ~gap' => u.leader # leader
      BY <2>5, <2>14, Zenon
    <2>16. gap' \in BOOLEAN
      <3>1. CASE u.leader = leader
        BY <2>5, <2>14, <3>1
      <3>2. CASE u.leader # leader
        BY <2>5, <2>14, <3>2
      <3> QED
        BY <3>1, <3>2, Zenon
    <2>17. LoopShape'
      <3>1. mode' \in {"Normal", "Syncing", "Listening"} /\ leader' \in ShardKeys /\ parts' \in Seq(ShardKeys)
        BY <2>4, <2>10, Zenon DEF Updated
      <3>2. announced' \in BlockRecord \cup {None}
        BY <2>4, Zenon DEF LoopInv, LoopShape
      <3> QED
        BY <1>1, <2>4, <2>9, <2>11, <2>12, <2>16, <3>1, <3>2, Zenon DEF LoopInv, LoopShape
    <2>18. \A x : Proposed(x) => Proposed(x)'
      BY <1>1, <2>11, Zenon DEF Proposed, NewLeader, HasVdf, Leads, Empty, First
    <2>19. BlocksMade'
      BY <1>1, <2>4, <2>9, <2>11, Zenon DEF LoopInv, Agreed, BlocksMade, Made, NewLeader, Empty, First
    <2>20. Leading'
      <3>1. ~Behind'
        BY <1>1, <2>4, <2>9, Zenon DEF Behind
      <3> SUFFICES ASSUME failures' = 0, leader' \in MyKeys PROVE Leads(leader', head + 1)
        BY <1>1, <3>1, Zenon DEF Leading, Leads, Empty, First, IsLeader
      <3>2. leader \notin MyKeys
        BY <1>4, <2>11, Zenon DEF LoopInv, Agreed, Leading, IsLeader
      <3>3. ~Empty(Epoch(head + 1)) /\ leader' = First(Epoch(head + 1))
        BY <2>4, <2>10, <3>2, Zenon DEF Updated
      <3> QED
        BY <3>3, Zenon DEF Leads
    <2>21. Asking'
      BY <1>1, <2>4, <2>9, <2>12, Zenon DEF LoopInv, Agreed, Asking
    <2>22. CommitteeCurrent'
      BY <1>1, <2>4, <2>10, Zenon DEF CommitteeCurrent, Updated, First
    <2>23. LeaderIsAsked'
      <3> SUFFICES ASSUME mode' = "Normal", leader' \in MyKeys, ~gap' PROVE asked'[head + 1] >= 1
        BY <1>1, Zenon DEF LeaderIsAsked, IsLeader
      <3>1. u.ask
        BY <2>4, <2>10, <2>15, Zenon DEF Updated, Becomes, IsLeader
      <3> QED
        BY <2>6, <2>13, <3>1
    <2>24. AskedOnce'
      <3> SUFFICES ASSUME NEW n \in DOMAIN asked', asked'[n] > 1
          PROVE /\ asked'[n] = 2 /\ IsLeader(chain'[n - 1].by)
                /\ committee'[Epoch(n)][1] \in MyKeys \ {chain'[n - 1].by}
        BY Zenon DEF AskedOnce, IsLeader, Epoch
      <3>1. n # head + 1
        BY <2>6, <2>13
      <3>2. n \in 1..(MaxHeight + 1) /\ asked'[n] = asked[n] /\ n \in DOMAIN asked
        BY <2>12, <3>1, Zenon DEF LoopInv, LoopShape
      <3> QED
        BY <1>1, <3>2, Zenon DEF LoopInv, Agreed, AskedOnce
    <2>25. OneVdf'
      BY <1>1, Zenon DEF LoopInv, Agreed, OneVdf
    <2>26. Agreed'
      BY <2>19, <2>20, <2>21, <2>22, <2>23, <2>24, <2>25, Zenon DEF Agreed
    <2> QED
      BY <1>1, <1>2, <2>4, <2>11, <2>17, <2>18, <2>26, ConsensusKeeps, Zenon
  <1> QED
    BY <1>3, <1>4, Zenon

\* What the commit of the block b makes of the state: the update of the committee after the last
\* block of an epoch, and the signals for the next height.
Setup(b, u, a) ==
  /\ blockNum' = b.n + 1 /\ mode' = u.mode /\ leader' = u.leader /\ parts' = u.parts
  /\ u.mode \in {"Normal", "Syncing", "Listening"} /\ u.leader \in ShardKeys /\ u.parts \in Seq(ShardKeys)
  /\ u.mode = "Normal" => ~Empty(Epoch(b.n + 1)) /\ u.parts = committee[Epoch(b.n + 1)] /\ u.leader = First(Epoch(b.n + 1))
  /\ failures' = 0 => u.leader = IF Empty(Epoch(b.n + 1)) THEN b.by ELSE First(Epoch(b.n + 1))
  /\ a \in Nat /\ a <= 2 /\ Ask(a, b.n)
  /\ a > 1 => b.by \in MyKeys /\ ~Empty(Epoch(b.n + 1)) /\ First(Epoch(b.n + 1)) \in MyKeys \ {b.by}
  /\ u.mode = "Normal" /\ u.leader \in MyKeys => a >= 1

\* SetupForNewConsensus does just that.
LEMMA SetupIs ==
  ASSUME LoopInv, NEW b, Continues(b), blockNum = head + 1, NEW mine \in BOOLEAN, mine <=> b.by \in MyKeys,
         NEW ok \in BOOLEAN, failures' = 0 => ok, SetupForNewConsensus(b, mine, ok)
  PROVE  \E u, a : Setup(b, u, a)
  <1>1. PICK n, e : n = b.n /\ e = Epoch(n + 1)
    OBVIOUS
  <1>2. chain \in Seq(ChainRecord) /\ b.n = head + 1 /\ b.n <= MaxHeight /\ b.by \in ShardKeys
    BY Zenon DEF LoopInv, LoopShape, Continues, BlockRecord
  <1>3. head \in Nat /\ MaxHeight \in Nat
    BY <1>2, LoopAssumption DEF head
  <1>4. n \in 1..MaxHeight /\ n \in Nat /\ n > 0 /\ n = head + 1
    BY <1>1, <1>2, <1>3
  <1>5. PICK u : u = IF IsLast(b.n) THEN UpdateConsensusInformation(b.n, b.by, ok)
                     ELSE [mode |-> mode, leader |-> b.by, parts |-> parts, ask |-> FALSE]
    OBVIOUS
  <1>6. PICK own : own = (mine /\ (IsLast(b.n) => IsLeader(u.leader)))
    OBVIOUS
  <1>7. PICK a : a = (IF u.ask THEN 1 ELSE 0) + (IF own THEN 1 ELSE 0)
    OBVIOUS
  <1>8. blockNum' = b.n + 1 /\ mode' = u.mode /\ leader' = u.leader /\ parts' = u.parts /\ Ask(a, b.n)
    BY <1>5, <1>6, <1>7, Zenon DEF SetupForNewConsensus
  <1>9. /\ a \in Nat /\ a <= 2 /\ (u.ask => a >= 1) /\ (own => a >= 1) /\ (a > 1 => u.ask /\ own)
    BY <1>7
  <1>10. CASE IsLast(n)
    <2>1. Updated(u, b.by, ok, e)
      BY <1>1, <1>2, <1>4, <1>5, <1>10, UpdateIs, Zenon
    <2>2. own <=> mine /\ IsLeader(u.leader)
      BY <1>1, <1>6, <1>10, Zenon
    <2>3. a > 1 => b.by \in MyKeys /\ ~Empty(e) /\ First(e) \in MyKeys \ {b.by}
      BY <1>9, <2>1, <2>2, Zenon DEF Updated, Becomes, IsLeader
    <2>4. u.mode = "Normal" /\ u.leader \in MyKeys => a >= 1
      BY <1>9, <2>1, <2>2, Zenon DEF Updated, Becomes, IsLeader
    <2>5. failures' = 0 => u.leader = IF Empty(e) THEN b.by ELSE First(e)
      BY <2>1, Zenon DEF Updated
    <2> QED
      BY <1>1, <1>8, <1>9, <2>1, <2>3, <2>4, <2>5, Zenon DEF Setup, Updated
  <1>11. CASE ~IsLast(n)
    <2>1. u.mode = mode /\ u.leader = b.by /\ u.parts = parts /\ u.ask = FALSE
      BY <1>1, <1>5, <1>11, Zenon
    <2>2. own <=> mine
      BY <1>1, <1>6, <1>11, Zenon
    <2>3. e = Epoch(n) /\ ~Empty(e) /\ b.by = First(e)
      BY <1>1, <1>4, <1>11, NextEpoch, Zenon DEF Continues
    <2>4. ~(a > 1)
      BY <1>9, <2>1, Zenon
    <2>5. u.mode = "Normal" /\ u.leader \in MyKeys => a >= 1
      BY <1>9, <2>1, <2>2, Zenon
    <2>6. mode = "Normal" => parts = committee[e]
      BY <1>1, <1>4, <2>3, Zenon DEF LoopInv, Agreed, CommitteeCurrent
    <2>7. mode \in {"Normal", "Syncing", "Listening"} /\ parts \in Seq(ShardKeys)
      BY Zenon DEF LoopInv, LoopShape
    <2> QED
      BY <1>1, <1>2, <1>8, <1>9, <2>1, <2>3, <2>4, <2>5, <2>6, <2>7, Zenon DEF Setup
  <1> QED
    BY <1>10, <1>11, Zenon

\* A commit of a block that its committee wants, at the height the node is at.
LEMMA CommitKeeps ==
  ASSUME LoopInv, NEW b, Continues(b), Extend(b), blockNum = head + 1, NEW mine \in BOOLEAN, mine <=> b.by \in MyKeys,
         NEW ok \in BOOLEAN, ReadFails(ok), SetupForNewConsensus(b, mine, ok),
         announced' = None, gap' = FALSE, UNCHANGED <<committee, proposer, loop, Rnd, Life, Syncs>>
  PROVE  LoopInv'
  <1>1. UNCHANGED <<committee, proposer, loop, Rnd, starts, Syncs>>
    BY Zenon DEF Life
  <1>2. Longer(b)
    BY Grown, Zenon
  <1>3. failures' \in Nat /\ (failures' = 0 => failures = 0 /\ ok)
    <2>1. failures \in Nat
      BY Zenon DEF LoopInv, LoopShape
    <2> QED
      BY <2>1, FailuresGrow, Zenon
  <1>4. PICK u, a : Setup(b, u, a)
    BY <1>3, SetupIs, Zenon
  <1>5. PICK n, e : n = b.n /\ e = Epoch(n + 1)
    OBVIOUS
  <1>6. head \in Nat /\ MaxHeight \in Nat /\ n = head + 1 /\ head' = n /\ n <= MaxHeight /\ blockNum' = n + 1 /\ blockNum = n
    BY <1>2, <1>4, <1>5, LoopAssumption, Zenon DEF Longer, Continues, Setup
  <1>7. /\ n \in 1..MaxHeight /\ n + 1 \in 1..(n + 1) /\ ~(n + 1 < n + 1) /\ n + 1 > n /\ ~(n >= n + 1)
        /\ (n + 1) - 1 = n /\ n + 1 > 1
        /\ \A m \in 1..head : ~(m >= n + 1)
        /\ \A m \in 1..(MaxHeight + 1) : m > n + 1 => m > n /\ m # n + 1
    BY <1>6
  <1>8. /\ signals' \in Nat /\ asked' \in [1..(MaxHeight + 1) -> Nat]
        /\ n + 1 \in 1..(MaxHeight + 1) /\ n + 1 # 1 /\ 1 \in 1..(MaxHeight + 1)
        /\ asked'[n + 1] = asked[n + 1] + a
        /\ \A m \in 1..(MaxHeight + 1) : m # n + 1 => asked'[m] = asked[m]
    <2>1. a \in Nat /\ Ask(a, n)
      BY <1>4, <1>5, Zenon DEF Setup
    <2> QED
      BY <1>7, <2>1, AskIs, Zenon
  <1>9. asked'[n + 1] = a
    <2>1. asked[n + 1] = 0
      BY <1>6, <1>7, <1>8, Zenon DEF LoopInv, Agreed, Asking
    <2>2. a \in Nat
      BY <1>4, Zenon DEF Setup
    <2> QED
      BY <1>8, <2>1, <2>2
  <1>10. LoopShape'
    <2>1. mode' \in {"Normal", "Syncing", "Listening"} /\ leader' \in ShardKeys /\ parts' \in Seq(ShardKeys)
      BY <1>4, Zenon DEF Setup
    <2>2. chain' \in Seq(ChainRecord) /\ head' <= MaxHeight /\ blockNum' \in 1..(head' + 1)
      BY <1>2, <1>6, <1>7, Zenon DEF Longer
    <2>3. gap' \in BOOLEAN
      BY Zenon
    <2> QED
      BY <1>1, <1>3, <1>8, <2>1, <2>2, <2>3, Zenon DEF LoopInv, LoopShape
  <1>11. \A x : Proposed(x) => Proposed(x)'
    BY <1>2, <1>3, ProposedGrows, Zenon
  <1>12. BlocksMade' /\ OneVdf'
    BY <1>2, <1>3, <1>5, <1>6, <1>7, BlocksGrow, OneVdfGrows, Zenon
  <1>13. Leading'
    <2>1. ~Behind'
      BY <1>6, <1>7, Zenon DEF Behind
    <2> SUFFICES ASSUME failures' = 0, leader' \in MyKeys PROVE Leads(leader, head + 1)'
      BY <2>1, Zenon DEF Leading, IsLeader
    <2>2. leader' = IF Empty(e) THEN b.by ELSE First(e)
      BY <1>4, <1>5, Zenon DEF Setup
    <2>3. chain'[n].by = b.by
      BY <1>2, <1>5, Zenon DEF Longer
    <2>4. Empty(e)' = Empty(e) /\ First(e)' = First(e)
      BY <1>1, Zenon DEF Empty, First
    <2>5. head' + 1 = n + 1 /\ Epoch(head + 1)' = e
      BY <1>5, <1>6, Zenon DEF Epoch
    <2>6. IF Empty(e)' THEN head' + 1 > 1 /\ chain'[(head' + 1) - 1].by = leader' ELSE First(e)' = leader'
      BY <1>7, <2>2, <2>3, <2>4, <2>5, Zenon
    <2> QED
      BY <2>5, <2>6, Zenon DEF Leads, Empty, First
  <1>14. Asking'
    <2>1. asked[1] = 0 /\ \A m \in 1..(MaxHeight + 1) : m > n => asked[m] = 0
      BY <1>6, Zenon DEF LoopInv, Agreed, Asking
    <2> QED
      BY <1>6, <1>7, <1>8, <2>1, Zenon DEF Asking
  <1>15. CommitteeCurrent'
    BY <1>1, <1>4, <1>5, <1>6, Zenon DEF CommitteeCurrent, Setup, First, Epoch
  <1>16. LeaderIsAsked'
    BY <1>4, <1>6, <1>9, Zenon DEF LeaderIsAsked, Setup, IsLeader
  <1>17. AskedOnce'
    <2> SUFFICES ASSUME NEW m \in DOMAIN asked', asked'[m] > 1
        PROVE /\ asked'[m] = 2 /\ chain'[m - 1].by \in MyKeys
              /\ committee[Epoch(m)][1] \in MyKeys \ {chain'[m - 1].by}
      BY <1>1, Zenon DEF AskedOnce, IsLeader, Epoch
    <2>1. CASE m = n + 1
      <3>1. a > 1 /\ chain'[m - 1].by = b.by
        BY <1>2, <1>5, <1>7, <1>9, <2>1, Zenon DEF Longer
      <3>2. a = 2
        <4>1. a \in Nat /\ a <= 2
          BY <1>4, Zenon DEF Setup
        <4> QED
          BY <3>1, <4>1
      <3> QED
        BY <1>4, <1>5, <1>9, <2>1, <3>1, <3>2, Zenon DEF Setup, First
    <2>2. CASE m # n + 1
      <3>1. m \in 1..(MaxHeight + 1) /\ asked'[m] = asked[m] /\ asked[m] > 1 /\ m \in DOMAIN asked
        BY <1>8, <2>2, Zenon DEF LoopInv, LoopShape
      <3>2. chain'[m - 1] = chain[m - 1]
        BY <1>2, <3>1, AskedGrows, Zenon DEF Longer
      <3> QED
        BY <3>1, <3>2, Zenon DEF LoopInv, Agreed, AskedOnce, IsLeader
    <2> QED
      BY <2>1, <2>2, Zenon
  <1>18. Agreed'
    BY <1>12, <1>13, <1>14, <1>15, <1>16, <1>17, Zenon DEF Agreed
  <1>19. Callers'
    BY <1>1, CallersKept, Zenon DEF LoopInv
  <1> QED
    BY <1>1, <1>3, <1>10, <1>11, <1>18, <1>19, ConsensusKeeps, Zenon

\* CommitOwn: the announced block is committed.
LEMMA CommitOwnKeeps == LoopInv /\ CommitOwn => LoopInv'
  <1> SUFFICES ASSUME LoopInv, CommitOwn PROVE LoopInv'
    OBVIOUS
  <1>1. PICK b : b = announced
    OBVIOUS
  <1>2. /\ b # None /\ b.n = head + 1 /\ b.n = blockNum /\ announced' = None /\ gap' = FALSE /\ Extend(b)
        /\ UNCHANGED <<committee, proposer, loop, Rnd, Life, Syncs>>
    BY <1>1, Zenon DEF CommitOwn, Extend
  <1>3. ~Empty(Epoch(b.n)) /\ b.by = First(Epoch(b.n))
    BY <1>1, Zenon DEF CommitOwn, Empty, First
  <1>4. b \in BlockRecord /\ Proposed(b)
    BY <1>1, <1>2, Zenon DEF LoopInv, LoopShape, Proposals
  <1>5. b.n <= MaxHeight
    BY <1>4, LoopAssumption DEF Proposed
  <1>6. Continues(b)
    BY <1>2, <1>3, <1>4, <1>5, Zenon DEF Continues, Proposed
  <1>7. PICK ok \in BOOLEAN : ReadFails(ok) /\ SetupForNewConsensus(b, b.by \in MyKeys, ok)
    BY <1>1, Zenon DEF CommitOwn
  <1>8. PICK mine \in BOOLEAN : mine = (b.by \in MyKeys)
    <2>1. (b.by \in MyKeys) \in BOOLEAN
      <3>1. CASE b.by \in MyKeys
        BY <3>1
      <3>2. CASE b.by \notin MyKeys
        BY <3>2
      <3> QED
        BY <3>1, <3>2, Zenon
    <2> QED
      BY <2>1, Zenon
  <1>9. SetupForNewConsensus(b, mine, ok) /\ (mine <=> b.by \in MyKeys)
    BY <1>7, <1>8, Zenon
  <1>10. blockNum = head + 1
    BY <1>2, Zenon
  <1> QED
    BY <1>2, <1>6, <1>7, <1>8, <1>9, <1>10, CommitKeeps, Zenon

\* CommitOther: a block of another leader is committed.
LEMMA CommitOtherKeeps == LoopInv /\ CommitOther => LoopInv'
  <1> SUFFICES ASSUME LoopInv, CommitOther PROVE LoopInv'
    OBVIOUS
  <1>1. /\ blockNum = head + 1 /\ announced' = None /\ gap' = FALSE
        /\ UNCHANGED <<committee, proposer, loop, Rnd, Life, Syncs>>
    BY Zenon DEF CommitOther
  <1>2. PICK b \in Others, ok \in BOOLEAN :
          /\ chain' = Append(chain, [by |-> b.by, vrf |-> b.vrf, vdf |-> b.vdf])
          /\ ReadFails(ok) /\ SetupForNewConsensus(b, FALSE, ok)
    BY Zenon DEF CommitOther
  <1>3. Continues(b) /\ b.by \notin MyKeys
    BY OthersContinue, Zenon
  <1>4. Extend(b) /\ (FALSE <=> b.by \in MyKeys) /\ FALSE \in BOOLEAN
    BY <1>1, <1>2, <1>3, Zenon DEF Extend
  <1> QED
    BY <1>1, <1>2, <1>3, <1>4, CommitKeeps, Zenon

------------------------------------------------------------------------------
(* The specification. *)

\* Every step keeps the invariant.
LEMMA LoopKeeps == LoopInv /\ [LoopNext]_loopVars => LoopInv'
  <1> SUFFICES ASSUME LoopInv, [LoopNext]_loopVars PROVE LoopInv'
    OBVIOUS
  <1>1. CASE Bootstrap \/ StarterGoes \/ StopService \/ BlocksSynchronized \/ BlocksNotSynchronized
    BY <1>1, AroundKeeps, Zenon
  <1>2. CASE StartService \/ TakeStop
    BY <1>2, StartServiceKeeps, TakeStopKeeps, Zenon
  <1>3. CASE Propose \/ LoopStep
    BY <1>3, ProposeKeeps, ReceiveBlockKeeps, GenerateVrfKeeps, ReadRndKeeps, PopRndKeeps, AnnounceKeeps, Zenon DEF LoopStep
  <1>4. CASE TakeRnd \/ StoreRnd
    BY <1>4, TakeRndKeeps, StoreRndKeeps, Zenon
  <1>5. CASE CommitOwn \/ CommitOther
    BY <1>5, CommitOwnKeeps, CommitOtherKeeps, Zenon
  <1>6. CASE SyncInsert \/ SyncReady \/ SyncNotReady
    BY <1>6, SyncInsertKeeps, SyncReadyKeeps, SyncNotReadyKeeps, Zenon
  <1>7. CASE UNCHANGED loopVars
    <2>1. UNCHANGED <<committee, chain, Info, asked, proposer, loop, announced, Rnd, starts, failures, gap>> /\ UNCHANGED Syncs /\ signals' = signals
      BY <1>7, Zenon DEF loopVars, Info, Rnd, Syncs
    <2>2. signals' \in Nat /\ Callers'
      BY <2>1, CallersKept, Zenon DEF LoopInv, LoopShape
    <2> QED
      BY <2>1, <2>2, LifeKeeps, Zenon
  <1> QED
    BY <1>1, <1>2, <1>3, <1>4, <1>5, <1>6, <1>7, Zenon DEF LoopNext

\* The committee and the leader that the main loop works with are those of the height that it is
\* at, that leader was asked for its proposal and for no height more than once but where its own
\* keys follow one another, an epoch gets one VDF and one is computed at a time, whatever commits,
\* synchronization, failed reads of shard states, stops and restarts come, for committees, epochs
\* and chains of every length (consensus.go, Start; UpdateConsensusInformation).
THEOREM LoopIsConsistent == LoopSpec => []LoopConsistent
  <1>1. LoopInit => LoopInv
    BY LoopInitial
  <1>2. LoopInv /\ [LoopNext]_loopVars => LoopInv'
    BY LoopKeeps
  <1>3. LoopInv => LoopConsistent
    BY LoopFollows
  <1> QED
    BY <1>1, <1>2, <1>3, PTL DEF LoopSpec

------------------------------------------------------------------------------
(* The list of an account: its heap holds exactly the nonces of its map, a cached
   order that was cut instead of rebuilt is that of the map, and the caps bound
   what the list holds, so that Filter may skip the scan. *)

\* A nonce occurs once in the map: transactions and nonces are counted alike.
LEMMA NonceCount ==
  ASSUME ListTypeOK, IsFiniteSet(items), NEW S \in SUBSET items
  PROVE  Cardinality({ListNonce[t] : t \in S}) = Cardinality(S)
<1> DEFINE T == {ListNonce[t] : t \in S}
           f == [t \in S |-> ListNonce[t]]
<1>1. f \in Bijection(S, T)
  <2>1. f \in [S -> T]
    BY Zenon
  <2>2. \A t, u \in S : f[t] = f[u] => t = u
    BY Zenon DEF ListTypeOK
  <2>3. \A m \in T : \E t \in S : f[t] = m
    BY Zenon
  <2> QED
    BY <2>1, <2>2, <2>3, Zenon DEF Bijection, Injection, Surjection, IsInjective
<1>2. ExistsBijection(S, T)
  BY <1>1, Zenon DEF ExistsBijection
<1>3. IsFiniteSet(S)
  BY FS_Subset, Zenon
<1> QED
  BY <1>2, <1>3, FS_Bijection, Zenon

\* Forward cuts off the front of the cache as many as it popped from the heap: the
\* transactions of the popped nonces.
LEMMA FrontIsPopped ==
  ASSUME ListInv, NEW n \in Nat, NEW popped, popped = {m \in index : m < n}
  PROVE  items \ ListFront(items, Cardinality(popped)) = {t \in items : ListNonce[t] \notin popped}
<1> DEFINE low == {t \in items : ListNonce[t] < n}
<1>1. ListTypeOK /\ IndexMatches /\ IsFiniteSet(items)
  BY Zenon DEF ListInv, ListConsistent
<1>2. \A t \in items : ListNonce[t] \in Nat
  BY <1>1, ListAssumption, Zenon DEF ListTypeOK
<1>3. popped = {ListNonce[t] : t \in low}
  BY <1>1, Zenon DEF IndexMatches
<1>4. Cardinality(popped) = Cardinality(low)
  BY <1>1, <1>3, NonceCount, Zenon
<1>5. IsFiniteSet(low) /\ Cardinality(low) \in Nat
  BY <1>1, FS_Subset, FS_CardinalityType, Zenon
<1>6. ASSUME NEW t \in items PROVE t \in ListFront(items, Cardinality(low)) <=> ListNonce[t] < n
  <2> DEFINE before == Below(items, ListNonce[t])
  <2>1. IsFiniteSet(before) /\ Cardinality(before) \in Nat
    BY <1>1, FS_Subset, FS_CardinalityType, Zenon DEF Below
  <2>2. CASE ListNonce[t] < n
    <3>1. before \subseteq low \ {t}
      BY <1>2, <2>2 DEF Below
    <3>2. t \in low
      BY <2>2, Zenon
    <3>3. IsFiniteSet(low \ {t}) /\ Cardinality(low \ {t}) = Cardinality(low) - 1
      BY <1>5, <3>2, FS_RemoveElement, Zenon
    <3>4. Cardinality(before) <= Cardinality(low \ {t})
      BY <3>1, <3>3, FS_Subset, Zenon
    <3> QED
      BY <1>5, <2>1, <2>2, <3>3, <3>4 DEF ListFront
  <2>3. CASE ~(ListNonce[t] < n)
    <3>1. low \subseteq before
      BY <1>2, <2>3 DEF Below
    <3>2. Cardinality(low) <= Cardinality(before)
      BY <2>1, <3>1, FS_Subset, Zenon
    <3> QED
      BY <1>5, <2>1, <2>3, <3>2 DEF ListFront
  <2> QED
    BY <2>2, <2>3, Zenon
<1>7. \A t \in items : ListNonce[t] \in popped <=> ListNonce[t] < n
  BY <1>1, Zenon DEF IndexMatches
<1> HIDE DEF low
<1> QED
  BY <1>4, <1>6, <1>7, Zenon

\* Cap keeps the front of the cache: the transactions of the nonces that stay in the heap.
LEMMA FrontIsKept ==
  ASSUME ListInv, NEW n \in Nat,
         NEW kept, kept = {m \in index : Cardinality({k \in index : k < m}) < n}
  PROVE  ListFront(items, n) = {t \in items : ListNonce[t] \in kept}
<1>1. ListTypeOK /\ IndexMatches /\ IsFiniteSet(items)
  BY Zenon DEF ListInv, ListConsistent
<1>2. ASSUME NEW t \in items
      PROVE  Cardinality({k \in index : k < ListNonce[t]}) = Cardinality(Below(items, ListNonce[t]))
  <2>1. {k \in index : k < ListNonce[t]} = {ListNonce[u] : u \in Below(items, ListNonce[t])}
    BY <1>1, Zenon DEF IndexMatches, Below
  <2>2. Below(items, ListNonce[t]) \in SUBSET items
    BY Zenon DEF Below
  <2> QED
    BY <1>1, <2>1, <2>2, NonceCount, Zenon
<1>3. \A t \in items : ListNonce[t] \in kept <=> Cardinality({k \in index : k < ListNonce[t]}) < n
  BY <1>1, Zenon DEF IndexMatches
<1> QED
  BY <1>2, <1>3, Zenon DEF ListFront

\* An operation that only takes transactions out, and their nonces with them,
\* keeps the invariant.
LEMMA SubsetKeeps ==
  ASSUME ListInv, strict' = strict,
         items' \subseteq items, index' = {ListNonce[t] : t \in items'},
         cache' = NoCache \/ cache' = items',
         costcap' = costcap, gascap' = gascap
  PROVE  ListInv'
<1>1. ListTypeOK' /\ IndexMatches' /\ CacheFresh' /\ CapsBound'
  BY Zenon DEF ListInv, ListConsistent, ListTypeOK, IndexMatches, CacheFresh, CapsBound, NonceSet
<1>2. IsFiniteSet(items)'
  BY FS_Subset, Zenon DEF ListInv
<1> QED
  BY <1>1, <1>2, Zenon DEF ListInv, ListConsistent

\* Dropping from the map what has a nonce of R, and R from the heap, leaves the two
\* in agreement.
LEMMA DropNonces ==
  ASSUME IndexMatches, NEW R,
         items' = {t \in items : ListNonce[t] \notin R}, index' = index \ R
  PROVE  index' = {ListNonce[t] : t \in items'}
BY Zenon DEF IndexMatches

\* Add puts a transaction in the list, in place of one with its nonce.
LEMMA AddKeeps ==
  ASSUME ListInv, strict' = strict, NEW t \in ListTxs, ListAdd(t)
  PROVE  ListInv'
<1>1. ListTypeOK'
  BY ListAssumption, Zenon DEF ListInv, ListConsistent, ListTypeOK, ListAdd, Put, Get, NonceSet
<1>2. IndexMatches'
  BY Zenon DEF ListInv, ListConsistent, IndexMatches, ListAdd, Put, Get
<1>3. CapsBound'
  <2>1. SUFFICES ASSUME NEW u \in items'
                 PROVE  ListCost[u] <= costcap' /\ ListGas[u] <= gascap'
    BY Zenon DEF CapsBound
  <2>2. u \in ListTxs /\ ListCost[u] \in Nat /\ ListGas[u] \in Nat
        /\ ListCost[t] \in Nat /\ ListGas[t] \in Nat
    BY <1>1, ListAssumption, Zenon DEF ListTypeOK
  <2>3. costcap \in Nat /\ gascap \in Nat
    BY Zenon DEF ListInv, ListConsistent, ListTypeOK
  <2>4. CASE u = t
    BY <2>2, <2>3, <2>4 DEF ListAdd, Put
  <2>5. CASE u # t
    <3>1. u \in items
      BY <2>5, Zenon DEF ListAdd, Put
    <3>2. ListCost[u] <= costcap /\ ListGas[u] <= gascap
      BY <3>1, Zenon DEF ListInv, ListConsistent, CapsBound
    <3> QED
      BY <3>2, <2>2, <2>3 DEF ListAdd
  <2> QED
    BY <2>4, <2>5, Zenon
<1>4. CacheFresh'
  BY Zenon DEF ListAdd, Put, CacheFresh
<1>5. IsFiniteSet(items)'
  <2>1. IsFiniteSet(items \ Get(ListNonce[t]))
    BY FS_Subset, Zenon DEF ListInv
  <2> QED
    BY <2>1, FS_AddElement, Zenon DEF ListAdd, Put
<1> QED
  BY <1>1, <1>2, <1>3, <1>4, <1>5, Zenon DEF ListInv, ListConsistent

\* Filter leaves nothing above the limits, and in a strict list nothing after a gap.
LEMMA FilterKeeps ==
  ASSUME ListInv, strict' = strict, NEW x \in ListTxs, Filter(ListCost[x], ListGas[x])
  PROVE  ListInv' /\ \A t \in items' : ListCost[t] <= ListCost[x] /\ ListGas[t] <= ListGas[x]
<1> DEFINE removed == {t \in items : ListGas[t] > ListGas[x] \/ ListCost[t] > ListCost[x]}
           rest == (items \ removed) \ Invalids(items \ removed, removed)
<1>0. /\ ListCost[x] \in Nat /\ ListGas[x] \in Nat
      /\ \A t \in items : ListCost[t] \in Nat /\ ListGas[t] \in Nat
      /\ costcap \in Nat /\ gascap \in Nat
  BY ListAssumption, Zenon DEF ListInv, ListConsistent, ListTypeOK
<1>1. CASE costcap <= ListCost[x] /\ gascap <= ListGas[x]
  <2>1. UNCHANGED <<items, index, cache, costcap, gascap>>
    BY <1>1, Zenon DEF Filter
  <2>2. \A t \in items : ListCost[t] <= costcap /\ ListGas[t] <= gascap
    BY Zenon DEF ListInv, ListConsistent, CapsBound
  <2>3. \A t \in items : ListCost[t] <= ListCost[x] /\ ListGas[t] <= ListGas[x]
    BY <1>0, <1>1, <2>2
  <2> QED
    BY <2>1, <2>3, Zenon DEF ListInv, ListConsistent, ListTypeOK, IndexMatches, CacheFresh, CapsBound
<1>2. CASE ~(costcap <= ListCost[x] /\ gascap <= ListGas[x])
  <2>1. costcap' = ListCost[x] /\ gascap' = ListGas[x]
    BY <1>2, Zenon DEF Filter
  <2>2. \A t \in items \ removed : ListCost[t] <= ListCost[x] /\ ListGas[t] <= ListGas[x]
    BY <1>0
  <2>3. CASE removed = {}
    <3>1. UNCHANGED <<items, index, cache>>
      BY <1>2, <2>3, Zenon DEF Filter
    <3>2. \A t \in items' : ListCost[t] <= ListCost[x] /\ ListGas[t] <= ListGas[x]
      BY <2>2, <2>3, <3>1, Zenon
    <3> QED
      BY <1>0, <2>1, <3>1, <3>2, Zenon DEF ListInv, ListConsistent, ListTypeOK, IndexMatches, CacheFresh, CapsBound
  <2>4. CASE removed # {}
    <3>1. items' = rest /\ index' = {ListNonce[t] : t \in rest} /\ cache' = NoCache
      BY <1>2, <2>4, Zenon DEF Filter, reheap
    <3>2. rest \subseteq items \ removed
      BY Zenon
    <3>3. \A t \in items' : ListCost[t] <= ListCost[x] /\ ListGas[t] <= ListGas[x]
      BY <2>2, <3>1, <3>2, Zenon
    <3>4. items' \subseteq items /\ index' = {ListNonce[t] : t \in items'}
      BY <3>1, <3>2, Zenon
    <3>5. IsFiniteSet(items)'
      BY <3>4, FS_Subset, Zenon DEF ListInv
    <3> HIDE DEF removed, rest
    <3>6. ListConsistent'
      BY <1>0, <2>1, <3>1, <3>3, <3>4, Zenon
      DEF ListInv, ListConsistent, ListTypeOK, IndexMatches, CacheFresh, CapsBound, NonceSet
    <3> QED
      BY <3>3, <3>5, <3>6, Zenon DEF ListInv
  <2> QED
    BY <2>3, <2>4, Zenon
<1> QED
  BY <1>1, <1>2, Zenon

\* Every call of the list keeps the invariant.
LEMMA StepKeeps ==
  ASSUME ListInv, [ListNext]_listVars
  PROVE  ListInv'
<1>1. CASE UNCHANGED listVars
  BY <1>1, Zenon DEF listVars, ListInv, ListConsistent, ListTypeOK, IndexMatches, CacheFresh, CapsBound
<1>2. CASE ListNext
  <2>0. strict' = strict
    BY <1>2, Zenon DEF ListNext
  <2>1. ASSUME NEW t \in ListTxs, ListAdd(t) PROVE ListInv'
    BY <2>0, <2>1, AddKeeps, Zenon
  <2>2. ASSUME NEW t \in ListTxs, Filter(ListCost[t], ListGas[t]) PROVE ListInv'
    BY <2>0, <2>2, FilterKeeps, Zenon
  <2>3. ASSUME NEW n \in NonceSet, Forward(n) PROVE ListInv'
    <3> DEFINE popped == {m \in index : m < n}
    <3>1. items' = {t \in items : ListNonce[t] \notin popped} /\ index' = index \ popped
      BY <2>3, Zenon DEF Forward
    <3>2. index' = {ListNonce[t] : t \in items'}
      BY <3>1, DropNonces, Zenon DEF ListInv, ListConsistent
    <3>3. cache' = NoCache \/ cache' = items'
      <4>1. n \in Nat
        BY ListAssumption, Zenon DEF NonceSet
      <4>2. items \ ListFront(items, Cardinality(popped)) = {t \in items : ListNonce[t] \notin popped}
        BY <4>1, FrontIsPopped, Zenon
      <4>3. cache = NoCache \/ cache = items
        BY Zenon DEF ListInv, ListConsistent, CacheFresh
      <4> QED
        BY <2>3, <3>1, <4>2, <4>3, Zenon DEF Forward
    <3>4. items' \subseteq items /\ costcap' = costcap /\ gascap' = gascap
      BY <2>3, Zenon DEF Forward
    <3> QED
      BY <2>0, <3>2, <3>3, <3>4, SubsetKeeps, Zenon
  <2>4. ASSUME NEW n \in NonceSet, Cap(n) PROVE ListInv'
    <3> DEFINE kept == {m \in index : Cardinality({k \in index : k < m}) < n}
    <3>1. items' = {t \in items : ListNonce[t] \in kept} /\ index' = kept
      BY <2>4, Zenon DEF Cap
    <3>2. kept \subseteq index
      BY Zenon
    <3>3. index' = {ListNonce[t] : t \in items'}
      <4> HIDE DEF kept
      <4> QED
        BY <3>1, <3>2, Zenon DEF ListInv, ListConsistent, IndexMatches
    <3>4. cache' = NoCache \/ cache' = items'
      <4>1. n \in Nat
        BY ListAssumption DEF NonceSet
      <4>2. ListFront(items, n) = {t \in items : ListNonce[t] \in kept}
        BY <4>1, FrontIsKept, Zenon
      <4>3. cache = NoCache \/ cache = items
        BY DEF ListInv, ListConsistent, CacheFresh
      <4>4. Cardinality(items) \in Nat
        BY FS_CardinalityType, Zenon DEF ListInv
      <4>5. Cardinality(items) - (Cardinality(items) - n) = n
        BY <4>1, <4>4
      <4> QED
        BY <2>4, <3>1, <4>2, <4>3, <4>5, Zenon DEF Cap
    <3>5. items' \subseteq items /\ costcap' = costcap /\ gascap' = gascap
      BY <2>4, Zenon DEF Cap
    <3> QED
      BY <2>0, <3>3, <3>4, <3>5, SubsetKeeps
  <2>5. ASSUME NEW n \in NonceSet, ListRemove(n) PROVE ListInv'
    BY <2>0, <2>5, SubsetKeeps, Zenon DEF ListRemove, reheap
  <2>6. ASSUME NEW n \in NonceSet, Ready(n) PROVE ListInv'
    <3> DEFINE run == {m \in index : \A k \in 0..m : (\E l \in index : l <= k) => k \in index}
    <3>1. items' = {t \in items : ListNonce[t] \notin run} /\ index' = index \ run
      BY <2>6, Zenon DEF Ready
    <3>2. index' = {ListNonce[t] : t \in items'}
      <4> HIDE DEF run
      <4> QED
        BY <3>1, DropNonces, Zenon DEF ListInv, ListConsistent
    <3>3. cache' = NoCache /\ items' \subseteq items /\ costcap' = costcap /\ gascap' = gascap
      BY <2>6, Zenon DEF Ready
    <3> QED
      BY <2>0, <3>2, <3>3, SubsetKeeps, Zenon
  <2>7. ASSUME Flatten PROVE ListInv'
    BY <2>0, <2>7, Zenon DEF Flatten, ListInv, ListConsistent, ListTypeOK, IndexMatches, CacheFresh, CapsBound
  <2> QED
    BY <1>2, <2>1, <2>2, <2>3, <2>4, <2>5, <2>6, <2>7, Zenon DEF ListNext
<1> QED
  BY <1>1, <1>2, Zenon

\* txList: in every reachable state the map holds one transaction of a nonce, the
\* heap exactly the nonces of the map, a cached slice exactly the transactions of the
\* map, and costcap and gascap bound every transaction in the list.
THEOREM ListIsConsistent == ListSpec => []ListConsistent
<1>1. ListInit => ListInv
  BY FS_EmptySet DEF ListInit, ListInv, ListConsistent, ListTypeOK, IndexMatches, CacheFresh,
                     CapsBound, NonceSet, NoCache
<1>2. ListInv /\ [ListNext]_listVars => ListInv'
  BY StepKeeps, Zenon
<1>3. ListInv => ListConsistent
  BY Zenon DEF ListInv
<1> QED
  BY <1>1, <1>2, <1>3, PTL DEF ListSpec

\* The invariant holds always.
LEMMA ListInvariant == ListSpec => []ListInv
<1>1. ListInit => ListInv
  BY FS_EmptySet DEF ListInit, ListInv, ListConsistent, ListTypeOK, IndexMatches, CacheFresh,
                     CapsBound, NonceSet, NoCache
<1>2. ListInv /\ [ListNext]_listVars => ListInv'
  BY StepKeeps
<1> QED
  BY <1>1, <1>2, PTL DEF ListSpec

\* In a strict list Invalids takes everything behind what was removed.
LEMMA StrictCuts ==
  ASSUME ListInv, strict, NEW removed \in SUBSET items,
         items' = (items \ removed) \ Invalids(items \ removed, removed)
  PROVE  \A t \in items', r \in items \ items' : ListNonce[t] < ListNonce[r]
<1>1. /\ \A t \in items : ListNonce[t] \in Nat
      /\ \A t, u \in items : ListNonce[t] = ListNonce[u] => t = u
  BY ListAssumption, Zenon DEF ListInv, ListConsistent, ListTypeOK
<1>2. \A t \in items' : t \in items /\ t \notin removed /\ \A r \in removed : ~(ListNonce[r] < ListNonce[t])
  BY Zenon DEF Invalids
<1>3. \A t \in items', r \in removed : ListNonce[t] < ListNonce[r]
  BY <1>1, <1>2
<1>4. \A r \in items \ items' : r \in removed \/ \E q \in removed : ListNonce[q] < ListNonce[r]
  BY Zenon DEF Invalids
<1>5. ASSUME NEW t \in items', NEW r \in items \ items'
      PROVE  ListNonce[t] < ListNonce[r]
  <2>1. CASE r \in removed
    BY <1>3, <2>1, Zenon
  <2>2. ASSUME NEW q \in removed, ListNonce[q] < ListNonce[r] PROVE ListNonce[t] < ListNonce[r]
    <3>1. ListNonce[t] < ListNonce[q]
      BY <1>3, Zenon
    <3>2. t \in items /\ q \in items /\ r \in items
      BY <1>2, Zenon
    <3>3. ListNonce[t] \in Nat /\ ListNonce[q] \in Nat /\ ListNonce[r] \in Nat
      BY <1>1, <3>2, Zenon
    <3> QED
      BY <2>2, <3>1, <3>3
  <2> QED
    BY <1>4, <2>1, <2>2, Zenon
<1> QED
  BY <1>5, Zenon

\* txList.Filter and txList.Remove: although Filter returns at once when the caps are
\* within the limits, nothing over the limits is left behind; and a strict list has no
\* gap after either of them.
THEOREM CutsAreComplete == ListSpec => CutsComplete
<1>1. ListInv /\ [ListNext]_listVars => [FilterComplete /\ StrictCut]_listVars
  <2> SUFFICES ASSUME ListInv, ListNext
               PROVE  FilterComplete /\ StrictCut
    BY Zenon
  <2>0. strict' = strict
    BY Zenon DEF ListNext
  <2>1. FilterComplete
    BY <2>0, FilterKeeps, Zenon DEF FilterComplete
  <2>2. ASSUME strict, NEW x \in ListTxs, Filter(ListCost[x], ListGas[x]),
               NEW t \in items', NEW r \in items \ items'
        PROVE  ListNonce[t] < ListNonce[r]
    <3> DEFINE removed == {y \in items : ListGas[y] > ListGas[x] \/ ListCost[y] > ListCost[x]}
    <3>1. items' # items
      BY Zenon
    <3>2. items' = (items \ removed) \ Invalids(items \ removed, removed)
      BY <2>2, <3>1, Zenon DEF Filter, reheap
    <3>3. removed \in SUBSET items
      BY Zenon
    <3> HIDE DEF removed
    <3> QED
      BY <2>2, <3>2, <3>3, StrictCuts, Zenon
  <2>3. ASSUME strict, NEW n \in NonceSet, ListRemove(n),
               NEW t \in items', NEW r \in items \ items'
        PROVE  ListNonce[t] < ListNonce[r]
    <3>1. items' = (items \ Get(n)) \ Invalids(items \ Get(n), Get(n))
      BY <2>3, Zenon DEF ListRemove, reheap
    <3>2. Get(n) \in SUBSET items
      BY Zenon DEF Get
    <3> QED
      BY <2>3, <3>1, <3>2, StrictCuts, Zenon
  <2> QED
    BY <2>1, <2>2, <2>3, Zenon DEF StrictCut
<1> QED
  BY <1>1, ListInvariant, PTL DEF ListSpec, CutsComplete
==============================================================================
