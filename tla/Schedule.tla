------------------------------ MODULE Schedule ------------------------------
(***************************************************************************)
(* The sharding schedules of internal/configs/sharding: how each network   *)
(* cuts its chain into epochs, which sharding instance an epoch runs, and  *)
(* which shard a key belongs to.  The schedules are pure functions of a    *)
(* block number; a chain that grows one block after the other under one of *)
(* them, and counts its epochs by IsLastBlock alone as the epoch           *)
(* transition does, is the reference they are checked against.             *)
(***************************************************************************)
EXTENDS Integers, Sequences, FiniteSets, FiniteSetsExt

CONSTANTS
  Networks,       \* the networks: records of the constants of their files
  HmyAccounts,    \* the genesis accounts run by the foundation, in order
  FnAccounts,     \* the foundational genesis accounts, in order
  Epochs          \* bound: the epochs the chain of a network is followed through

VARIABLES
  network,        \* the network of the chain
  height,         \* its newest block
  inEpoch,        \* the epochs ended so far
  epochFirst      \* the first block of the running epoch

scheduleVars == <<network, height, inEpoch, epochFirst>>

\* mainnet and localnet give their first epoch a length of its own.
Offset == {"mainnet", "localnet"}

\* params.ChainConfig of the network: a fork is active from its epoch on.
IsTwoSeconds(n, e) == e >= n.two

\* NewInstance's checks; MustNewInstance panics when one of them fails.
ValidInstance(i) ==
  /\ i.shards >= 1 /\ i.nodes >= 1
  /\ i.harmony \in 0 .. i.nodes
  /\ i.percent \in 0 .. 100

\* An instance of a schedule: its shards, slots per shard, slots of the
\* foundation, percentage of the foundation's vote and blocks per epoch.
NewInstance(shards, nodes, harmony, percent, blocks) ==
  [shards |-> shards, nodes |-> nodes, harmony |-> harmony,
   percent |-> percent, blocks |-> blocks]

\* Per network: the epochs its instances run from, and the instances.
mainnetEpochs(n) ==
  <<0, 1, 5, 8, 10, 12, 19, 25, 36, 46, 54, 185, 208, 231, n.two, n.sixty>>
mainnetInstances(n) ==
  LET V(nodes, harmony, percent) == NewInstance(4, nodes, harmony, percent, n.old)
  IN  << V(150, 112, 100), V(152, 112, 100), V(200, 148, 100), V(210, 148, 100),
         V(216, 148, 100), V(250, 170, 100), V(250, 170, 100), V(250, 170, 100),
         V(250, 170, 100), V(250, 170, 100), V(250, 170, 100), V(250, 170, 68),
         V(250, 130, 68), V(250, 90, 68),
         NewInstance(4, 250, 90, 68, n.v2), NewInstance(4, 250, 90, 60, n.v2) >>

localnetEpochs(n) == <<0, 1, n.staking, n.two, n.sixty>>
localnetInstances_OldLength(n) ==
  << NewInstance(2, 7, 5, 100, n.old), NewInstance(2, 8, 5, 100, n.old),
     NewInstance(2, 9, 6, 68, n.old), NewInstance(2, 9, 6, 68, n.old),
     NewInstance(2, 9, 6, 68, n.old) >>

localnetInstances(n) ==
  << NewInstance(2, 7, 5, 100, n.old), NewInstance(2, 8, 5, 100, n.old),
     NewInstance(2, 9, 6, 68, n.old), NewInstance(2, 9, 6, 68, n.v2),
     NewInstance(2, 9, 6, 68, n.v2) >>

testnetEpochs(n) == <<0, n.staking, 6050, n.two, n.sixty>>
testnetInstances(n) ==
  << NewInstance(4, 16, 15, 100, n.old), NewInstance(4, 20, 15, 90, n.old),
     NewInstance(4, 30, 8, 90, n.old), NewInstance(4, 30, 8, 90, n.v2),
     NewInstance(4, 30, 8, 60, n.v2) >>

pangaeaEpochs(n) == <<0, n.staking>>
pangaeaInstances(n) ==
  << NewInstance(4, 30, 30, 100, n.v2), NewInstance(4, 110, 30, 68, n.v2) >>

partnerEpochs(n) == <<0, n.staking>>
partnerInstances(n) ==
  << NewInstance(2, 15, 15, 100, n.v2), NewInstance(2, 30, 15, 68, n.v2) >>

stressnetEpochs(n) == <<0, n.staking>>
stressnetInstances(n) ==
  << NewInstance(2, 10, 10, 100, n.v2), NewInstance(2, 30, 10, 90, n.v2) >>

\* NewFixedSchedule: one instance, whatever the epoch.
fixedEpochs(n) == <<0>>
fixedInstances(n) == << NewInstance(2, 10, 10, 100, n.v2) >>

EpochsOf(n) ==
  CASE n.kind = "mainnet"  -> mainnetEpochs(n)
    [] n.kind = "localnet" -> localnetEpochs(n)
    [] n.kind = "testnet"  -> testnetEpochs(n)
    [] n.kind = "pangaea"  -> pangaeaEpochs(n)
    [] n.kind = "partner"  -> partnerEpochs(n)
    [] n.kind = "stress"   -> stressnetEpochs(n)
    [] n.kind = "fixed"    -> fixedEpochs(n)

InstancesOf(n) ==
  CASE n.kind = "mainnet"  -> mainnetInstances(n)
    [] n.kind = "localnet" -> localnetInstances(n)
    [] n.kind = "testnet"  -> testnetInstances(n)
    [] n.kind = "pangaea"  -> pangaeaInstances(n)
    [] n.kind = "partner"  -> partnerInstances(n)
    [] n.kind = "stress"   -> stressnetInstances(n)
    [] n.kind = "fixed"    -> fixedInstances(n)

InstanceForEpoch_AfterFork(n, e) ==
  InstancesOf(n)[Max({i \in DOMAIN EpochsOf(n) : i = 1 \/ EpochsOf(n)[i] < e})]

\* Every switch tries the newest instance first and ends with the first one.
InstanceForEpoch(n, e) ==
  InstancesOf(n)[Max({i \in DOMAIN EpochsOf(n) : i = 1 \/ EpochsOf(n)[i] <= e})]

\* The epochs named to ReshardingEpoch.
ReshardingEpoch(n) ==
  CASE n.kind = "mainnet"  -> {mainnetEpochs(n)[i] : i \in DOMAIN mainnetEpochs(n)}
    [] n.kind = "localnet" -> {0, 1, n.staking, n.two}
    [] n.kind = "testnet"  -> {0, n.staking, n.two}
    [] n.kind = "partner"  -> {0, n.testnetStaking}
    [] OTHER               -> {0, n.staking}

twoSecondsFirstBlock_OneEpochLate(n) ==
  IF n.two = 0 THEN 0 ELSE n.two * n.old + n.block1

twoSecondsFirstBlock(n) ==
  IF n.two = 0 THEN 0 ELSE (n.two - 1) * n.old + n.block1

\* A schedule numbers a block b (CalcEpochNumber), says whether it is the
\* last of its epoch (IsLastBlock), and gives the last block of an epoch e
\* (EpochLastBlock).  mainnet and localnet repeat one set of formulas: they
\* first number the block by the old length and look up the fork by that
\* number.
offsetSchedule(n, b, e) ==
  LET first == twoSecondsFirstBlock(n)
      old   == IF b >= n.block1 THEN (b - n.block1) \div n.old + 1 ELSE 0
  IN  [epoch |-> IF IsTwoSeconds(n, old) THEN (b - first) \div n.v2 + n.two ELSE old,
       last  |-> \/ b = n.block1 - 1
                 \/ /\ b >= n.block1
                    /\ IF b >= first THEN (b - first) % n.v2 = n.v2 - 1
                       ELSE (b - n.block1) % n.old = n.old - 1,
       end   |-> IF e = 0 THEN n.block1 - 1
                 ELSE IF IsTwoSeconds(n, e) THEN first - 1 + n.v2 * (e - n.two + 1)
                 ELSE n.block1 - 1 + n.old * e]

mainnetSchedule(n, b, e) == offsetSchedule(n, b, e)
localnetSchedule(n, b, e) == offsetSchedule(n, b, e)

testnetSchedule_Short(n, b, e) ==
  LET first == n.two * n.old
  IN  [epoch |-> IF b >= first THEN (b - first) \div n.v2 + n.two ELSE b \div n.old,
       last  |-> IF b >= first THEN (b - first) % n.v2 = n.v2 - 1
                 ELSE (b + 1) % n.old = 0,
       end   |-> IF IsTwoSeconds(n, e) THEN first - 1 + n.v2 * (e - n.two)
                 ELSE n.old * (e + 1) - 1]

testnetSchedule(n, b, e) ==
  LET first == n.two * n.old
  IN  [epoch |-> IF b >= first THEN (b - first) \div n.v2 + n.two ELSE b \div n.old,
       last  |-> IF b >= first THEN (b - first) % n.v2 = n.v2 - 1
                 ELSE (b + 1) % n.old = 0,
       end   |-> IF IsTwoSeconds(n, e) THEN first - 1 + n.v2 * (e - n.two + 1)
                 ELSE n.old * (e + 1) - 1]

\* The networks with one length of epoch.
evenSchedule(n, b, e) ==
  [epoch |-> b \div n.v2, last |-> (b + 1) % n.v2 = 0, end |-> n.v2 * (e + 1) - 1]

pangaeaSchedule(n, b, e) == evenSchedule(n, b, e)
partnerSchedule(n, b, e) == evenSchedule(n, b, e)
stressnetSchedule(n, b, e) == evenSchedule(n, b, e)
fixedSchedule(n, b, e) == evenSchedule(n, b, e)

ScheduleOf(n, b, e) ==
  CASE n.kind = "mainnet"  -> mainnetSchedule(n, b, e)
    [] n.kind = "localnet" -> localnetSchedule(n, b, e)
    [] n.kind = "testnet"  -> testnetSchedule(n, b, e)
    [] n.kind = "pangaea"  -> pangaeaSchedule(n, b, e)
    [] n.kind = "partner"  -> partnerSchedule(n, b, e)
    [] n.kind = "stress"   -> stressnetSchedule(n, b, e)
    [] n.kind = "fixed"    -> fixedSchedule(n, b, e)
CalcEpochNumber(n, b) == ScheduleOf(n, b, 0).epoch
IsLastBlock(n, b) == ScheduleOf(n, b, 0).last
EpochLastBlock(n, e) == ScheduleOf(n, 0, e).end

FindAccount_OneMore(shards, key) ==
  LET i == Min({k \in DOMAIN HmyAccounts : HmyAccounts[k] = key}) - 1
  IN  [found |-> TRUE, leader |-> i <= shards, shard |-> i % shards]

\* FindAccount: the foundation's accounts are searched first; the first of
\* them, one per shard, lead at bootstrap.  Positions count from 0.
FindAccount(shards, key) ==
  LET at(s) == Min({i \in DOMAIN s : s[i] = key}) - 1
      inSeq(s) == \E i \in DOMAIN s : s[i] = key
  IN  CASE inSeq(HmyAccounts) ->
             [found |-> TRUE, leader |-> at(HmyAccounts) < shards,
              shard |-> at(HmyAccounts) % shards]
        [] ~inSeq(HmyAccounts) /\ inSeq(FnAccounts) ->
             [found |-> TRUE, leader |-> FALSE, shard |-> at(FnAccounts) % shards]
        [] OTHER -> [found |-> FALSE, leader |-> FALSE, shard |-> 0]

\* The chain is followed from block 0, or from the first block of a later epoch.
ScheduleInit ==
  /\ network \in Networks
  /\ \E s \in network.starts : inEpoch = s[1] /\ height = s[2] /\ epochFirst = s[2]

\* The chain the schedule numbers grows by a block.
Grow ==
  LET last == IsLastBlock(network, height) IN
  /\ inEpoch \in Epochs[network.kind]
  /\ height' = height + 1
  /\ inEpoch' = IF last THEN inEpoch + 1 ELSE inEpoch
  /\ epochFirst' = IF last THEN height + 1 ELSE epochFirst
  /\ UNCHANGED network

ScheduleNext == Grow

-----------------------------------------------------------------------------
(* CalcEpochNumber, IsLastBlock and EpochLastBlock are three formulas of   *)
(* their own in every schedule.  They agree: the number of a block's epoch *)
(* is the count of the last blocks below it, across the fork that changes  *)
(* the length of an epoch.                                                 *)
EpochOfBlock == CalcEpochNumber(network, height) = inEpoch

(* EpochLastBlock(e) is the one block of epoch e for which IsLastBlock     *)
(* holds.                                                                  *)
EpochEnds ==
  IsLastBlock(network, height) <=> height = EpochLastBlock(network, inEpoch)

(* The instance of an epoch names the number of blocks the epoch really    *)
(* has; only the longer first epoch of mainnet and localnet is an          *)
(* exception.                                                              *)
EpochLength ==
  IsLastBlock(network, height) =>
    \/ height - epochFirst + 1 = InstanceForEpoch(network, inEpoch).blocks
    \/ network.kind \in Offset /\ inEpoch = 0

(* Every instance a schedule returns passed the checks of NewInstance, and *)
(* with one account of the foundation per shard at least, FindAccount      *)
(* gives every shard exactly one leader to bootstrap from.                 *)
OneLeaderPerShard ==
  LET i == InstanceForEpoch(network, inEpoch) IN
  /\ ValidInstance(i)
  /\ \A s \in 0 .. i.shards - 1 :
       Cardinality({k \in DOMAIN HmyAccounts :
                      LET a == FindAccount(i.shards, HmyAccounts[k])
                      IN  a.leader /\ a.shard = s}) = 1

(* The slots of the committees change only at an epoch the schedule lists  *)
(* as a resharding epoch.  (testnet and partner change them at epochs they *)
(* do not list: 6050, and partner's own staking epoch.)                    *)
ReshardsAsListed ==
  LET old == InstanceForEpoch(network, inEpoch - 1)
      new == InstanceForEpoch(network, inEpoch)
  IN  inEpoch > 0 /\ network.kind \notin {"testnet", "partner"}
      /\ <<old.shards, old.nodes, old.harmony>> # <<new.shards, new.nodes, new.harmony>>
      => inEpoch \in ReshardingEpoch(network)

(* The formulas of a schedule agree with each other, in every epoch.       *)
EpochsConsistent ==
  /\ EpochOfBlock /\ EpochEnds /\ EpochLength
  /\ OneLeaderPerShard /\ ReshardsAsListed
=============================================================================
