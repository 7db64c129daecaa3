------------------------------- MODULE Roster -------------------------------
(***************************************************************************)
(* The voting power of a committee (consensus/votepower/roster.go) and the *)
(* order of its members (cIdentities of consensus/quorum/quorum.go).  A    *)
(* committee is put together slot by slot; what Compute and the rotation   *)
(* make of it is checked in every state.  numeric.Dec is a fixed-point     *)
(* number of 18 digits; here One units make up 1.                          *)
(***************************************************************************)
EXTENDS Integers, Sequences, SequencesExt, FiniteSets, FiniteSetsExt

CONSTANTS
  SlotKeys,       \* the BLS keys of the slots
  AddressOf,      \* the account that earns for each key
  Stakes,         \* the effective stakes of a slot; 0 is nil, the foundation's
  One,            \* the units of numeric.OneDec
  HarmonyPercent, \* HarmonyVotePercent of the epoch's instance, in units
  MaxSlots        \* bound: the slots of the committee

VARIABLES
  subComm,      \* subComm.Slots
  incident        \* the epoch lies in the recovery window of testnet

rosterVars == <<subComm, incident>>

\* numeric.Dec rounds the last digit half to even.
RoundDiv(n, d) ==
  LET q == n \div d
      r == n % d
  IN  IF 2 * r > d \/ (2 * r = d /\ q % 2 = 1) THEN q + 1 ELSE q
Quo(a, b) == RoundDiv(a * One, b)
Mul(a, b) == RoundDiv(a * b, One)

SumOf(f(_), S) == MapThenSumSet(f, S)

\* The recovery window of testnet gives the two groups 0.70 and 0.40.
OurShare == IF incident THEN (70 * One) \div 100 ELSE HarmonyPercent
TheirShare == IF incident THEN (40 * One) \div 100 ELSE One - HarmonyPercent

Staked(slots) == {i \in DOMAIN slots : slots[i].stake # 0}
HMYSlotCount(slots) == Cardinality(DOMAIN slots \ Staked(slots))
TotalEffectiveStake(slots) == SumOf(LAMBDA i : slots[i].stake, Staked(slots))

\* The OverallPercent of every slot, before the difference is given away.
SlotPercent_OfAll(slots) ==
  [i \in DOMAIN slots |->
     IF i \in Staked(slots)
     THEN Mul(Quo(slots[i].stake, TotalEffectiveStake(slots)), TheirShare)
     ELSE Quo(OurShare, Len(slots) * One)]

SlotPercent(slots) ==
  [i \in DOMAIN slots |->
     IF i \in Staked(slots)
     THEN Mul(Quo(slots[i].stake, TotalEffectiveStake(slots)), TheirShare)
     ELSE Quo(OurShare, HMYSlotCount(slots) * One)]

Difference(slots) ==
  One - SumOf(LAMBDA i : SlotPercent(slots)[i], DOMAIN slots)

\* The slot that takes the difference: the last staked one, unless there is
\* none or the epoch is exempt.
TakesDifference_Never(slots) == {}

TakesDifference_First(slots) == IF incident \/ Staked(slots) = {} THEN {} ELSE {1}

TakesDifference(slots) ==
  IF incident \/ Staked(slots) = {} THEN {} ELSE {Max(Staked(slots))}

\* Compute.  The map of voters keeps the first slot of a key; the difference
\* goes to the member of the last staked slot, in the map or not.
Compute(slots) ==
  LET final  == [i \in DOMAIN slots |->
                   SlotPercent(slots)[i]
                   + (IF i \in TakesDifference(slots) THEN Difference(slots) ELSE 0)]
      slotOf(k) == Min({i \in DOMAIN slots : slots[i].key = k})
      total(S)  == SumOf(LAMBDA i : SlotPercent(slots)[i], S)
      ours      == total(DOMAIN slots \ Staked(slots))
      theirs    == total(Staked(slots))
                   + (IF TakesDifference(slots) = {} THEN 0 ELSE Difference(slots))
  IN  [voters |-> [k \in {slots[i].key : i \in DOMAIN slots} |->
                     [percent |-> final[slotOf(k)],
                      harmony |-> slotOf(k) \notin Staked(slots)]],
       ours   |-> ours,
       theirs |-> theirs,
       err    |-> ~incident /\ Staked(slots) # {} /\ ours + theirs # One]

\* AggregateRosters: the external votes of an account, shard by shard in
\* the order of the shard numbers (within a shard the order of a map).
AggregateRosters(rosters) ==
  LET inOrder == SortSeq(rosters, LAMBDA r, s : r.shard < s.shard)
  IN  [a \in {AddressOf[k] : k \in SlotKeys} |->
         [j \in DOMAIN inOrder |->
            {k \in DOMAIN inOrder[j].voters :
               AddressOf[k] = a /\ ~inOrder[j].voters[k].harmony}]]

\* UpdateParticipants: a key's index is the last place it was seen at.
IndexOf(keys, k) ==
  IF \E i \in DOMAIN keys : keys[i] = k
  THEN Max({i \in DOMAIN keys : keys[i] = k}) - 1 ELSE -1

\* The % of Go keeps the sign of the dividend; a negative index panics.
GoMod(a, n) == IF a >= 0 THEN a % n ELSE -((-a) % n)

\* NthNext, and NthNextHmy within the first numNodes members.
NthNext_SkipsLast(keys, numNodes, k, next) ==
  LET n == IF numNodes <= 0 \/ numNodes > Len(keys) THEN Len(keys) ELSE numNodes
  IN  GoMod(IndexOf(keys, k) + next, IF n > 1 THEN n - 1 ELSE n)

NthNext(keys, numNodes, k, next) ==
  LET n == IF numNodes <= 0 \/ numNodes > Len(keys) THEN Len(keys) ELSE numNodes
  IN  GoMod(IndexOf(keys, k) + next, n)

Participants == [i \in DOMAIN subComm |-> subComm[i].key]

RosterInit == subComm = << >> /\ incident \in BOOLEAN

\* The election puts one more slot into the committee.
AddSlot(k, e) ==
  /\ Len(subComm) < MaxSlots
  /\ subComm' = Append(subComm, [key |-> k, stake |-> e])
  /\ UNCHANGED incident

RosterNext == \E k \in SlotKeys, e \in Stakes : AddSlot(k, e)

-----------------------------------------------------------------------------
DistinctKeys == IsInjective(Participants)

(* Outside the recovery window a committee with a staked member and no key *)
(* twice has a voting power of exactly one in its map of voters, whatever  *)
(* the rounding of each share was, and Compute does not fail.              *)
PowerSumsToOne ==
  DistinctKeys /\ Staked(subComm) # {} /\ ~incident =>
    LET r == Compute(subComm) IN
    /\ SumOf(LAMBDA k : r.voters[k].percent, DOMAIN r.voters) = One
    /\ ~r.err

(* The difference that Compute gives to the last staked voter is a         *)
(* rounding error, less than one unit for each slot, when both groups have *)
(* a slot.  (With no slot of the foundation it is the whole HarmonyPercent.) *)
DifferenceIsTiny ==
  ~incident /\ Staked(subComm) \notin {{}, DOMAIN subComm} =>
    Difference(subComm) \in -Len(subComm) .. Len(subComm)

(* The totals of the roster are the sums over its voters, and every vote   *)
(* that is not the foundation's is aggregated once under its account, in   *)
(* the shard it was given in.                                              *)
TotalsMatchVoters ==
  DistinctKeys =>
    LET r == Compute(subComm)
        power(S) == SumOf(LAMBDA k : r.voters[k].percent, S)
        other == Compute(Reverse(subComm))
        agg == AggregateRosters(<<[shard |-> 1, voters |-> r.voters],
                                  [shard |-> 0, voters |-> other.voters]>>)
        external == {k \in DOMAIN r.voters : ~r.voters[k].harmony}
    IN  /\ r.theirs = power(external)
        /\ r.ours = power(DOMAIN r.voters \ external)
        /\ \A a \in DOMAIN agg : agg[a][2] = {k \in external : AddressOf[k] = a}

(* Rotating from a member with NthNext reaches every member once before it *)
(* returns to the first, also within the first members only (NthNextHmy).  *)
RotationCovers ==
  DistinctKeys =>
    \A numNodes \in 0 .. Len(subComm) + 1, i \in DOMAIN subComm :
      LET n == IF numNodes \in DOMAIN subComm THEN numNodes ELSE Len(subComm)
          at(next) == NthNext(Participants, numNodes, Participants[i], next)
      IN  {at(next) : next \in 1 .. n} = 0 .. n - 1 /\ at(n) = (i - 1) % n

(* What Compute, AggregateRosters and NthNext give for a committee is      *)
(* complete: no power and no member is lost or counted twice.              *)
RosterConsistent ==
  PowerSumsToOne /\ DifferenceIsTiny /\ TotalsMatchVoters /\ RotationCovers
=============================================================================
