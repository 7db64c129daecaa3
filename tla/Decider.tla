------------------------------- MODULE Decider -------------------------------
(***************************************************************************)
(* The vote bookkeeping of consensus/quorum: one ballot box per phase,     *)
(* filled by submitVote, counted by IsQuorumAchieved and turned into one   *)
(* aggregated signature by AggregateVotes (policy SuperMajorityVote, the   *)
(* only one NewDecider builds).                                            *)
(*                                                                         *)
(* A ballot is the multi-signature of one message: the keys that signed    *)
(* and what they signed.  A ballot box maps every committee key to the     *)
(* ballot recorded for it, or to NoBallot.                                 *)
(***************************************************************************)
EXTENDS Integers, FiniteSets

CONSTANTS
  Keys,      \* BLS public keys of the committee (cIdentities.publicKeys)
  NoBallot   \* what ReadBallot returns for a key that has not voted (nil)

ASSUME KeysAssumption == IsFiniteSet(Keys) /\ Keys # {}

\* TwoThirdsSignersCount: integer division, then one more.
TwoThirdsSignersCount == (Cardinality(Keys) * 2) \div 3 + 1

\* ReadBallot.
ReadBallot(box, k) == box[k]

\* The keys that have a ballot; SignersCount is the size of the map.
Voted(box) == {k \in Keys : ReadBallot(box, k) # NoBallot}

SignersCount(box) == Cardinality(Voted(box))

\* Mutant: one signature short.
IsQuorumAchieved_OneShort(box) == SignersCount(box) + 1 >= TwoThirdsSignersCount

IsQuorumAchieved(box) == SignersCount(box) >= TwoThirdsSignersCount

IsAllSigsCollected(box) == SignersCount(box) = Cardinality(Keys)

\* IsQuorumAchievedByMask counts the bits of a bitmap, not the ballots.
IsQuorumAchievedByMask(bitmap) == Cardinality(bitmap) >= TwoThirdsSignersCount

\* reset: a new, empty round.
EmptyBox == [k \in Keys |-> NoBallot]

\* submitVote refuses the whole message when one of its keys has voted ...
CanSubmit(box, signers) == \A k \in signers : ReadBallot(box, k) = NoBallot

\* ... and otherwise records the same ballot under each of its keys.
submitVote(box, ballot) ==
  [k \in Keys |-> IF k \in ballot.signers THEN ballot ELSE box[k]]

\* A box that submitVote alone has filled: a key's ballot names the key, and
\* is recorded for every key it names.
Coherent(box) ==
  \A k \in Voted(box) :
    /\ k \in box[k].signers
    /\ \A j \in box[k].signers : j \in Keys /\ box[j] = box[k]

\* ReadAllBallots: the values of the map (a multi-key ballot occurs once per
\* key in the slice; as a set, once).
ReadAllBallots(box) == {box[k] : k \in Voted(box)}

\* AggregateVotes walks the map in an arbitrary order and adds the signature
\* of a ballot unless one of its keys is already covered.  The outcomes are
\* the maximal sets of ballots that share no key.
Overlap(b, c) == b.signers \cap c.signers # {}

AggregateVotes(box) ==
  LET all == ReadAllBallots(box)
  IN {S \in SUBSET all :
        /\ \A b, c \in S : b # c => ~Overlap(b, c)
        /\ \A b \in all \ S : \E c \in S : Overlap(b, c)}

\* The keys whose signatures an aggregate contains.
SignersOf(agg) == UNION {b.signers : b \in agg}

\* Sign.VerifyHash on an aggregate: it is valid for the public keys of a
\* bitmap and one message exactly when the bitmap names the keys that signed
\* and every one of them signed that message.
VerifyHash(agg, bitmap, hash) ==
  /\ SignersOf(agg) = bitmap
  /\ \A b \in agg : b.hash = hash
==============================================================================
