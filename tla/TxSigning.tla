------------------------------ MODULE TxSigning ------------------------------
(***************************************************************************)
(* Signing a transaction, recovering its sender, the sender that is cached *)
(* in the transaction, and the background threads that fill this cache for *)
(* a batch (core/types/transaction_signing.go, transaction.go and          *)
(* core/tx_cacher.go).                                                     *)
(*                                                                         *)
(* body stands for the fields that the signing hashes cover; R and S are   *)
(* the record of the hash and the key they were made with, None when they  *)
(* are zero.  V is a number.  The transactions of the batch are objects    *)
(* that the threads and the callers of Sender share; only the load and the *)
(* store of the cached sender are atomic.                                  *)
(***************************************************************************)
EXTENDS Integers, Sequences, FiniteSets, Absent

CONSTANTS SigKeys,      \* private keys, and the addresses they belong to
          ChainIds,     \* the chain ids of EIP155 signers
          WordBits,     \* the width of uint64
          Batches,      \* the batches of transactions, sequences
          CacherThreads,
          Feeders,      \* callers of recover: [signer |-> ...]
          Askers        \* callers of Sender: [signer |-> ...]

VARIABLES batch,    \* sequence of transactions
          senderOf, \* index -> None or [signer, from]: the field from
          feeding,  \* feeder -> None or [next, tasks]: the loop of recover
          tasks,    \* the channel
          recovers, \* cacher thread -> None or [feeder, pos, inc, addr]
          asks,     \* asker -> None or [obj, addr, from]: addr to be stored, from returned
          examined  \* history: feeder -> index -> calls of Sender

signVars == <<batch, senderOf, feeding, tasks, recovers, asks, examined>>

------------------------------------------------------------------------------
(* The signers. *)

U64 == 2 ^ WordBits

FrontierSigner == [kind |-> "frontier", chain |-> None]
HomesteadSigner == [kind |-> "homestead", chain |-> None]

\* A nil chain id is zero.
NewEIP155Signer(c) == [kind |-> "eip155", chain |-> IF c = None THEN 0 ELSE c]

MakeSigner == NewEIP155Signer(None)

TxSigners == {FrontierSigner, HomesteadSigner} \cup {NewEIP155Signer(c) : c \in ChainIds}

Addresses == SigKeys \cup {"stranger"}
SenderRecord == [signer : TxSigners, from : Addresses]
FeedRecord == [next : Nat, tasks : Nat]
ThreadRecord == [feeder : Feeders, pos : Nat, inc : Nat, addr : Addresses \cup {None}]
AskRecord == [obj : Nat, addr : Addresses \cup {None}, from : Addresses \cup {None}]

\* Mutant: EIP155 signers are told apart by their type only.
Equal_Kind(s, t) == s.kind = t.kind

Equal(s, t) == s.kind = t.kind /\ (s.kind = "eip155" => s.chain = t.chain)

\* The hash to be signed: the EIP155 one covers the chain id too.
SigHash(s, body) == [body |-> body, chain |-> s.chain]

\* crypto.Sign: either parity, and always the lower of the two values of S.
CryptoSign(h, k) == {[hash |-> h, key |-> k, parity |-> p, low |-> TRUE] : p \in {0, 1}}

\* A word is wide enough for a V without chain id, signatures come from keys, and None stands
\* for none of the records.
ASSUME SignAssumption ==
  /\ U64 \in Nat /\ U64 >= 64 /\ ChainIds \subseteq Nat /\ CacherThreads \in Nat \ {0}
  /\ \A c \in Feeders \cup Askers : c.signer \in TxSigners
  /\ \A b \in Batches : Len(b) \in Nat /\ \A o \in 1..Len(b) :
       b[o].v \in Nat /\ (b[o].sig # None => b[o].sig.key \in SigKeys)
       /\ \A s \in TxSigners, k \in SigKeys : None \notin CryptoSign(SigHash(s, b[o].body), k)
  /\ None \notin Addresses /\ None \notin SenderRecord /\ None \notin FeedRecord
  /\ None \notin ThreadRecord /\ None \notin AskRecord

ValidateSignatureValues(v, sig, homestead) == sig # None /\ v \in {0, 1} /\ (homestead => sig.low)

\* crypto.Ecrecover: another hash or parity gives an address that nobody has a key of.
Ecrecover(h, sig, v) == IF sig.hash = h /\ sig.parity = v THEN sig.key ELSE "stranger"

\* V of a signature.
SignatureValues(s, parity) ==
  IF s.kind = "eip155" /\ s.chain # 0 THEN parity + 35 + 2 * s.chain ELSE parity + 27

\* SignTx and WithSignature: the transactions that signing may give.
SignTx(body, s, k) ==
  {[body |-> body, v |-> SignatureValues(s, sig.parity), sig |-> sig] : sig \in CryptoSign(SigHash(s, body), k)}

\* newTransaction: not signed.
NewTransaction(body) == [body |-> body, v |-> 0, sig |-> None]

isProtectedV(v) == v \notin {27, 28}

\* Mutant: V is taken modulo the word whatever its length is.
deriveChainID_Word(v) == IF v % U64 \in {27, 28} THEN 0 ELSE ((v - 35) % U64) \div 2

\* uint64 arithmetic, which wraps below 35, for a V of at most 64 bits.
deriveChainID(v) ==
  IF v < U64 THEN IF v \in {27, 28} THEN 0 ELSE ((v - 35) % U64) \div 2
  ELSE (v - 35) \div 2

\* None is an error.
recoverPlain(h, sig, vb, homestead) ==
  LET size == IF vb < 0 THEN -vb ELSE vb
      v == (size - 27) % 256
  IN  IF size >= 256 \/ ~ValidateSignatureValues(v, sig, homestead) THEN None
      ELSE Ecrecover(h, sig, v)

\* Signer.Sender of the three signers.
SignerSender(s, tx) ==
  IF s.kind = "frontier" THEN recoverPlain(SigHash(s, tx.body), tx.sig, tx.v, FALSE)
  ELSE IF s.kind = "homestead" \/ ~isProtectedV(tx.v)
       THEN recoverPlain(SigHash(HomesteadSigner, tx.body), tx.sig, tx.v, TRUE)
       ELSE IF deriveChainID(tx.v) # s.chain THEN None
            ELSE recoverPlain(SigHash(s, tx.body), tx.sig, tx.v - 2 * s.chain - 8, TRUE)

\* Mutant: the parity is looked for in a V of chain id zero.
UnmarshalJSON_NoChain(tx) ==
  (tx.v # 0 \/ tx.sig # None)
  => ValidateSignatureValues((IF isProtectedV(tx.v) THEN tx.v - 35 ELSE tx.v - 27) % 256, tx.sig, FALSE)

\* UnmarshalJSON accepts the transaction.
UnmarshalJSON(tx) ==
  LET v == IF isProtectedV(tx.v) THEN (tx.v - 35 - 2 * deriveChainID(tx.v)) % U64 ELSE tx.v - 27
  IN  (tx.v # 0 \/ tx.sig # None) => ValidateSignatureValues(v % 256, tx.sig, FALSE)

------------------------------------------------------------------------------
(* Sender, in two steps: a look at the cache, and the store of what was    *)
(* recovered.                                                              *)

Objs == 1..Len(batch)

\* The cached sender that the call returns at once.
Cached(s, o) == senderOf[o] # None /\ Equal(senderOf[o].signer, s)

Ask(a) ==
  /\ asks[a] = None
  /\ \E o \in Objs :
       asks' = [asks EXCEPT ![a] =
                  IF Cached(a.signer, o) THEN [obj |-> o, addr |-> None, from |-> senderOf[o].from]
                  ELSE LET addr == SignerSender(a.signer, batch[o])
                       IN  [obj |-> o, addr |-> addr, from |-> None]]
  /\ UNCHANGED <<batch, senderOf, feeding, tasks, recovers, examined>>

AskStores(a) ==
  /\ asks[a] # None /\ asks[a].addr # None
  /\ senderOf' = [senderOf EXCEPT ![asks[a].obj] = [signer |-> a.signer, from |-> asks[a].addr]]
  /\ asks' = [asks EXCEPT ![a] = [obj |-> asks[a].obj, addr |-> None, from |-> asks[a].addr]]
  /\ UNCHANGED <<batch, feeding, tasks, recovers, examined>>

AskReturns(a) ==
  /\ asks[a] # None /\ asks[a].addr = None
  /\ asks' = [asks EXCEPT ![a] = None]
  /\ UNCHANGED <<batch, senderOf, feeding, tasks, recovers, examined>>

------------------------------------------------------------------------------
(* txSenderCacher. *)

\* Mutant: a batch that is smaller than a task is left out.
TaskCount_Whole(n) == IF n < CacherThreads * 4 THEN n \div 4 ELSE CacherThreads

\* The number of tasks that recover splits n transactions into.
TaskCount(n) == IF n < CacherThreads * 4 THEN (n + 3) \div 4 ELSE CacherThreads

\* recover has returned.
RecoverReturned == [next |-> 0, tasks |-> 0]

Recover(f) ==
  /\ feeding[f] = None
  /\ feeding' = [feeding EXCEPT ![f] = IF Len(batch) = 0 THEN RecoverReturned ELSE [next |-> 1, tasks |-> TaskCount(Len(batch))]]
  /\ UNCHANGED <<batch, senderOf, tasks, recovers, asks, examined>>

\* The loop of recover: the channel holds as many tasks as there are threads.
RecoverSends(f) ==
  /\ feeding[f] \notin {None, RecoverReturned}
  /\ IF feeding[f].next > feeding[f].tasks
     THEN feeding' = [feeding EXCEPT ![f] = RecoverReturned] /\ UNCHANGED tasks
     ELSE /\ Len(tasks) < CacherThreads
          /\ tasks' = Append(tasks, [feeder |-> f, pos |-> feeding[f].next, inc |-> feeding[f].tasks])
          /\ feeding' = [feeding EXCEPT ![f] = [next |-> feeding[f].next + 1, tasks |-> feeding[f].tasks]]
  /\ UNCHANGED <<batch, senderOf, recovers, asks, examined>>

\* A thread with the task r, at the transaction pos, and with the sender addr to be stored.
RecoverAt(r, pos, addr) == [feeder |-> r.feeder, pos |-> pos, inc |-> r.inc, addr |-> addr]

CacheTakes(w) ==
  /\ recovers[w] = None /\ tasks # <<>>
  /\ recovers' = [recovers EXCEPT ![w] = RecoverAt(Head(tasks), Head(tasks).pos, None)]
  /\ tasks' = Tail(tasks)
  /\ UNCHANGED <<batch, senderOf, feeding, asks, examined>>

\* Mutant: every thread goes over all that follows its first transaction.
NextPos_Each(r) == r.pos + 1

NextPos(r) == r.pos + r.inc

\* Mutant: a thread does not look for the end of the batch.
Advanced_NoEnd(w) ==
  recovers' = [recovers EXCEPT ![w] = RecoverAt(recovers[w], NextPos(recovers[w]), None)]

\* The thread is done with the transaction at its place.
Advanced(w) ==
  LET r == RecoverAt(recovers[w], NextPos(recovers[w]), None)
  IN  recovers' = [recovers EXCEPT ![w] = IF r.pos > Len(batch) THEN None ELSE r]

CacheLooks(w) ==
  /\ recovers[w] # None /\ recovers[w].addr = None
  /\ LET r == recovers[w]
         s == r.feeder.signer
         addr == SignerSender(s, batch[r.pos])
     IN  /\ examined' = [examined EXCEPT ![r.feeder] = [examined[r.feeder] EXCEPT ![r.pos] = @ + 1]]
         /\ IF Cached(s, r.pos) \/ addr = None THEN Advanced(w)
            ELSE recovers' = [recovers EXCEPT ![w] = RecoverAt(r, r.pos, addr)]
  /\ UNCHANGED <<batch, senderOf, feeding, tasks, asks>>

CacheStores(w) ==
  /\ recovers[w] # None /\ recovers[w].addr # None
  /\ senderOf' = [senderOf EXCEPT ![recovers[w].pos] =
                    [signer |-> recovers[w].feeder.signer, from |-> recovers[w].addr]]
  /\ Advanced(w)
  /\ UNCHANGED <<batch, feeding, tasks, asks, examined>>

SignInit ==
  /\ batch \in Batches
  /\ senderOf = [o \in 1..Len(batch) |-> None]
  /\ feeding = [f \in Feeders |-> None] /\ tasks = <<>>
  /\ recovers = [w \in 1..CacherThreads |-> None]
  /\ asks = [a \in Askers |-> None]
  /\ examined = [f \in Feeders |-> [o \in 1..Len(batch) |-> 0]]

CacherNext ==
  \/ \E f \in Feeders : Recover(f) \/ RecoverSends(f)
  \/ \E w \in 1..CacherThreads : CacheTakes(w) \/ CacheLooks(w) \/ CacheStores(w)

AskNext == \E a \in Askers : Ask(a) \/ AskStores(a) \/ AskReturns(a)

SignNext == CacherNext \/ AskNext

\* The threads run, and recover goes on when the channel has room.
SignFairness ==
  /\ \A f \in Feeders : WF_signVars(RecoverSends(f))
  /\ \A w \in 1..CacherThreads : WF_signVars(CacheTakes(w)) /\ WF_signVars(CacheLooks(w) \/ CacheStores(w))

SignSpec == SignInit /\ [][SignNext]_signVars /\ SignFairness

------------------------------------------------------------------------------
(* Properties. *)

\* What is cached and returned is an address, a thread is at a transaction of the batch,
\* and the channel has no more tasks than threads.
SignTypeOK ==
  /\ \A o \in Objs : senderOf[o] # None => senderOf[o].signer \in TxSigners /\ senderOf[o].from \in Addresses
  /\ \A a \in Askers : asks[a] # None => asks[a].obj \in Objs /\ {asks[a].addr, asks[a].from} \subseteq Addresses \cup {None}
  /\ \A w \in 1..CacherThreads : recovers[w] # None => recovers[w].pos \in Objs /\ recovers[w].addr \in Addresses \cup {None}
  /\ Len(tasks) <= CacherThreads

\* A transaction that SignTx made is recovered to its signer by the same signer, for a
\* chain id of any length.  The exception is chain id zero, whose V says that the hash
\* does not cover the chain.
RecoversSigner ==
  \A o \in Objs : \A s \in TxSigners \ {NewEIP155Signer(0)}, k \in SigKeys :
    batch[o] \in SignTx(batch[o].body, s, k) => SignerSender(s, batch[o]) = k

\* A transaction with a sender for some signer can be read from its JSON form.
JSONAccepts ==
  \A o \in Objs : (\E s \in TxSigners : SignerSender(s, batch[o]) # None) => UnmarshalJSON(batch[o])

\* The answer of Sender is what the signer itself recovers: a sender that was cached by
\* another thread for another signer is never returned.
AnswersRecovered ==
  \A a \in Askers : asks[a] # None /\ asks[a].addr = None
                    => asks[a].from = SignerSender(a.signer, batch[asks[a].obj])

\* The tasks of recover do not overlap: no transaction is recovered twice for one call.
RecoveredOnce == \A f \in Feeders : \A o \in Objs : examined[f][o] <= 1

\* Every transaction of a batch given to recover is looked at, and recover returns.
BatchRecovered ==
  \A f \in Feeders :
    feeding[f] # None ~> feeding[f] = RecoverReturned /\ \A o \in Objs : examined[f][o] > 0

\* What Sender returns and caches is the address that signed, for whichever
\* signer and thread.
SendersConsistent == SignTypeOK /\ RecoversSigner /\ JSONAccepts /\ AnswersRecovered /\ RecoveredOnce
=============================================================================
