---------------------------- MODULE TxAPIProofs ----------------------------
(***************************************************************************)
(* Sending transactions by RPC, for every set of accounts, any number of   *)
(* calls with any arguments, and any interleaving of the calls, of the     *)
(* pool's reorganisations and of new heads: two calls that leave the nonce *)
(* to the node and are both accepted get different nonces, but for the two *)
(* exceptions that TxAPI names.                                            *)
(*                                                                         *)
(* What an address's mutex protects is not a lock-to-lock critical section *)
(* over one variable: the nonce that a call reads is the virtual nonce     *)
(* that the promotion writes after the call has put its transaction in the *)
(* queue. The invariant therefore follows a transaction from the queue to  *)
(* the pending list and says, of a calm account, that the pending list is  *)
(* a run of nonces from the state's up to the virtual one.                 *)
(***************************************************************************)
EXTENDS TxAPI, WellFoundedInduction, TLAPS

\* The records of the variables.
Pcs == {"find", "lock", "defaults", "sign", "add", "locked", "promote", "reorg", "wait", "submitted", "done"}
CallRecord == [pc : Pcs, tx : TxRecord \cup {None}, err : BOOLEAN]
NextRecord == [dirty : SUBSET SigKeys, waits : SUBSET Requests, reset : BOOLEAN]

\* The types of the variables.
APIShape ==
  /\ args \in [Requests -> CallArgs] /\ rpc \in [Requests -> CallRecord]
  /\ addrMu \in [SigKeys -> Requests \cup {None}]
  /\ pend \in [SigKeys -> SUBSET TxRecord] /\ que \in [SigKeys -> SUBSET TxRecord]
  /\ headNonce \in [SigKeys -> Nat] /\ pendNonce \in [SigKeys -> Nat] /\ chainNonce \in [SigKeys -> Nat]
  /\ nextRun \in NextRecord /\ curRun \in RunRecord \cup {None}
  /\ accepted \subseteq Requests /\ merged \in BOOLEAN

\* Where a call that leaves the nonce to the node holds the mutex of its address.
Holds == {"defaults", "sign", "add", "locked", "promote", "reorg", "wait", "submitted"}
Mutexes ==
  /\ \A r \in Requests : args[r].nonce = None /\ rpc[r].pc \in Holds => addrMu[args[r].from] = r
  /\ \A a \in SigKeys : addrMu[a] # None =>
       args[addrMu[a]].from = a /\ args[addrMu[a]].nonce = None /\ rpc[addrMu[a]].pc \in Holds

\* What a call has made of its arguments, and what it knows of the pool's answer.
Made == {"sign", "add", "locked"}
AnswerOf(r) ==
  /\ rpc[r].pc \in Made \cup {"promote", "reorg", "wait", "submitted"} \/ r \in accepted
       => rpc[r].tx # None /\ rpc[r].tx = toTransaction(r, rpc[r].tx.nonce)
          /\ (args[r].nonce # None => rpc[r].tx.nonce = args[r].nonce)
  /\ rpc[r].pc \in {"find", "lock", "defaults"} \cup Made => r \notin accepted
  /\ rpc[r].pc \in {"promote", "reorg", "wait", "submitted"} => (r \in accepted <=> ~rpc[r].err)
  /\ (rpc[r].pc = "promote" => r \in accepted) /\ (rpc[r].pc = "lock" => args[r].nonce = None)
  /\ rpc[r].pc = "done" /\ args[r].to => (r \in accepted <=> ~rpc[r].err)
Answers == \A r \in Requests : AnswerOf(r)

\* The lists of an address: one transaction per nonce, bounded nonces, and the virtual nonce.
Lists(a) ==
  /\ \A t \in pend[a] \cup que[a] : t.from = a
  /\ pend[a] \cap que[a] = {}
  /\ \A t, u \in pend[a] \cup que[a] : t # u => t.nonce # u.nonce
  /\ \E b \in Nat : \A t \in pend[a] \cup que[a] : t.nonce <= b
  /\ pend[a] # {} => pendNonce[a] = Max(Nonces(pend[a])) + 1

\* The call waits for a promotion of its account that is to come.
Pending(r) ==
  \/ At(r, "promote")
  \/ /\ At(r, "wait")
     /\ \/ r \in nextRun.waits /\ args[r].from \in nextRun.dirty
        \/ curRun # None /\ r \in curRun.waits /\ args[r].from \in curRun.dirty /\ ~curRun.ran

Calm(a) == ~merged /\ (ByHand(a) = {} \/ Limited(a) = {})

\* The pending transactions follow one another up to the virtual nonce, the others come after.
Chunk(a) ==
  /\ headNonce[a] <= chainNonce[a] /\ chainNonce[a] <= pendNonce[a]
  /\ \A t \in pend[a] : headNonce[a] <= t.nonce /\ t.nonce < pendNonce[a] /\ t.gas = 0
  /\ \A n \in headNonce[a]..(pendNonce[a] - 1) : \E t \in pend[a] : t.nonce = n
  /\ \A t \in que[a] : t.nonce >= pendNonce[a]

\* What is in the queue has a nonce that was given by hand, or its call waits for the promotion.
Source(a) ==
  \A t \in que[a] :
    (\E r \in ByHand(a) : args[r].nonce = t.nonce) \/ (\E r \in accepted : rpc[r].tx = t /\ args[r].nonce = None /\ Pending(r) /\ t.nonce = pendNonce[a])

\* A nonce that the node gave is not above the virtual one.
Given(a) ==
  \A r \in Requests : args[r].from = a /\ args[r].nonce = None /\ rpc[r].pc \in Made =>
    /\ rpc[r].tx.nonce <= pendNonce[a]
    /\ ByHand(a) = {} => rpc[r].tx.nonce = pendNonce[a]

AutoOf(r, a) == Automatic(r) /\ args[r].from = a

\* What was accepted is promoted, or will be before its call returns.
Promoted(a) ==
  \A r \in accepted : AutoOf(r, a) /\ ~Disturbed(a, rpc[r].tx.nonce) =>
    \/ rpc[r].tx.nonce < pendNonce[a]
    \/ Pending(r) /\ rpc[r].tx \in que[a] /\ rpc[r].tx.nonce = pendNonce[a]

\* A call that has its nonce is ahead of all that were accepted before.
AheadOf(a) ==
  \A q \in Requests, r \in accepted :
    AutoOf(q, a) /\ rpc[q].pc \in Made /\ AutoOf(r, a) /\ ~Disturbed(a, rpc[r].tx.nonce)
      => rpc[r].tx.nonce < rpc[q].tx.nonce

Differ(a) ==
  \A r, q \in accepted : r # q /\ AutoOf(r, a) /\ AutoOf(q, a) /\ rpc[r].tx.nonce = rpc[q].tx.nonce
    => Disturbed(a, rpc[r].tx.nonce)

Orderly(a) == Chunk(a) /\ Source(a) /\ Given(a) /\ Promoted(a) /\ AheadOf(a) /\ Differ(a)

\* Who waits for a run waits for one; a reset with somebody waiting is what merged records.
Waiting ==
  /\ \A r \in nextRun.waits : At(r, "wait")
  /\ curRun # None => /\ \A r \in curRun.waits : At(r, "wait") /\ r \notin nextRun.waits
                      /\ ~merged /\ curRun.reset => curRun.waits = {}

APIInv ==
  /\ APIShape /\ Mutexes /\ Answers /\ Waiting
  /\ \A a \in SigKeys : Lists(a) /\ (Calm(a) => Orderly(a))

------------------------------------------------------------------------------
(* Least and greatest elements. *)

\* A set of naturals has a least element.
LEMMA LeastNat == ASSUME NEW S \in SUBSET Nat, S # {} PROVE \E n \in S : \A m \in S : n <= m
  <1> DEFINE R == OpToRel(<, Nat)
  <1>1. IsWellFoundedOn(R, Nat)
    BY NatLessThanWellFounded
  <1>2. PICK x \in S : \A y \in S : ~ (<<y, x>> \in R)
    BY <1>1, WFMin
  <1>3. \A y \in S : ~ (y < x)
    BY <1>2 DEF OpToRel
  <1> QED
    BY <1>3

\* Min and Max of a bounded set of naturals.
LEMMA MinIs ==
  ASSUME NEW S \in SUBSET Nat, S # {} PROVE Min(S) \in S /\ \A y \in S : Min(S) <= y
  BY Zenon, LeastNat DEF Min

\* A bounded set of numbers that is not empty has its maximum among its elements: the last nonce of
\* a list exists.
LEMMA MaxIs ==
  ASSUME NEW S \in SUBSET Nat, S # {}, NEW b \in Nat, \A y \in S : y <= b
  PROVE  Max(S) \in S /\ \A y \in S : y <= Max(S)
  <1> DEFINE T == {b - s : s \in S}
  <1>1. \A s \in S : b - s \in Nat
    OBVIOUS
  <1>2. T \in SUBSET Nat
    BY <1>1
  <1>3. T # {}
    OBVIOUS
  <1>4. PICK d \in T : \A m \in T : d <= m
    BY <1>2, <1>3, LeastNat
  <1>5. PICK n \in S : d = b - n
    BY <1>4
  <1>6. \A m \in S : m <= n
    <2> TAKE m \in S
    <2>1. b - m \in T
      OBVIOUS
    <2>2. b - n <= b - m
      BY <2>1, <1>4, <1>5
    <2> QED
      BY <2>2
  <1>7. \E x \in S : \A y \in S : x >= y
    BY <1>6
  <1>8. Max(S) \in S /\ \A y \in S : Max(S) >= y
    BY Zenon, <1>7 DEF Max
  <1> QED
    BY <1>8

\* The maximum is the only element with nothing above it.
LEMMA MaxUnique ==
  ASSUME NEW S \in SUBSET Nat, NEW m \in S, \A y \in S : y <= m PROVE Max(S) = m
  <1>1. m \in Nat /\ S # {}
    OBVIOUS
  <1>2. Max(S) \in S /\ \A y \in S : y <= Max(S)
    BY Zenon, <1>1, MaxIs
  <1>3. Max(S) \in Nat /\ m <= Max(S) /\ Max(S) <= m
    BY Zenon, <1>2
  <1> QED
    BY <1>1, <1>3

------------------------------------------------------------------------------
(* What the pool makes of the lists of an account. *)

\* The transactions of lists are transactions with bounded nonces.
LEMMA ListTypes ==
  ASSUME APIShape, NEW a \in SigKeys
  PROVE  /\ pend[a] \subseteq TxRecord /\ que[a] \subseteq TxRecord
         /\ headNonce[a] \in Nat /\ pendNonce[a] \in Nat /\ chainNonce[a] \in Nat
  BY Zenon DEF APIShape

\* The fields of a transaction.
LEMMA TxFields == \A t \in TxRecord : t.nonce \in Nat /\ t.gas \in Nat /\ t.price \in Nat /\ t.from \in SigKeys
  BY DEF TxRecord

\* The nonces of a list are numbers.
LEMMA NoncesIn == ASSUME NEW list, list \subseteq TxRecord PROVE Nonces(list) \in SUBSET Nat /\ (list # {} => Nonces(list) # {})
  BY TxFields DEF Nonces

\* txSortedMap.Ready, for a list that begins at start.
LEMMA ReadyIs ==
  ASSUME NEW list, list \subseteq TxRecord, NEW start \in Nat, \A t \in list : t.nonce >= start
  PROVE  ReadyTxs(list, start) =
           {t \in list : \A n \in start..t.nonce : \E u \in list : u.nonce = n}
  <1> DEFINE m == Min(Nonces(list))
  <1>1. CASE list = {}
    BY <1>1 DEF ReadyTxs
  <1>2. CASE list # {}
    <2>1. Nonces(list) \in SUBSET Nat /\ Nonces(list) # {}
      BY Zenon, <1>2, NoncesIn
    <2>2. m \in Nonces(list) /\ \A y \in Nonces(list) : m <= y
      BY Zenon, <2>1, MinIs
    <2>3. PICK first \in list : first.nonce = m
      BY <2>2 DEF Nonces
    <2>4. m \in Nat /\ m >= start /\ \A t \in list : t.nonce \in Nat /\ m <= t.nonce
      BY <2>1, <2>2, <2>3, TxFields DEF Nonces
    <2> HIDE DEF m
    <2>5. CASE m > start
      <3>1. ReadyTxs(list, start) = {}
        BY Zenon, <2>5 DEF ReadyTxs, m
      <3>2. \A t \in list : start \in start..t.nonce /\ ~ \E u \in list : u.nonce = start
        BY <2>4, <2>5
      <3> QED
        BY Zenon, <3>1, <3>2
    <2>6. CASE m = start
      <3>1. ~(m > start)
        BY <2>6
      <3>2. ReadyTxs(list, start) = {t \in list : start..t.nonce \subseteq Nonces(list)}
        BY Zenon, <1>2, <2>6, <3>1 DEF ReadyTxs, m
      <3> QED
        BY Zenon, <3>2 DEF Nonces
    <2> QED
      BY <2>4, <2>5, <2>6
  <1> QED
    BY Zenon, <1>1, <1>2

\* What is ready comes from the list.
LEMMA ReadyFrom == ASSUME NEW list, NEW start PROVE ReadyTxs(list, start) \subseteq list
  BY Zenon DEF ReadyTxs

Live(a, head) == {t \in que[a] : t.nonce >= head /\ t.gas <= 0}
ReadyOf(a, head, start) == ReadyTxs(Live(a, head), start)

\* promoteExecutables moves the ready ones: no nonce is in both lists.
LEMMA PromoteMoves ==
  ASSUME APIShape, NEW a \in SigKeys, Lists(a), NEW head, NEW start
  PROVE  LET p == promoteExecutables(a, head, start)
             ready == ReadyOf(a, head, start)
         IN  /\ p.pend = pend[a] \cup ready /\ p.que = Live(a, head) \ ready
             /\ p.nonce = IF ready = {} THEN start ELSE Max(Nonces(ready)) + 1
             /\ ready \subseteq Live(a, head) /\ Live(a, head) \subseteq que[a]
  <1> DEFINE ready == ReadyOf(a, head, start)
  <1>1. ready \subseteq Live(a, head) /\ Live(a, head) \subseteq que[a]
    BY Zenon, ReadyFrom DEF ReadyOf, Live
  <1>2. \A u \in pend[a], t \in ready : t.nonce # u.nonce
    BY Zenon, <1>1 DEF Lists
  <1>3. {u \in pend[a] : \A t \in ready : t.nonce = u.nonce => ~Pricier(u, t)} = pend[a]
    BY Zenon, <1>2
  <1>4. {t \in ready : Inserted(pend[a], t)} = ready
    BY Zenon, <1>2 DEF Inserted, Overlaps
  <1>5. promoteExecutables(a, head, start) =
          [que |-> Live(a, head) \ ready,
           pend |-> {u \in pend[a] : \A t \in ready : t.nonce = u.nonce => ~Pricier(u, t)}
                    \cup {t \in ready : Inserted(pend[a], t)},
           nonce |-> IF ready = {} THEN start ELSE Max(Nonces(ready)) + 1]
    BY Zenon DEF promoteExecutables, ReadyOf, Live
  <1> HIDE DEF ready
  <1>6. promoteExecutables(a, head, start) =
          [que |-> Live(a, head) \ ready, pend |-> pend[a] \cup ready,
           nonce |-> IF ready = {} THEN start ELSE Max(Nonces(ready)) + 1]
    BY <1>3, <1>4, <1>5
  <1> QED
    BY <1>1, <1>6 DEF ready

------------------------------------------------------------------------------
(* Steps that leave the lists of an account alone. *)

\* What a step may change while the lists of a stay as they are.
LeavesLists(a) ==
  /\ args' = args /\ pend'[a] = pend[a] /\ que'[a] = que[a] /\ pendNonce'[a] = pendNonce[a] /\ (merged => merged')
  /\ \A x \in Requests : args[x].from = a => (x \in accepted' <=> x \in accepted)
  /\ \A x \in accepted : args[x].from = a => rpc'[x].tx = rpc[x].tx /\ (Pending(x) => Pending(x)')
  /\ \A x \in Requests : args[x].from = a /\ rpc'[x].pc \in Made =>
       \/ rpc[x].pc \in Made /\ rpc'[x].tx = rpc[x].tx
       \/ At(x, "defaults") /\ (args[x].nonce = None => rpc'[x].tx.nonce = pendNonce[a])

\* Runs have calls to tell and accounts to look at.
LEMMA RunTypes ==
  ASSUME APIShape
  PROVE  /\ nextRun.waits \subseteq Requests /\ nextRun.dirty \subseteq SigKeys
         /\ curRun # None => curRun \in RunRecord /\ curRun.waits \subseteq Requests /\ curRun.dirty \subseteq SigKeys
  BY DEF APIShape, NextRecord, RunRecord

\* The calls that disturb the nonces of an account.
LEMMA SameCalls ==
  ASSUME NEW a, APIShape, accepted' \subseteq Requests, LeavesLists(a)
  PROVE  /\ ByHand(a)' = ByHand(a) /\ Limited(a)' = Limited(a) /\ (Calm(a)' => Calm(a))
         /\ \A n : Disturbed(a, n)' = Disturbed(a, n)
         /\ \A x : AutoOf(x, a)' = AutoOf(x, a)
  <1>1. ByHand(a)' = ByHand(a) /\ Limited(a)' = Limited(a)
    BY Zenon DEF LeavesLists, ByHand, Limited, APIShape
  <1>2. \A n : Disturbed(a, n)' = Disturbed(a, n)
    BY Zenon, <1>1 DEF Disturbed, LeavesLists
  <1>3. \A x : AutoOf(x, a)' = AutoOf(x, a)
    BY Zenon DEF AutoOf, Automatic, LeavesLists
  <1> QED
    BY Zenon, <1>1, <1>2, <1>3 DEF Calm, LeavesLists

\* A call with an automatic nonce that waits for a promotion holds the mutex of its address.
LEMMA OneHolder ==
  ASSUME Mutexes, NEW x \in Requests, NEW y \in Requests, args[x].from = args[y].from,
         args[x].nonce = None, args[y].nonce = None, rpc[x].pc \in Holds, rpc[y].pc \in Holds
  PROVE  x = y
  <1>1. addrMu[args[x].from] = x /\ addrMu[args[y].from] = y
    BY Zenon DEF Mutexes
  <1> QED
    BY Zenon, <1>1

\* A call whose promotion is to come holds the mutex of its address.
LEMMA PendingHolds ==
  ASSUME NEW x, Pending(x) PROVE rpc[x].pc \in Holds /\ rpc[x].pc \notin Made /\ ~At(x, "defaults")
  <1>1. rpc[x].pc \in {"promote", "wait"}
    BY Zenon DEF Pending, At
  <1> QED
    BY <1>1 DEF At, Holds, Made

\* A transaction in the lists of an account is one of a call for it.
LEMMA SourceFrom ==
  ASSUME Answers, NEW a, Lists(a), NEW r \in Requests, r \in accepted, rpc[r].tx \in pend[a] \cup que[a]
  PROVE  args[r].from = a
  <1>1. rpc[r].tx = toTransaction(r, rpc[r].tx.nonce) /\ rpc[r].tx.from = a
    BY Zenon DEF Answers, AnswerOf, Lists
  <1>2. toTransaction(r, rpc[r].tx.nonce).from = args[r].from
    BY DEF toTransaction
  <1> QED
    BY Zenon, <1>1, <1>2

\* The account stays in order.
LEMMA OrderlyKept ==
  ASSUME APIShape, Mutexes, Answers, NEW a \in SigKeys, Lists(a), accepted' \subseteq Requests, LeavesLists(a),
         Calm(a) => Orderly(a), Calm(a) => Chunk(a)'
  PROVE  Calm(a)' => Orderly(a)'
  <1> SUFFICES ASSUME Calm(a)' PROVE Orderly(a)'
    OBVIOUS
  <1>1. /\ ByHand(a)' = ByHand(a) /\ Calm(a)
        /\ \A n : Disturbed(a, n)' = Disturbed(a, n)
        /\ \A x : AutoOf(x, a)' = AutoOf(x, a)
    BY Zenon, SameCalls
  <1>2. Orderly(a) /\ Chunk(a)' /\ accepted \subseteq Requests
    BY Zenon, <1>1 DEF APIShape
  <1>3. Source(a)'
    <2> SUFFICES ASSUME NEW t \in que'[a],
                        ~ \E r \in ByHand(a)' : args'[r].nonce = t.nonce
                 PROVE  \E r \in accepted' : rpc'[r].tx = t /\ args'[r].nonce = None /\ Pending(r)' /\ t.nonce = pendNonce'[a]
      BY Zenon DEF Source
    <2>1. t \in que[a] /\ args' = args /\ pendNonce'[a] = pendNonce[a]
      BY Zenon DEF LeavesLists
    <2>2. PICK r \in accepted : rpc[r].tx = t /\ args[r].nonce = None /\ Pending(r) /\ t.nonce = pendNonce[a]
      BY Zenon, <1>1, <1>2, <2>1 DEF Orderly, Source
    <2>3. args[r].from = a
      <3>1. r \in Requests /\ rpc[r].tx \in pend[a] \cup que[a]
        BY Zenon, <2>1, <2>2, <1>2
      <3> QED
        BY Zenon, <2>2, <3>1, SourceFrom
    <2>4. r \in accepted' /\ rpc'[r].tx = t /\ Pending(r)'
      BY Zenon, <2>2, <2>3, <1>2 DEF LeavesLists
    <2> QED
      BY Zenon, <2>1, <2>2, <2>4
  <1>4. Given(a)'
    <2> SUFFICES ASSUME NEW r \in Requests, args'[r].from = a, args'[r].nonce = None, rpc'[r].pc \in Made
                 PROVE  /\ rpc'[r].tx.nonce <= pendNonce'[a]
                        /\ ByHand(a)' = {} => rpc'[r].tx.nonce = pendNonce'[a]
      BY Zenon DEF Given
    <2>1. args[r].from = a /\ args[r].nonce = None /\ pendNonce'[a] = pendNonce[a] /\ pendNonce[a] \in Nat
      BY Zenon, ListTypes DEF LeavesLists
    <2>2. CASE rpc[r].pc \in Made /\ rpc'[r].tx = rpc[r].tx
      BY Zenon, <2>1, <2>2, <1>1, <1>2 DEF Orderly, Given
    <2>3. CASE rpc'[r].tx.nonce = pendNonce[a]
      BY <2>1, <2>3
    <2> QED
      BY Zenon, <2>1, <2>2, <2>3 DEF LeavesLists
  <1>5. Promoted(a)'
    <2> SUFFICES ASSUME NEW r \in accepted', AutoOf(r, a)', ~Disturbed(a, rpc[r].tx.nonce)'
                 PROVE  \/ rpc'[r].tx.nonce < pendNonce'[a]
                        \/ Pending(r)' /\ rpc'[r].tx \in que'[a] /\ rpc'[r].tx.nonce = pendNonce'[a]
      BY Zenon DEF Promoted
    <2>1. AutoOf(r, a) /\ args[r].from = a /\ r \in accepted
      BY Zenon, <1>1 DEF AutoOf, LeavesLists
    <2>2. rpc'[r].tx = rpc[r].tx /\ (Pending(r) => Pending(r)') /\ que'[a] = que[a] /\ pendNonce'[a] = pendNonce[a]
      BY Zenon, <2>1, <1>2 DEF LeavesLists
    <2> QED
      BY Zenon, <2>1, <2>2, <1>1, <1>2 DEF Orderly, Promoted
  <1>6. AheadOf(a)'
    <2> SUFFICES ASSUME NEW q \in Requests, NEW r \in accepted', AutoOf(q, a)', rpc'[q].pc \in Made,
                        AutoOf(r, a)', ~Disturbed(a, rpc[r].tx.nonce)'
                 PROVE  rpc'[r].tx.nonce < rpc'[q].tx.nonce
      BY Zenon DEF AheadOf
    <2>1. AutoOf(r, a) /\ args[r].from = a /\ args[r].nonce = None /\ AutoOf(q, a) /\ args[q].from = a /\ args[q].nonce = None
      BY Zenon, <1>1 DEF AutoOf, Automatic, LeavesLists
    <2>2. r \in accepted /\ r \in Requests /\ rpc'[r].tx = rpc[r].tx
      BY Zenon, <2>1, <1>2 DEF LeavesLists
    <2>3. CASE rpc[q].pc \in Made /\ rpc'[q].tx = rpc[q].tx
      BY Zenon, <2>1, <2>2, <2>3, <1>1, <1>2 DEF Orderly, AheadOf
    <2>4. CASE At(q, "defaults") /\ rpc'[q].tx.nonce = pendNonce[a]
      <3>1. rpc[q].pc \in Holds
        BY <2>4 DEF At, Holds
      <3>2. ~Pending(r)
        BY Zenon, <2>1, <2>2, <2>4, <3>1, OneHolder, PendingHolds
      <3> QED
        BY Zenon, <2>1, <2>2, <2>4, <3>2, <1>1, <1>2 DEF Orderly, Promoted
    <2> QED
      BY Zenon, <2>1, <2>3, <2>4 DEF LeavesLists
  <1>7. Differ(a)'
    <2> SUFFICES ASSUME NEW r \in accepted', NEW q \in accepted', r # q, AutoOf(r, a)', AutoOf(q, a)',
                        rpc'[r].tx.nonce = rpc'[q].tx.nonce
                 PROVE  Disturbed(a, rpc[r].tx.nonce)'
      BY Zenon DEF Differ
    <2>1. AutoOf(r, a) /\ args[r].from = a /\ AutoOf(q, a) /\ args[q].from = a
      BY Zenon, <1>1 DEF AutoOf, LeavesLists
    <2>2. r \in accepted /\ rpc'[r].tx = rpc[r].tx /\ q \in accepted /\ rpc'[q].tx = rpc[q].tx
      BY Zenon, <2>1, <1>2 DEF LeavesLists
    <2> QED
      BY Zenon, <2>1, <2>2, <1>1, <1>2 DEF Orderly, Differ
  <1> QED
    BY Zenon, <1>2, <1>3, <1>4, <1>5, <1>6, <1>7 DEF Orderly

\* A step that leaves all the lists alone.
LEMMA FrameKeeps ==
  ASSUME APIInv, APIShape', Mutexes', Answers', Waiting', PoolLists' = PoolLists,
         \A a \in SigKeys : LeavesLists(a), \A a \in SigKeys : Calm(a) => Chunk(a)'
  PROVE  APIInv'
  <1>1. \A a \in SigKeys : Lists(a)'
    BY Zenon DEF APIInv, Lists, PoolLists
  <1>2. ASSUME NEW a \in SigKeys PROVE Calm(a)' => Orderly(a)'
    <2>1. accepted' \subseteq Requests /\ LeavesLists(a) /\ Lists(a) /\ (Calm(a) => Orderly(a)) /\ (Calm(a) => Chunk(a)')
      BY Zenon DEF APIInv, APIShape
    <2> QED
      BY Zenon, <2>1, OrderlyKept DEF APIInv
  <1> QED
    BY Zenon, <1>1, <1>2 DEF APIInv

\* The lists and the chain: what Chunk is about.
LEMMA ChunkFrame ==
  ASSUME NEW a, PoolLists' = PoolLists, chainNonce' = chainNonce, Chunk(a) PROVE Chunk(a)'
  BY Zenon DEF Chunk, PoolLists

------------------------------------------------------------------------------
(* Steps of one call outside the pool. *)

\* A step of one call changes no other call.
LEMMA RpcAt ==
  ASSUME rpc \in [Requests -> CallRecord], NEW r \in Requests, NEW c \in CallRecord, rpc' = [rpc EXCEPT ![r] = c]
  PROVE  /\ rpc' \in [Requests -> CallRecord] /\ rpc'[r] = c
         /\ \A q \in Requests : q # r => rpc'[q] = rpc[q]
  OBVIOUS

Outside == UNCHANGED <<args, PoolLists, PoolRuns, accepted>>

\* What a step outside the pool leaves alone.
LEMMA OutsideKept ==
  ASSUME Outside
  PROVE  /\ UNCHANGED <<args, accepted, pend, que, headNonce, pendNonce, chainNonce, nextRun, curRun, heads, merged>>
         /\ PoolLists' = PoolLists
  BY Zenon DEF Outside, PoolLists, PoolRuns

\* A call that is not in the pool moves on to c.
LEMMA CallKeeps ==
  ASSUME APIInv, NEW r \in Requests, NEW c \in CallRecord, rpc' = [rpc EXCEPT ![r] = c], Outside,
         addrMu' \in [SigKeys -> Requests \cup {None}], Mutexes', AnswerOf(r)',
         rpc[r].pc \notin {"promote", "wait"}, r \in accepted => c.tx = rpc[r].tx,
         c.pc \in Made => \/ rpc[r].pc \in Made /\ c.tx = rpc[r].tx
                          \/ At(r, "defaults") /\ (args[r].nonce = None => c.tx.nonce = pendNonce[args[r].from])
  PROVE  APIInv'
  <1>1. /\ rpc' \in [Requests -> CallRecord] /\ rpc'[r] = c
        /\ \A q \in Requests : q # r => rpc'[q] = rpc[q]
    BY Zenon, RpcAt DEF APIInv, APIShape
  <1>2. /\ UNCHANGED <<args, accepted, pend, que, headNonce, pendNonce, chainNonce, nextRun, curRun, heads, merged>>
        /\ PoolLists' = PoolLists
    BY Zenon, OutsideKept
  <1>3. APIShape'
    BY Zenon, <1>1, <1>2 DEF APIInv, APIShape
  <1>4. Answers'
    <2> SUFFICES ASSUME NEW q \in Requests, q # r PROVE AnswerOf(q)'
      BY Zenon DEF Answers
    <2>1. rpc'[q] = rpc[q] /\ AnswerOf(q)
      BY Zenon, <1>1 DEF APIInv, Answers
    <2> QED
      BY Zenon, <2>1, <1>2 DEF AnswerOf, toTransaction
  <1>5. Waiting'
    <2>1. \A q \in Requests : At(q, "wait") => At(q, "wait")'
      BY <1>1 DEF At
    <2>2. nextRun.waits \subseteq Requests /\ (curRun # None => curRun.waits \subseteq Requests)
      BY Zenon, RunTypes DEF APIInv
    <2> QED
      BY Zenon, <2>1, <2>2, <1>2 DEF APIInv, Waiting
  <1>6. ASSUME NEW a \in SigKeys PROVE LeavesLists(a)
    <2>1. \A x \in Requests : Pending(x) => Pending(x)'
      <3> SUFFICES ASSUME NEW x \in Requests, Pending(x) PROVE Pending(x)'
        OBVIOUS
      <3>1. x # r
        BY DEF Pending, At
      <3> QED
        BY Zenon, <3>1, <1>1, <1>2 DEF Pending, At
    <2>2. accepted \subseteq Requests
      BY Zenon DEF APIInv, APIShape
    <2>3. \A x \in Requests : x \in accepted => rpc'[x].tx = rpc[x].tx
      BY Zenon, <1>1
    <2>4. \A x \in Requests : args[x].from = a /\ rpc'[x].pc \in Made =>
            \/ rpc[x].pc \in Made /\ rpc'[x].tx = rpc[x].tx
            \/ At(x, "defaults") /\ (args[x].nonce = None => rpc'[x].tx.nonce = pendNonce[a])
      BY Zenon, <1>1
    <2> QED
      BY Zenon, <2>1, <2>2, <2>3, <2>4, <1>2 DEF LeavesLists
  <1>7. \A a \in SigKeys : Calm(a) => Chunk(a)'
    BY Zenon, <1>2, ChunkFrame DEF APIInv, Orderly
  <1> QED
    BY Zenon, <1>2, <1>3, <1>4, <1>5, <1>6, <1>7, FrameKeeps

\* What UnlockAddr leaves.
LEMMA UnlockTypes ==
  ASSUME APIShape, NEW r \in Requests, NEW err PROVE UnlockAddr(r, err) \in [SigKeys -> Requests \cup {None}]
  BY DEF APIShape, UnlockAddr

\* The mutexes after a step of r that neither locks nor unlocks.
LEMMA MutexSame ==
  ASSUME Mutexes, NEW r \in Requests, args' = args, addrMu' = addrMu,
         \A q \in Requests : q # r => rpc'[q] = rpc[q],
         rpc[r].pc \in Holds => rpc'[r].pc \in Holds,
         args[r].nonce = None /\ rpc'[r].pc \in Holds => rpc[r].pc \in Holds,
         addrMu \in [SigKeys -> Requests \cup {None}]
  PROVE  Mutexes'
  <1>1. \A q \in Requests : args[q].nonce = None /\ rpc'[q].pc \in Holds => addrMu[args[q].from] = q
    BY Zenon DEF Mutexes
  <1>2. \A a \in SigKeys : addrMu[a] # None => addrMu[a] \in Requests
    BY Zenon
  <1>3. \A a \in SigKeys : addrMu[a] # None =>
          args[addrMu[a]].from = a /\ args[addrMu[a]].nonce = None /\ rpc'[addrMu[a]].pc \in Holds
    BY Zenon, <1>2 DEF Mutexes
  <1> QED
    BY Zenon, <1>1, <1>3 DEF Mutexes

\* The mutexes after a call has returned.
LEMMA MutexFreed ==
  ASSUME Mutexes, NEW r \in Requests, args' = args, NEW err, addrMu' = UnlockAddr(r, err),
         \A q \in Requests : q # r => rpc'[q] = rpc[q], rpc[r].pc \in Holds, rpc'[r].pc = "done",
         addrMu \in [SigKeys -> Requests \cup {None}], \A q \in Requests : args[q].from \in SigKeys
  PROVE  Mutexes'
  <1>1. "done" \notin Holds
    BY DEF Holds
  <1>2. \A q \in Requests : q # r /\ args[q].nonce = None /\ rpc[q].pc \in Holds => addrMu'[args[q].from] = q
    <2> SUFFICES ASSUME NEW q \in Requests, q # r, args[q].nonce = None, rpc[q].pc \in Holds
                 PROVE  addrMu'[args[q].from] = q
      BY Zenon
    <2>1. addrMu[args[q].from] = q /\ (args[r].nonce = None => addrMu[args[r].from] = r)
      BY Zenon DEF Mutexes
    <2>2. args[r].nonce = None => args[q].from # args[r].from
      BY Zenon, <2>1
    <2> QED
      BY <2>1, <2>2 DEF UnlockAddr
  <1>3. \A a \in SigKeys : addrMu'[a] # None => addrMu'[a] = addrMu[a] /\ addrMu[a] # r /\ addrMu[a] \in Requests
    <2> SUFFICES ASSUME NEW a \in SigKeys, addrMu'[a] # None
                 PROVE  addrMu'[a] = addrMu[a] /\ addrMu[a] # r /\ addrMu[a] \in Requests
      BY Zenon
    <2>1. addrMu'[a] = addrMu[a] /\ (args[r].nonce = None => a # args[r].from)
      BY DEF UnlockAddr
    <2>2. args[addrMu[a]].from = a /\ args[addrMu[a]].nonce = None /\ addrMu[a] \in Requests
      <3>1. addrMu[a] # None /\ addrMu[a] \in Requests
        BY <2>1
      <3> QED
        BY Zenon, <3>1 DEF Mutexes
    <2> QED
      BY Zenon, <2>1, <2>2
  <1>4. \A q \in Requests : args[q].nonce = None /\ rpc'[q].pc \in Holds => addrMu'[args[q].from] = q
    BY Zenon, <1>1, <1>2
  <1>5. \A a \in SigKeys : addrMu'[a] # None =>
          args[addrMu'[a]].from = a /\ args[addrMu'[a]].nonce = None /\ rpc'[addrMu'[a]].pc \in Holds
    <2> SUFFICES ASSUME NEW a \in SigKeys, addrMu'[a] # None
                 PROVE  args[addrMu'[a]].from = a /\ args[addrMu'[a]].nonce = None /\ rpc'[addrMu'[a]].pc \in Holds
      BY Zenon
    <2>1. addrMu'[a] = addrMu[a] /\ addrMu[a] # None /\ rpc'[addrMu[a]] = rpc[addrMu[a]]
      BY Zenon, <1>3
    <2> QED
      BY Zenon, <2>1 DEF Mutexes
  <1> QED
    BY Zenon, <1>4, <1>5 DEF Mutexes

\* The record of a call, and its arguments.
LEMMA CallTypes ==
  ASSUME APIShape, NEW r \in Requests
  PROVE  /\ rpc[r].pc \in Pcs /\ rpc[r].tx \in TxRecord \cup {None} /\ rpc[r].err \in BOOLEAN
         /\ args[r].from \in SigKeys /\ args[r].nonce \in Nat \cup {None} /\ args[r].to \in BOOLEAN
         /\ args[r].gas \in Nat \cup {None} /\ args[r].price \in Nat
  <1>1. rpc[r] \in CallRecord /\ args[r] \in CallArgs
    BY Zenon DEF APIShape
  <1> QED
    BY <1>1 DEF CallRecord, CallArgs

\* A call that is at one of these places has no transaction in the pool.
LEMMA NotYet ==
  ASSUME Answers, NEW r \in Requests, rpc[r].pc \in {"find", "lock", "defaults", "sign", "add", "locked"}
  PROVE  r \notin accepted
  BY Zenon DEF Answers, AnswerOf, Made

\* A call without a transaction in the pool that has none to show, or returns an error.
LEMMA AnswerNone ==
  ASSUME NEW r, r \notin accepted, accepted' = accepted, args' = args,
         \/ rpc'[r].pc = "defaults"
         \/ rpc'[r].pc = "lock" /\ args[r].nonce = None
         \/ rpc'[r].pc = "done" /\ rpc'[r].err
  PROVE  AnswerOf(r)'
  <1>1. CASE rpc'[r].pc = "defaults" \/ (rpc'[r].pc = "lock" /\ args[r].nonce = None)
    <2>1. rpc'[r].pc \notin Made \cup {"promote", "reorg", "wait", "submitted"} /\ rpc'[r].pc # "done"
          /\ rpc'[r].pc # "promote" /\ (rpc'[r].pc = "lock" => args[r].nonce = None)
      BY <1>1 DEF Made
    <2> QED
      BY Zenon, <2>1 DEF AnswerOf
  <1>2. CASE rpc'[r].pc = "done" /\ rpc'[r].err
    <2>1. rpc'[r].pc \notin Made \cup {"promote", "reorg", "wait", "submitted"} \cup {"find", "lock", "defaults"}
          /\ rpc'[r].pc # "promote" /\ rpc'[r].pc # "lock"
      BY <1>2 DEF Made
    <2> QED
      BY Zenon, <1>2, <2>1 DEF AnswerOf
  <1> QED
    BY Zenon, <1>1, <1>2

\* SendTransaction finds the account's wallet: only the call moves on.
LEMMA FindKeeps == ASSUME APIInv, NEW r \in Requests, FindWallet(r) PROVE APIInv'
  <1>c. PICK p \in {"done", "lock", "defaults"}, e \in BOOLEAN :
          /\ rpc' = [rpc EXCEPT ![r] = [pc |-> p, tx |-> rpc[r].tx, err |-> e]]
          /\ p = "lock" => args[r].nonce = None
          /\ p = "defaults" => args[r].nonce # None
          /\ p = "done" => e
    <2>1. rpc[r].err \in BOOLEAN
      BY Zenon, CallTypes DEF APIInv
    <2>2. CASE args[r].from \notin Wallets
      BY <2>2 DEF FindWallet, Becomes
    <2>3. CASE args[r].from \in Wallets
      BY <2>1, <2>3 DEF FindWallet, Goes, Becomes
    <2> QED
      BY Zenon, <2>2, <2>3
  <1> DEFINE c == [pc |-> p, tx |-> rpc[r].tx, err |-> e]
  <1>1. rpc[r].pc = "find" /\ Outside /\ addrMu' = addrMu
    BY Zenon DEF FindWallet, At, Outside
  <1>2. c \in CallRecord /\ rpc' = [rpc EXCEPT ![r] = c]
    <2>1. rpc[r] \in CallRecord /\ rpc \in [Requests -> CallRecord]
      BY Zenon DEF APIInv, APIShape
    <2>2. c \in CallRecord
      BY <2>1 DEF CallRecord, Pcs
    <2> QED
      BY Zenon, <2>2, <1>c
  <1>3. rpc'[r] = c /\ \A q \in Requests : q # r => rpc'[q] = rpc[q]
    BY Zenon, <1>2, RpcAt DEF APIInv, APIShape
  <1>4. r \notin accepted /\ args' = args /\ accepted' = accepted
    BY Zenon, <1>1, NotYet, OutsideKept DEF APIInv
  <1>5. c.pc = "defaults" \/ (c.pc = "lock" /\ args[r].nonce = None) \/ (c.pc = "done" /\ c.err)
    BY <1>c
  <1>6. c.pc \in Holds => args[r].nonce # None
    BY <1>c DEF Holds
  <1>7. rpc[r].pc \notin Holds /\ rpc[r].pc \notin {"promote", "wait"} /\ c.pc \notin Made
    BY <1>1, <1>c DEF Holds, Made
  <1> HIDE DEF c
  <1>8. AnswerOf(r)'
    BY Zenon, <1>3, <1>4, <1>5, AnswerNone
  <1>9. Mutexes'
    BY Zenon, <1>1, <1>3, <1>4, <1>6, <1>7, MutexSame DEF APIInv, APIShape
  <1>10. addrMu' \in [SigKeys -> Requests \cup {None}]
    BY Zenon, <1>1 DEF APIInv, APIShape
  <1> QED
    BY Zenon, <1>1, <1>2, <1>4, <1>7, <1>8, <1>9, <1>10, CallKeeps

\* LockAddr: the call that takes the mutex is the only one between the lock and its return.
LEMMA LockKeeps == ASSUME APIInv, NEW r \in Requests, LockAddr(r) PROVE APIInv'
  <1> DEFINE c == [pc |-> "defaults", tx |-> rpc[r].tx, err |-> rpc[r].err]
             a == args[r].from
  <1>1. rpc[r].pc = "lock" /\ Outside /\ addrMu[a] = None /\ addrMu' = [addrMu EXCEPT ![a] = r]
    BY Zenon DEF LockAddr, At, Outside
  <1>2. c \in CallRecord /\ rpc' = [rpc EXCEPT ![r] = c]
    <2>1. rpc[r] \in CallRecord /\ rpc \in [Requests -> CallRecord]
      BY Zenon DEF APIInv, APIShape
    <2>2. c \in CallRecord
      BY <2>1 DEF CallRecord, Pcs
    <2> QED
      BY Zenon, <2>2 DEF LockAddr, Goes, Becomes
  <1>3. rpc'[r] = c /\ \A q \in Requests : q # r => rpc'[q] = rpc[q]
    BY Zenon, <1>2, RpcAt DEF APIInv, APIShape
  <1>4. r \notin accepted /\ args' = args /\ accepted' = accepted
    BY Zenon, <1>1, NotYet, OutsideKept DEF APIInv
  <1>5. c.pc = "defaults" /\ "defaults" \in Holds /\ c.pc \notin Made
    BY DEF Holds, Made
  <1>6. rpc[r].pc \notin {"promote", "wait"}
    BY <1>1
  <1> HIDE DEF c
  <1>7. AnswerOf(r)'
    BY Zenon, <1>3, <1>4, <1>5, AnswerNone
  <1>8. addrMu \in [SigKeys -> Requests \cup {None}] /\ a \in SigKeys /\ None \notin Requests
    BY Zenon, CallTypes, APIAssumption DEF APIInv, APIShape
  <1>9. addrMu' \in [SigKeys -> Requests \cup {None}] /\ addrMu'[a] = r /\ \A b \in SigKeys : b # a => addrMu'[b] = addrMu[b]
    BY <1>1, <1>8
  <1>10. args[r].nonce = None
    BY Zenon, <1>1 DEF APIInv, Answers, AnswerOf
  <1>11. Mutexes'
    <2>1. \A q \in Requests : args[q].nonce = None /\ rpc'[q].pc \in Holds => addrMu'[args[q].from] = q
      <3> SUFFICES ASSUME NEW q \in Requests, q # r, args[q].nonce = None, rpc[q].pc \in Holds
                   PROVE  addrMu'[args[q].from] = q
        BY Zenon, <1>3, <1>9
      <3>1. addrMu[args[q].from] = q /\ args[q].from \in SigKeys
        BY Zenon, CallTypes DEF APIInv, Mutexes
      <3>2. args[q].from # a
        BY Zenon, <3>1, <1>1, <1>8
      <3> QED
        BY Zenon, <3>1, <3>2, <1>9
    <2>2. ASSUME NEW b \in SigKeys, addrMu'[b] # None
          PROVE  args[addrMu'[b]].from = b /\ args[addrMu'[b]].nonce = None /\ rpc'[addrMu'[b]].pc \in Holds
      <3>1. CASE b = a
        BY Zenon, <3>1, <1>3, <1>5, <1>9, <1>10
      <3>2. CASE b # a
        <4>1. addrMu'[b] = addrMu[b] /\ addrMu[b] # None /\ addrMu[b] \in Requests
          BY <3>2, <2>2, <1>8, <1>9
        <4>2. args[addrMu[b]].from = b
          BY Zenon, <4>1 DEF APIInv, Mutexes
        <4>3. addrMu[b] # r
          BY Zenon, <4>2, <3>2
        <4>4. args[addrMu[b]].nonce = None /\ rpc[addrMu[b]].pc \in Holds
          BY Zenon, <4>1 DEF APIInv, Mutexes
        <4>5. rpc'[addrMu[b]] = rpc[addrMu[b]]
          BY Zenon, <4>1, <4>3, <1>3
        <4> QED
          BY Zenon, <4>1, <4>2, <4>4, <4>5
      <3> QED
        BY Zenon, <3>1, <3>2
    <2> QED
      BY Zenon, <2>1, <2>2, <1>4 DEF Mutexes
  <1> QED
    BY Zenon, <1>1, <1>2, <1>4, <1>5, <1>6, <1>7, <1>9, <1>11, CallKeeps

\* A call returns from outside the pool.
LEMMA ReturnKeeps ==
  ASSUME APIInv, NEW r \in Requests, NEW err \in BOOLEAN, Answer(r, err), Outside, rpc[r].pc \in Holds,
         rpc[r].pc \notin {"promote", "wait"}, args[r].to => (r \in accepted <=> ~err)
  PROVE  APIInv'
  <1> DEFINE c == [pc |-> "done", tx |-> rpc[r].tx, err |-> err]
  <1>1. rpc' = [rpc EXCEPT ![r] = c] /\ addrMu' = UnlockAddr(r, err)
    BY Zenon DEF Answer, Becomes
  <1>2. c \in CallRecord
    <2>1. rpc[r].tx \in TxRecord \cup {None}
      BY Zenon, CallTypes DEF APIInv
    <2> QED
      BY <2>1 DEF CallRecord, Pcs
  <1>3. rpc'[r] = c /\ \A q \in Requests : q # r => rpc'[q] = rpc[q]
    BY Zenon, <1>1, <1>2, RpcAt DEF APIInv, APIShape
  <1>4. args' = args /\ accepted' = accepted
    BY Zenon, OutsideKept
  <1>5. c.pc = "done" /\ c.tx = rpc[r].tx /\ c.err = err /\ c.pc \notin Made
    BY DEF Made
  <1> HIDE DEF c
  <1>6. AnswerOf(r)'
    <2>1. rpc'[r].pc = "done" /\ rpc'[r].tx = rpc[r].tx /\ rpc'[r].err = err
      BY Zenon, <1>3, <1>5
    <2>2. rpc'[r].pc \notin Made \cup {"promote", "reorg", "wait", "submitted"} \cup {"find", "lock", "defaults"}
          /\ rpc'[r].pc # "promote" /\ rpc'[r].pc # "lock"
      BY <2>1 DEF Made
    <2>3. r \in accepted => rpc[r].tx # None /\ rpc[r].tx = toTransaction(r, rpc[r].tx.nonce)
            /\ (args[r].nonce # None => rpc[r].tx.nonce = args[r].nonce)
      BY Zenon DEF APIInv, Answers, AnswerOf
    <2> QED
      BY Zenon, <2>1, <2>2, <2>3, <1>4 DEF AnswerOf, toTransaction
  <1>7. Mutexes'
    <2>1. \A q \in Requests : args[q].from \in SigKeys
      BY Zenon, CallTypes DEF APIInv
    <2>2. rpc'[r].pc = "done"
      BY Zenon, <1>3, <1>5
    <2> QED
      BY Zenon, <1>1, <1>3, <1>4, <2>1, <2>2, MutexFreed DEF APIInv, APIShape
  <1>8. addrMu' \in [SigKeys -> Requests \cup {None}]
    BY Zenon, <1>1, UnlockTypes DEF APIInv
  <1> QED
    BY Zenon, <1>1, <1>2, <1>5, <1>6, <1>7, <1>8, CallKeeps

\* A call with its transaction made moves on, before it is in the pool.
LEMMA GoesKeeps ==
  ASSUME APIInv, NEW r \in Requests, NEW p \in Made, Goes(r, p), UNCHANGED addrMu, Outside, rpc[r].pc \in Made
  PROVE  APIInv'
  <1> DEFINE c == [pc |-> p, tx |-> rpc[r].tx, err |-> rpc[r].err]
  <1>1. rpc' = [rpc EXCEPT ![r] = c]
    BY Zenon DEF Goes, Becomes
  <1>2. c \in CallRecord
    <2>1. rpc[r].tx \in TxRecord \cup {None} /\ rpc[r].err \in BOOLEAN
      BY Zenon, CallTypes DEF APIInv
    <2> QED
      BY <2>1 DEF CallRecord, Pcs, Made
  <1>3. rpc'[r] = c /\ \A q \in Requests : q # r => rpc'[q] = rpc[q]
    BY Zenon, <1>1, <1>2, RpcAt DEF APIInv, APIShape
  <1>4. args' = args /\ accepted' = accepted
    BY Zenon, OutsideKept
  <1>5. c.pc = p /\ c.tx = rpc[r].tx /\ c.err = rpc[r].err
    OBVIOUS
  <1> HIDE DEF c
  <1>6. p \in Holds /\ rpc[r].pc \in Holds /\ rpc[r].pc \notin {"promote", "wait"} /\ p \notin {"promote", "reorg", "wait", "submitted", "lock", "done"}
    BY DEF Made, Holds
  <1>7. AnswerOf(r)'
    <2>1. rpc'[r].pc = p /\ rpc'[r].tx = rpc[r].tx
      BY Zenon, <1>3, <1>5
    <2>2. rpc[r].tx # None /\ rpc[r].tx = toTransaction(r, rpc[r].tx.nonce) /\ r \notin accepted
            /\ (args[r].nonce # None => rpc[r].tx.nonce = args[r].nonce)
      BY Zenon DEF APIInv, Answers, AnswerOf
    <2>3. p \notin {"promote", "reorg", "wait", "submitted"} /\ p # "promote" /\ p # "lock" /\ p # "done"
      BY <1>6
    <2> QED
      BY Zenon, <2>1, <2>2, <2>3, <1>4 DEF AnswerOf, toTransaction
  <1>8. Mutexes'
    BY Zenon, <1>3, <1>4, <1>5, <1>6, MutexSame DEF APIInv, APIShape
  <1>9. addrMu' \in [SigKeys -> Requests \cup {None}]
    BY Zenon DEF APIInv, APIShape
  <1> QED
    BY Zenon, <1>1, <1>2, <1>5, <1>6, <1>7, <1>8, <1>9, CallKeeps

\* The transaction of a call.
LEMMA TxMade ==
  ASSUME APIShape, NEW r \in Requests, NEW n \in Nat
  PROVE  /\ toTransaction(r, n) \in TxRecord /\ toTransaction(r, n).nonce = n /\ toTransaction(r, n).from = args[r].from
         /\ toTransaction(r, n).gas = IF args[r].gas = None THEN 0 ELSE args[r].gas
  <1>1. args[r].from \in SigKeys /\ args[r].to \in BOOLEAN /\ args[r].gas \in Nat \cup {None} /\ args[r].price \in Nat
    BY Zenon, CallTypes
  <1>2. (IF args[r].gas = None THEN 0 ELSE args[r].gas) \in Nat
    BY <1>1
  <1> QED
    BY <1>1, <1>2 DEF toTransaction, TxRecord

\* setDefaults reads the virtual nonce, which no other call of the address has and is to keep.
LEMMA DefaultsKeeps == ASSUME APIInv, NEW r \in Requests, setDefaults(r) PROVE APIInv'
  <1>1. rpc[r].pc = "defaults" /\ Outside
    BY Zenon DEF setDefaults, At, Outside
  <1>2. rpc[r].pc \in Holds /\ rpc[r].pc \notin {"promote", "wait"}
    BY <1>1 DEF Holds
  <1>3. r \notin accepted
    BY Zenon, <1>1, NotYet DEF APIInv
  <1>4. CASE Answer(r, TRUE)
    BY Zenon, <1>1, <1>2, <1>3, <1>4, ReturnKeeps
  <1>5. ASSUME NEW n, n = (IF args[r].nonce = None THEN pendNonce[args[r].from] ELSE args[r].nonce),
               Becomes(r, "sign", toTransaction(r, n), rpc[r].err), UNCHANGED addrMu
        PROVE  APIInv'
    <2>1. n \in Nat /\ args[r].from \in SigKeys
      <3>1. args[r].from \in SigKeys /\ args[r].nonce \in Nat \cup {None} /\ pendNonce \in [SigKeys -> Nat]
        BY Zenon, CallTypes DEF APIInv, APIShape
      <3> QED
        BY <3>1, <1>5
    <2> DEFINE t == toTransaction(r, n)
               c == [pc |-> "sign", tx |-> t, err |-> rpc[r].err]
    <2>2. rpc' = [rpc EXCEPT ![r] = c]
      BY Zenon, <1>5 DEF Becomes
    <2>3. t \in TxRecord /\ t.nonce = n /\ t # None
      BY Zenon, <2>1, TxMade, APIAssumption DEF APIInv
    <2>4. t = toTransaction(r, t.nonce)
      BY Zenon, <2>3
    <2> HIDE DEF t
    <2>5. c \in CallRecord
      <3>1. rpc[r].err \in BOOLEAN
        BY Zenon, CallTypes DEF APIInv
      <3> QED
        BY <2>3, <3>1 DEF CallRecord, Pcs
    <2>6. rpc'[r] = c /\ \A q \in Requests : q # r => rpc'[q] = rpc[q]
      BY Zenon, <2>2, <2>5, RpcAt DEF APIInv, APIShape
    <2>7. args' = args /\ accepted' = accepted
      BY Zenon, <1>1, OutsideKept
    <2>8. c.pc = "sign" /\ c.tx = t
      OBVIOUS
    <2> HIDE DEF c
    <2>9. "sign" \in Made /\ "sign" \in Holds /\ "sign" \notin {"promote", "reorg", "wait", "submitted"} /\ "sign" # "promote" /\ "sign" # "lock" /\ "sign" # "done"
      BY DEF Made, Holds
    <2>10. AnswerOf(r)'
      <3>1. rpc'[r].pc = "sign" /\ rpc'[r].tx = t
        BY Zenon, <2>6, <2>8
      <3>2. args[r].nonce # None => t.nonce = args[r].nonce
        BY Zenon, <2>3, <1>5
      <3> QED
        BY Zenon, <3>1, <3>2, <2>3, <2>4, <2>7, <2>9, <1>3 DEF AnswerOf, toTransaction
    <2>11. Mutexes'
      <3>1. rpc'[r].pc \in Holds
        BY Zenon, <2>6, <2>8, <2>9
      <3>2. Mutexes /\ addrMu \in [SigKeys -> Requests \cup {None}] /\ addrMu' = addrMu
        BY Zenon, <1>5 DEF APIInv, APIShape
      <3> QED
        BY Zenon, <3>1, <3>2, <2>6, <2>7, <1>2, MutexSame
    <2>12. addrMu' \in [SigKeys -> Requests \cup {None}]
      BY Zenon, <1>5 DEF APIInv, APIShape
    <2>13. At(r, "defaults") /\ (args[r].nonce = None => c.tx.nonce = pendNonce[args[r].from])
      BY Zenon, <1>1, <1>5, <2>3, <2>8 DEF At
    <2> QED
      BY Zenon, <1>1, <1>2, <1>3, <2>2, <2>5, <2>10, <2>11, <2>12, <2>13, CallKeeps
  <1> QED
    BY Zenon, <1>4, <1>5 DEF setDefaults

\* Signing changes neither the lists nor the nonce.
LEMMA SignKeeps == ASSUME APIInv, NEW r \in Requests, SignRequest(r) PROVE APIInv'
  <1>1. rpc[r].pc = "sign" /\ Outside
    BY Zenon DEF SignRequest, At, Outside
  <1>2. rpc[r].pc \in Holds /\ rpc[r].pc \notin {"promote", "wait"} /\ rpc[r].pc \in Made /\ "add" \in Made
    BY <1>1 DEF Holds, Made
  <1>3. r \notin accepted
    BY Zenon, <1>1, NotYet DEF APIInv
  <1>4. CASE Answer(r, TRUE)
    BY Zenon, <1>1, <1>2, <1>3, <1>4, ReturnKeeps
  <1>5. CASE Goes(r, "add") /\ UNCHANGED addrMu
    BY Zenon, <1>1, <1>2, <1>5, GoesKeeps
  <1> QED
    BY Zenon, <1>4, <1>5 DEF SignRequest

\* addTxs refuses a transaction that the pool has: the call ends with an error.
LEMMA FilteredKeeps == ASSUME APIInv, NEW r \in Requests, Filtered(r) PROVE APIInv'
  <1>1. rpc[r].pc = "add" /\ Outside
    BY Zenon DEF Filtered, At, Outside
  <1>2. rpc[r].pc \in Holds /\ rpc[r].pc \notin {"promote", "wait"} /\ rpc[r].pc \in Made /\ "locked" \in Made
    BY <1>1 DEF Holds, Made
  <1>3. r \notin accepted
    BY Zenon, <1>1, NotYet DEF APIInv
  <1>4. CASE Answer(r, TRUE)
    BY Zenon, <1>1, <1>2, <1>3, <1>4, ReturnKeeps
  <1>5. CASE Goes(r, "locked") /\ UNCHANGED addrMu
    BY Zenon, <1>1, <1>2, <1>5, GoesKeeps
  <1> QED
    BY Zenon, <1>4, <1>5 DEF Filtered

\* SubmitTransaction returns the pool's answer and the deferred UnlockAddr frees the address.
LEMMA SubmitKeeps == ASSUME APIInv, NEW r \in Requests, SubmitTransaction(r) PROVE APIInv'
  <1> DEFINE e == rpc[r].err \/ (~args[r].to /\ SignerSender(MakeSigner, Signed(r)) = None)
  <1>1. rpc[r].pc = "submitted" /\ Outside /\ Answer(r, e)
    BY Zenon DEF SubmitTransaction, At, Outside
  <1>2. rpc[r].pc \in Holds /\ rpc[r].pc \notin {"promote", "wait"} /\ rpc[r].pc \in {"promote", "reorg", "wait", "submitted"}
    BY <1>1 DEF Holds
  <1>3. rpc[r].err \in BOOLEAN /\ (r \in accepted <=> ~rpc[r].err)
    BY Zenon, <1>2, CallTypes DEF APIInv, Answers, AnswerOf
  <1>4. e \in BOOLEAN /\ (args[r].to => (r \in accepted <=> ~e))
    BY Zenon, <1>3
  <1> HIDE DEF e
  <1> QED
    BY Zenon, <1>1, <1>2, <1>4, ReturnKeeps

------------------------------------------------------------------------------
(* Steps of the reorg loop that leave the lists alone, and a new block. *)

\* A step that changes no call keeps the mutexes and the answers.
LEMMA CallsSame ==
  ASSUME Mutexes, Answers, UNCHANGED <<args, rpc, addrMu, accepted>> PROVE Mutexes' /\ Answers'
  <1>1. Mutexes'
    BY Zenon DEF Mutexes
  <1>2. Answers'
    BY Zenon DEF Answers, AnswerOf, toTransaction
  <1> QED
    BY Zenon, <1>1, <1>2

\* LeavesLists of a step in which the calls keep their transactions and their promotions.
LEMMA ListsLeft ==
  ASSUME APIInv, UNCHANGED <<args, accepted, PoolLists>>, merged => merged',
         \A x \in Requests : rpc'[x].tx = rpc[x].tx /\ (Pending(x) => Pending(x)') /\ (rpc'[x].pc \in Made => rpc[x].pc \in Made)
  PROVE  \A a \in SigKeys : LeavesLists(a)
  <1>1. UNCHANGED <<pend, que, pendNonce>> /\ accepted \subseteq Requests
    BY Zenon DEF PoolLists, APIInv, APIShape
  <1> QED
    BY Zenon, <1>1 DEF LeavesLists

\* requestPromoteExecutables puts the account in the next run, which the call waits for.
LEMMA RequestKeeps == ASSUME APIInv, NEW r \in Requests, requestPromote(r) PROVE APIInv'
  <1> DEFINE c == [pc |-> "wait", tx |-> rpc[r].tx, err |-> rpc[r].err]
  <1>1. /\ rpc[r].pc \in {"promote", "reorg"} /\ rpc' = [rpc EXCEPT ![r] = c]
        /\ UNCHANGED <<args, addrMu, PoolLists, chainNonce, curRun, heads, accepted, merged>>
    BY Zenon DEF requestPromote, Goes, Becomes, Waits
  <1>2. c \in CallRecord
    <2>1. rpc[r].tx \in TxRecord \cup {None} /\ rpc[r].err \in BOOLEAN
      BY Zenon, CallTypes DEF APIInv
    <2> QED
      BY <2>1 DEF CallRecord, Pcs
  <1>3. rpc' \in [Requests -> CallRecord] /\ rpc'[r] = c /\ \A q \in Requests : q # r => rpc'[q] = rpc[q]
    BY Zenon, <1>1, <1>2, RpcAt DEF APIInv, APIShape
  <1>4. c.pc = "wait" /\ c.tx = rpc[r].tx /\ c.err = rpc[r].err
    OBVIOUS
  <1> HIDE DEF c
  <1>5. rpc'[r].pc = "wait" /\ rpc'[r].tx = rpc[r].tx /\ rpc'[r].err = rpc[r].err
    BY Zenon, <1>3, <1>4
  <1>6. /\ nextRun' \in NextRecord /\ nextRun'.waits = nextRun.waits \cup {r}
        /\ nextRun.dirty \subseteq nextRun'.dirty /\ (rpc[r].pc = "promote" => args[r].from \in nextRun'.dirty)
    <2>1. nextRun \in NextRecord /\ args[r].from \in SigKeys
      BY Zenon, CallTypes DEF APIInv, APIShape
    <2> QED
      BY <2>1 DEF requestPromote, NextRecord, At
  <1>7. /\ "wait" \in Holds /\ rpc[r].pc \in Holds /\ rpc[r].pc # "wait" /\ "wait" \notin Made
        /\ "wait" \notin {"find", "lock", "defaults"} /\ "wait" # "promote" /\ "wait" # "lock" /\ "wait" # "done"
    BY <1>1 DEF Holds, Made
  <1>8. APIShape'
    BY Zenon, <1>1, <1>3, <1>6 DEF APIInv, APIShape, PoolLists
  <1>9. Mutexes'
    <2>1. rpc'[r].pc \in Holds
      BY Zenon, <1>5, <1>7
    <2>2. Mutexes /\ addrMu \in [SigKeys -> Requests \cup {None}] /\ addrMu' = addrMu /\ args' = args
      BY Zenon, <1>1 DEF APIInv, APIShape
    <2> QED
      BY Zenon, <2>1, <2>2, <1>3, <1>7, MutexSame
  <1>10. Answers'
    <2>1. AnswerOf(r)'
      <3>1. /\ rpc[r].tx # None /\ rpc[r].tx = toTransaction(r, rpc[r].tx.nonce)
            /\ (args[r].nonce # None => rpc[r].tx.nonce = args[r].nonce)
            /\ (r \in accepted <=> ~rpc[r].err)
        BY Zenon, <1>1 DEF APIInv, Answers, AnswerOf
      <3> QED
        BY Zenon, <3>1, <1>1, <1>5, <1>7 DEF AnswerOf, toTransaction
    <2>2. ASSUME NEW q \in Requests, q # r PROVE AnswerOf(q)'
      <3>1. rpc'[q] = rpc[q] /\ AnswerOf(q)
        BY Zenon, <1>3, <2>2 DEF APIInv, Answers
      <3> QED
        BY Zenon, <3>1, <1>1 DEF AnswerOf, toTransaction
    <2> QED
      BY Zenon, <2>1, <2>2 DEF Answers
  <1>11. Waiting'
    <2>1. \A q \in Requests : At(q, "wait") => q # r /\ At(q, "wait")'
      BY Zenon, <1>3, <1>7 DEF At
    <2>2. nextRun.waits \subseteq Requests /\ (curRun # None => curRun.waits \subseteq Requests)
      BY Zenon, RunTypes DEF APIInv
    <2>3. \A q \in nextRun'.waits : At(q, "wait")'
      BY Zenon, <2>1, <2>2, <1>5, <1>6 DEF APIInv, Waiting, At
    <2>4. curRun # None => \A q \in curRun.waits : At(q, "wait")' /\ q \notin nextRun'.waits
      BY Zenon, <2>1, <2>2, <1>6 DEF APIInv, Waiting
    <2> QED
      BY Zenon, <2>3, <2>4, <1>1 DEF APIInv, Waiting
  <1>12. \A a \in SigKeys : LeavesLists(a)
    <2>1. ASSUME NEW x \in Requests PROVE rpc'[x].tx = rpc[x].tx /\ (rpc'[x].pc \in Made => rpc[x].pc \in Made)
      BY Zenon, <1>3, <1>5, <1>7
    <2>2. ASSUME NEW x \in Requests, Pending(x) PROVE Pending(x)'
      <3>1. CASE x = r
        <4>1. At(x, "wait")' /\ x \in nextRun'.waits
          BY Zenon, <3>1, <1>5, <1>6 DEF At
        <4>2. rpc[r].pc = "promote"
          BY Zenon, <3>1, <2>2, <1>7 DEF Pending, At
        <4> QED
          BY Zenon, <3>1, <4>1, <4>2, <1>1, <1>6 DEF Pending
      <3>2. CASE x # r
        <4>1. rpc'[x] = rpc[x] /\ (x \in nextRun.waits => x \in nextRun'.waits)
          BY Zenon, <3>2, <1>3, <1>6
        <4> QED
          BY Zenon, <4>1, <2>2, <1>1, <1>6 DEF Pending, At
      <3> QED
        BY Zenon, <3>1, <3>2
    <2> QED
      BY Zenon, <2>1, <2>2, <1>1, ListsLeft
  <1>13. \A a \in SigKeys : Calm(a) => Chunk(a)'
    BY Zenon, <1>1, ChunkFrame DEF APIInv, Orderly
  <1> QED
    BY Zenon, <1>1, <1>8, <1>9, <1>10, <1>11, <1>12, <1>13, FrameKeeps

\* The loop launches the next run: what waited for it now waits for the current one.
LEMMA LaunchKeeps == ASSUME APIInv, LaunchRun PROVE APIInv'
  <1>1. /\ curRun = None /\ UNCHANGED <<args, rpc, addrMu, PoolLists, chainNonce, heads, accepted>>
        /\ merged' = (merged \/ (nextRun.reset /\ nextRun.waits # {}))
        /\ curRun' = [dirty |-> nextRun.dirty, waits |-> nextRun.waits, reset |-> nextRun.reset, ran |-> FALSE]
        /\ nextRun' = NoRun
    BY Zenon DEF LaunchRun
  <1>2. /\ curRun' \in RunRecord /\ curRun'.waits = nextRun.waits /\ curRun'.dirty = nextRun.dirty
        /\ curRun'.reset = nextRun.reset /\ ~curRun'.ran
    <2>1. nextRun \in NextRecord
      BY Zenon DEF APIInv, APIShape
    <2> QED
      BY <2>1, <1>1 DEF NextRecord, RunRecord
  <1>3. nextRun' \in NextRecord /\ nextRun'.waits = {} /\ nextRun'.dirty = {}
    BY <1>1 DEF NextRecord, NoRun
  <1>4. curRun' # None
    BY Zenon, <1>2, APIAssumption
  <1>5. merged' \in BOOLEAN /\ (merged => merged')
    BY Zenon, <1>1 DEF APIInv, APIShape
  <1>6. APIShape'
    BY Zenon, <1>1, <1>2, <1>3, <1>5 DEF APIInv, APIShape, PoolLists
  <1>7. Mutexes' /\ Answers'
    BY Zenon, <1>1, CallsSame DEF APIInv
  <1>8. Waiting'
    <2>1. \A q \in curRun'.waits : At(q, "wait")'
      BY Zenon, <1>1, <1>2 DEF APIInv, Waiting, At
    <2>2. ~merged' /\ curRun'.reset => curRun'.waits = {}
      BY Zenon, <1>1, <1>2
    <2> QED
      BY Zenon, <2>1, <2>2, <1>3 DEF Waiting
  <1>9. \A a \in SigKeys : LeavesLists(a)
    <2>1. ASSUME NEW x \in Requests, Pending(x) PROVE Pending(x)'
      BY Zenon, <2>1, <1>1, <1>2, <1>4 DEF Pending, At
    <2> QED
      BY Zenon, <2>1, <1>1, <1>5, ListsLeft
  <1>10. \A a \in SigKeys : Calm(a) => Chunk(a)'
    BY Zenon, <1>1, ChunkFrame DEF APIInv, Orderly
  <1> QED
    BY Zenon, <1>1, <1>6, <1>7, <1>8, <1>9, <1>10, FrameKeeps

\* A run that is over has promoted the accounts of those that wait for it.
LEMMA DoneKeeps == ASSUME APIInv, RunDone PROVE APIInv'
  <1>1. /\ curRun # None /\ curRun.ran /\ curRun' = None
        /\ UNCHANGED <<args, addrMu, PoolLists, chainNonce, nextRun, heads, accepted, merged>>
    BY Zenon DEF RunDone
  <1> DEFINE Told(x) == x \in curRun.waits /\ At(x, "wait")
  <1>2. ASSUME NEW x \in Requests
        PROVE  /\ rpc'[x] \in CallRecord
               /\ Told(x) => rpc'[x].pc = "submitted" /\ rpc'[x].tx = rpc[x].tx /\ rpc'[x].err = rpc[x].err
               /\ ~Told(x) => rpc'[x] = rpc[x]
    <2>1. rpc[x] \in CallRecord
      BY Zenon DEF APIInv, APIShape
    <2>2. rpc'[x] = IF Told(x) THEN [rpc[x] EXCEPT !.pc = "submitted"] ELSE rpc[x]
      BY Zenon DEF RunDone
    <2>3. /\ [rpc[x] EXCEPT !.pc = "submitted"] \in CallRecord /\ [rpc[x] EXCEPT !.pc = "submitted"].pc = "submitted"
          /\ [rpc[x] EXCEPT !.pc = "submitted"].tx = rpc[x].tx /\ [rpc[x] EXCEPT !.pc = "submitted"].err = rpc[x].err
      BY <2>1 DEF CallRecord, Pcs
    <2> HIDE DEF Told
    <2> QED
      BY Zenon, <2>1, <2>2, <2>3
  <1>3. rpc' \in [Requests -> CallRecord]
    <2>1. rpc' = [x \in Requests |-> rpc'[x]]
      BY DEF RunDone
    <2> QED
      BY Zenon, <2>1, <1>2
  <1>4. /\ {"submitted", "wait"} \subseteq Holds /\ "submitted" \notin Made
        /\ "submitted" \notin {"find", "lock", "defaults"} /\ "submitted" # "promote" /\ "submitted" # "lock" /\ "submitted" # "done"
    BY DEF Holds, Made
  <1>5. \A x \in Requests : /\ rpc'[x].tx = rpc[x].tx /\ (rpc'[x].pc \in Made => rpc[x].pc \in Made)
                            /\ (rpc'[x].pc \in Holds <=> rpc[x].pc \in Holds)
    BY Zenon, <1>2, <1>4 DEF At
  <1>6. APIShape'
    BY Zenon, <1>1, <1>3 DEF APIInv, APIShape, PoolLists
  <1>7. Mutexes'
    <2>1. \A b \in SigKeys : addrMu[b] # None => addrMu[b] \in Requests
      BY Zenon DEF APIInv, APIShape
    <2> QED
      BY Zenon, <2>1, <1>1, <1>5 DEF APIInv, Mutexes
  <1>8. Answers'
    <2> SUFFICES ASSUME NEW x \in Requests PROVE AnswerOf(x)'
      BY Zenon DEF Answers
    <2>1. AnswerOf(x)
      BY Zenon DEF APIInv, Answers
    <2>2. CASE Told(x)
      <3>1. rpc[x].pc = "wait" /\ rpc'[x].pc = "submitted" /\ rpc'[x].tx = rpc[x].tx /\ rpc'[x].err = rpc[x].err
        BY Zenon, <2>2, <1>2 DEF At
      <3>2. rpc[x].pc \in {"promote", "reorg", "wait", "submitted"}
        BY Zenon, <3>1
      <3> QED
        BY Zenon, <2>1, <3>1, <3>2, <1>1, <1>4 DEF AnswerOf, toTransaction
    <2>3. CASE ~Told(x)
      BY Zenon, <2>1, <2>3, <1>1, <1>2 DEF AnswerOf, toTransaction
    <2> QED
      BY Zenon, <2>2, <2>3
  <1>9. \A x \in Requests : x \in nextRun.waits => ~Told(x)
    BY Zenon, <1>1 DEF APIInv, Waiting
  <1>10. Waiting'
    <2>1. nextRun.waits \subseteq Requests
      BY Zenon, RunTypes DEF APIInv
    <2> QED
      BY Zenon, <2>1, <1>1, <1>2, <1>9 DEF APIInv, Waiting, At
  <1>11. \A a \in SigKeys : LeavesLists(a)
    <2>1. ASSUME NEW x \in Requests, Pending(x) PROVE Pending(x)'
      <3>1. ~Told(x)
        <4>1. CASE At(x, "promote")
          <5>1. ~At(x, "wait")
            BY <4>1 DEF At
          <5> QED
            BY Zenon, <5>1
        <4>2. CASE x \in nextRun.waits
          BY Zenon, <4>2, <1>9
        <4> QED
          BY Zenon, <4>1, <4>2, <2>1, <1>1 DEF Pending
      <3>2. rpc'[x] = rpc[x]
        BY Zenon, <3>1, <1>2
      <3> QED
        BY Zenon, <3>2, <2>1, <1>1 DEF Pending, At
    <2> QED
      BY Zenon, <2>1, <1>1, <1>5, ListsLeft
  <1>12. \A a \in SigKeys : Calm(a) => Chunk(a)'
    BY Zenon, <1>1, ChunkFrame DEF APIInv, Orderly
  <1> QED
    BY Zenon, <1>1, <1>6, <1>7, <1>8, <1>10, <1>11, <1>12, FrameKeeps

\* A block takes pending transactions in turn: its nonces do not pass the virtual ones.
LEMMA HeadKeeps == ASSUME APIInv, NewHead PROVE APIInv'
  <1>1. PICK n \in [SigKeys -> 0..Cardinality(Requests)] :
          /\ \A a \in SigKeys : n[a] >= chainNonce[a] /\ \A k \in chainNonce[a]..(n[a] - 1) : \E t \in pend[a] : t.nonce = k
          /\ chainNonce' = n
    BY Zenon DEF NewHead
  <1>2. /\ UNCHANGED <<args, rpc, addrMu, PoolLists, curRun, accepted, merged>>
        /\ nextRun' = [dirty |-> nextRun.dirty, waits |-> nextRun.waits, reset |-> TRUE]
    BY Zenon DEF NewHead
  <1>3. \A a \in SigKeys : n[a] \in Nat
    BY <1>1
  <1>4. nextRun' \in NextRecord /\ nextRun'.waits = nextRun.waits /\ nextRun'.dirty = nextRun.dirty
    <2>1. nextRun \in NextRecord
      BY Zenon DEF APIInv, APIShape
    <2> QED
      BY <2>1, <1>2 DEF NextRecord
  <1>5. APIShape'
    <2>1. chainNonce' \in [SigKeys -> Nat]
      BY <1>1, <1>3
    <2> QED
      BY Zenon, <2>1, <1>2, <1>4 DEF APIInv, APIShape, PoolLists
  <1>6. Mutexes' /\ Answers'
    BY Zenon, <1>2, CallsSame DEF APIInv
  <1>7. Waiting'
    BY Zenon, <1>2, <1>4 DEF APIInv, Waiting, At
  <1>8. \A a \in SigKeys : LeavesLists(a)
    <2>1. \A x \in Requests : Pending(x) => Pending(x)'
      BY Zenon, <1>2, <1>4 DEF Pending, At
    <2> QED
      BY Zenon, <2>1, <1>2, ListsLeft
  <1>9. ASSUME NEW a \in SigKeys, Calm(a) PROVE Chunk(a)'
    <2>1. Chunk(a) /\ pend[a] \subseteq TxRecord /\ headNonce[a] \in Nat /\ pendNonce[a] \in Nat /\ chainNonce[a] \in Nat
      BY Zenon, <1>9, ListTypes DEF APIInv, Orderly
    <2>2. n[a] <= pendNonce[a]
      <3> SUFFICES ASSUME ~(n[a] <= pendNonce[a]) PROVE FALSE
        OBVIOUS
      <3>1. chainNonce[a] <= pendNonce[a] /\ n[a] \in Nat
        BY Zenon, <2>1, <1>3 DEF Chunk
      <3>2. pendNonce[a] \in chainNonce[a]..(n[a] - 1)
        BY <2>1, <3>1
      <3>3. PICK t \in pend[a] : t.nonce = pendNonce[a]
        BY Zenon, <3>2, <1>1
      <3>4. t.nonce < pendNonce[a]
        BY Zenon, <2>1 DEF Chunk
      <3> QED
        BY <3>3, <3>4, <2>1
    <2>3. headNonce[a] <= n[a]
      <3>1. headNonce[a] <= chainNonce[a] /\ n[a] >= chainNonce[a] /\ n[a] \in Nat
        BY Zenon, <2>1, <1>1, <1>3 DEF Chunk
      <3> QED
        BY <3>1, <2>1
    <2>4. chainNonce'[a] = n[a] /\ UNCHANGED <<pend, que, headNonce, pendNonce>>
      BY Zenon, <1>1, <1>2 DEF PoolLists
    <2> QED
      BY Zenon, <2>1, <2>2, <2>3, <2>4 DEF Chunk
  <1> QED
    BY Zenon, <1>2, <1>5, <1>6, <1>7, <1>8, <1>9, FrameKeeps

\* Nothing happens.
LEMMA StutterKeeps == ASSUME APIInv, UNCHANGED apiVars PROVE APIInv'
  <1>1. UNCHANGED <<args, rpc, addrMu, PoolLists, chainNonce, nextRun, curRun, heads, accepted, merged>>
    BY Zenon DEF apiVars, PoolLists
  <1>2. APIShape'
    BY Zenon, <1>1 DEF APIInv, APIShape, PoolLists
  <1>3. Mutexes' /\ Answers'
    BY Zenon, <1>1, CallsSame DEF APIInv
  <1>4. Waiting'
    BY Zenon, <1>1 DEF APIInv, Waiting, At
  <1>5. \A a \in SigKeys : LeavesLists(a)
    <2>1. \A x \in Requests : Pending(x) => Pending(x)'
      BY Zenon, <1>1 DEF Pending, At
    <2> QED
      BY Zenon, <2>1, <1>1, ListsLeft
  <1>6. \A a \in SigKeys : Calm(a) => Chunk(a)'
    BY Zenon, <1>1, ChunkFrame DEF APIInv, Orderly
  <1> QED
    BY Zenon, <1>1, <1>2, <1>3, <1>4, <1>5, <1>6, FrameKeeps

------------------------------------------------------------------------------
(* addTxsLocked. *)

\* What the pool does with the call r besides the lists, when it takes the transaction.
Accepts(r) ==
  /\ UNCHANGED <<args, headNonce, pendNonce, chainNonce, nextRun, curRun, merged>>
  /\ accepted' = accepted \cup {r}
  /\ rpc'[r].tx = rpc[r].tx /\ rpc'[r].pc \in {"promote", "reorg"}
  /\ \A q \in Requests : q # r => rpc'[q] = rpc[q]

\* The transaction of a call that enters the pool.
LEMMA LockedTx ==
  ASSUME APIInv, NEW r \in Requests, At(r, "locked")
  PROVE  /\ rpc[r].tx \in TxRecord /\ rpc[r].tx.nonce \in Nat /\ rpc[r].tx.from = args[r].from
         /\ rpc[r].tx.gas = (IF args[r].gas = None THEN 0 ELSE args[r].gas)
         /\ r \notin accepted /\ (args[r].nonce # None => rpc[r].tx.nonce = args[r].nonce)
  <1>1. /\ rpc[r].tx # None /\ rpc[r].tx = toTransaction(r, rpc[r].tx.nonce) /\ r \notin accepted
        /\ (args[r].nonce # None => rpc[r].tx.nonce = args[r].nonce)
    BY Zenon DEF APIInv, Answers, AnswerOf, At, Made
  <1>2. rpc[r].tx \in TxRecord
    BY Zenon, <1>1, CallTypes DEF APIInv
  <1>3. rpc[r].tx.nonce \in Nat
    BY Zenon, <1>2, TxFields
  <1>4. /\ toTransaction(r, rpc[r].tx.nonce).from = args[r].from
        /\ toTransaction(r, rpc[r].tx.nonce).gas = (IF args[r].gas = None THEN 0 ELSE args[r].gas)
    BY Zenon, <1>3, TxMade DEF APIInv
  <1> QED
    BY Zenon, <1>1, <1>2, <1>3, <1>4

\* The calls that get in the way grow with the accepted ones.
LEMMA CallsGrow ==
  ASSUME NEW a, NEW r, Accepts(r)
  PROVE  /\ ByHand(a) \subseteq ByHand(a)' /\ Limited(a) \subseteq Limited(a)' /\ (Calm(a)' => Calm(a))
         /\ \A n : Disturbed(a, n) => Disturbed(a, n)'
         /\ \A x : AutoOf(x, a)' = AutoOf(x, a)
  <1>1. ByHand(a) \subseteq ByHand(a)' /\ Limited(a) \subseteq Limited(a)'
    BY Zenon DEF Accepts, ByHand, Limited
  <1>2. \A n : Disturbed(a, n) => Disturbed(a, n)'
    <2> SUFFICES ASSUME NEW n, Disturbed(a, n) PROVE Disturbed(a, n)'
      OBVIOUS
    <2>1. CASE \E x \in ByHand(a) : args[x].nonce = n
      BY Zenon, <2>1, <1>1 DEF Disturbed, Accepts
    <2>2. CASE ByHand(a) # {} /\ Limited(a) # {}
      <3>1. ByHand(a)' # {} /\ Limited(a)' # {}
        BY Zenon, <2>2, <1>1
      <3> QED
        BY Zenon, <3>1 DEF Disturbed
    <2> QED
      BY Zenon, <2>1, <2>2 DEF Disturbed
  <1>3. \A x : AutoOf(x, a)' = AutoOf(x, a)
    BY Zenon DEF AutoOf, Automatic, Accepts
  <1>4. Calm(a)' => Calm(a)
    <2>1. ByHand(a)' = {} => ByHand(a) = {}
      BY Zenon, <1>1
    <2>2. Limited(a)' = {} => Limited(a) = {}
      BY Zenon, <1>1
    <2> QED
      BY Zenon, <2>1, <2>2 DEF Calm, Accepts
  <1> QED
    BY Zenon, <1>1, <1>2, <1>3, <1>4

\* The nonces that were given, when the pool takes the transaction of r: the mutex of the
\* address keeps every other call with a nonce of the node away.
LEMMA AcceptKeeps ==
  ASSUME APIInv, NEW r \in Requests, At(r, "locked"), Accepts(r), NEW a \in SigKeys, args[r].from = a, Calm(a)'
  PROVE  Given(a)' /\ AheadOf(a)' /\ Differ(a)'
  <1>1. /\ ByHand(a) \subseteq ByHand(a)' /\ Calm(a)
        /\ \A n : Disturbed(a, n) => Disturbed(a, n)'
        /\ \A x : AutoOf(x, a)' = AutoOf(x, a)
    BY Zenon, CallsGrow
  <1>2. Given(a) /\ AheadOf(a) /\ Differ(a) /\ accepted \subseteq Requests /\ Mutexes
    BY Zenon, <1>1 DEF APIInv, APIShape, Orderly
  <1>3. rpc[r].pc \in Made /\ rpc[r].pc \in Holds /\ rpc'[r].pc \notin Made
    BY DEF Accepts, Made, Holds, At
  <1>4. r \notin accepted
    BY Zenon, NotYet DEF APIInv, At
  <1>5. Given(a)'
    <2> SUFFICES ASSUME NEW q \in Requests, args'[q].from = a, args'[q].nonce = None, rpc'[q].pc \in Made
                 PROVE  /\ rpc'[q].tx.nonce <= pendNonce'[a]
                        /\ ByHand(a)' = {} => rpc'[q].tx.nonce = pendNonce'[a]
      BY Zenon DEF Given
    <2>1. q # r
      BY Zenon, <1>3
    <2>2. rpc'[q] = rpc[q] /\ args' = args /\ pendNonce' = pendNonce
      BY Zenon, <2>1 DEF Accepts
    <2>3. ByHand(a)' = {} => ByHand(a) = {}
      BY Zenon, <1>1
    <2> QED
      BY Zenon, <2>2, <2>3, <1>2 DEF Given
  <1>6. AheadOf(a)'
    <2> SUFFICES ASSUME NEW q \in Requests, NEW x \in accepted', AutoOf(q, a)', rpc'[q].pc \in Made,
                        AutoOf(x, a)', ~Disturbed(a, rpc[x].tx.nonce)'
                 PROVE  rpc'[x].tx.nonce < rpc'[q].tx.nonce
      BY Zenon DEF AheadOf
    <2>1. q # r /\ AutoOf(q, a) /\ AutoOf(x, a)
      BY Zenon, <1>1, <1>3
    <2>2. rpc'[q] = rpc[q]
      BY Zenon, <2>1 DEF Accepts
    <2>3. x # r
      <3> SUFFICES ASSUME x = r PROVE FALSE
        BY Zenon
      <3>1. rpc[q].pc \in Holds
        BY <2>2 DEF Made, Holds
      <3>2. args[q].from = args[r].from /\ args[q].nonce = None /\ args[r].nonce = None
        BY Zenon, <2>1 DEF AutoOf, Automatic
      <3> QED
        BY Zenon, <3>1, <3>2, <2>1, <1>2, <1>3, OneHolder
    <2>4. x \in accepted /\ rpc'[x] = rpc[x]
      BY Zenon, <2>3, <1>2 DEF Accepts
    <2>5. ~Disturbed(a, rpc[x].tx.nonce)
      BY Zenon, <2>4, <1>1
    <2> QED
      BY Zenon, <2>1, <2>2, <2>4, <2>5, <1>2 DEF AheadOf
  <1>7. Differ(a)'
    <2> SUFFICES ASSUME NEW x \in accepted', NEW q \in accepted', x # q, AutoOf(x, a)', AutoOf(q, a)',
                        rpc'[x].tx.nonce = rpc'[q].tx.nonce
                 PROVE  Disturbed(a, rpc[x].tx.nonce)'
      BY Zenon DEF Differ
    <2>1. AutoOf(x, a) /\ AutoOf(q, a)
      BY Zenon, <1>1
    <2>2. rpc'[x].tx = rpc[x].tx /\ rpc'[q].tx = rpc[q].tx
      BY Zenon, <1>2 DEF Accepts
    <2>3. Disturbed(a, rpc[x].tx.nonce)
      <3>1. CASE x = r
        <4>1. q \in accepted /\ q \in Requests
          BY Zenon, <3>1, <1>2 DEF Accepts
        <4>2. ~(rpc[q].tx.nonce < rpc[r].tx.nonce)
          <5>1. rpc[q].tx.nonce = rpc[r].tx.nonce /\ rpc[r].tx.nonce \in Nat
            BY Zenon, <3>1, <2>2, LockedTx
          <5> QED
            BY <5>1
        <4> QED
          BY Zenon, <3>1, <4>1, <4>2, <2>1, <2>2, <1>2, <1>3 DEF AheadOf
      <3>2. CASE q = r
        <4>1. x \in accepted /\ x \in Requests
          BY Zenon, <3>2, <1>2 DEF Accepts
        <4>2. ~(rpc[x].tx.nonce < rpc[r].tx.nonce)
          <5>1. rpc[x].tx.nonce = rpc[r].tx.nonce /\ rpc[r].tx.nonce \in Nat
            BY Zenon, <3>2, <2>2, LockedTx
          <5> QED
            BY <5>1
        <4> QED
          BY Zenon, <3>2, <4>1, <4>2, <2>1, <1>2, <1>3 DEF AheadOf
      <3>3. CASE x # r /\ q # r
        <4>1. x \in accepted /\ q \in accepted
          BY Zenon, <3>3 DEF Accepts
        <4> QED
          BY Zenon, <4>1, <2>1, <2>2, <1>2 DEF Differ
      <3> QED
        BY Zenon, <3>1, <3>2, <3>3
    <2> QED
      BY Zenon, <2>2, <2>3, <1>1
  <1> QED
    BY Zenon, <1>5, <1>6, <1>7

\* A transaction takes the place of a pending one.
LEMMA PutPend ==
  ASSUME APIInv, NEW r \in Requests, At(r, "locked"), Accepts(r), NEW a \in SigKeys, args[r].from = a,
         NEW t, t = rpc[r].tx, Overlaps(pend[a], t) # {}, pend'[a] = PutTx(pend[a], t), que'[a] = que[a]
  PROVE  Lists(a)' /\ (Calm(a)' => Orderly(a)')
  <1>1. PICK u \in pend[a] : u.nonce = t.nonce
    BY Zenon DEF Overlaps
  <1>2. /\ Lists(a) /\ pend[a] \subseteq TxRecord /\ que[a] \subseteq TxRecord
        /\ headNonce[a] \in Nat /\ pendNonce[a] \in Nat /\ chainNonce[a] \in Nat
    BY Zenon, ListTypes DEF APIInv
  <1>3. t \in TxRecord /\ t.nonce \in Nat /\ t.from = a /\ r \notin accepted
    BY Zenon, LockedTx
  <1>4. \A x \in pend[a] \cup que[a] : x.nonce = t.nonce => x = u
    <2>1. u \in pend[a] \cup que[a] /\ \A x, y \in pend[a] \cup que[a] : x # y => x.nonce # y.nonce
      BY Zenon, <1>1, <1>2 DEF Lists
    <2> SUFFICES ASSUME NEW x \in pend[a] \cup que[a], x.nonce = t.nonce, x # u PROVE FALSE
      BY Zenon
    <2>2. x.nonce # u.nonce
      BY Zenon, <2>1
    <2> QED
      BY Zenon, <1>1, <2>2
  <1>5. pend'[a] = {x \in pend[a] : x.nonce # t.nonce} \cup {t}
    BY Zenon DEF PutTx, Overlaps
  <1>6. \A x \in que[a] : x.nonce # t.nonce
    <2>1. pend[a] \cap que[a] = {}
      BY Zenon, <1>2 DEF Lists
    <2> QED
      BY Zenon, <1>1, <1>4, <2>1
  <1>7. UNCHANGED <<args, headNonce, pendNonce, chainNonce, nextRun, curRun, merged>> /\ accepted' = accepted \cup {r}
    BY Zenon DEF Accepts
  <1>8. Lists(a)'
    <2>1. \A x \in pend'[a] \cup que'[a] : x.from = a
      BY Zenon, <1>2, <1>3, <1>5 DEF Lists
    <2>2. pend'[a] \cap que'[a] = {}
      BY Zenon, <1>2, <1>5, <1>6 DEF Lists
    <2>3. \A x, y \in pend'[a] \cup que'[a] : x # y => x.nonce # y.nonce
      <3>1. \A x \in pend'[a] \cup que'[a] : x # t => x \in pend[a] \cup que[a] /\ x.nonce # t.nonce
        BY Zenon, <1>5, <1>6
      <3> SUFFICES ASSUME NEW x \in pend'[a] \cup que'[a], NEW y \in pend'[a] \cup que'[a], x # y PROVE x.nonce # y.nonce
        BY Zenon
      <3>2. CASE x = t
        BY Zenon, <3>1, <3>2
      <3>3. CASE y = t
        BY Zenon, <3>1, <3>3
      <3>4. CASE x # t /\ y # t
        BY Zenon, <3>1, <3>4, <1>2 DEF Lists
      <3> QED
        BY Zenon, <3>2, <3>3, <3>4
    <2>4. \E b \in Nat : \A x \in pend'[a] \cup que'[a] : x.nonce <= b
      <3>1. PICK b \in Nat : \A x \in pend[a] \cup que[a] : x.nonce <= b
        BY Zenon, <1>2 DEF Lists
      <3>2. u.nonce <= b /\ t.nonce <= b
        BY Zenon, <1>1, <3>1
      <3>3. \A x \in pend'[a] \cup que'[a] : x = t \/ x \in pend[a] \cup que[a]
        BY Zenon, <1>5
      <3> QED
        BY Zenon, <3>1, <3>2, <3>3
    <2>5. pend[a] # {} /\ pendNonce[a] = Max(Nonces(pend[a])) + 1
      BY Zenon, <1>1, <1>2 DEF Lists
    <2>6. Nonces(pend'[a]) = Nonces(pend[a])
      <3>1. \A x \in pend'[a] : \E y \in pend[a] : y.nonce = x.nonce
        BY Zenon, <1>1, <1>5
      <3>2. \A y \in pend[a] : \E x \in pend'[a] : y.nonce = x.nonce
        <4> SUFFICES ASSUME NEW y \in pend[a] PROVE \E x \in pend'[a] : y.nonce = x.nonce
          OBVIOUS
        <4>1. CASE y.nonce = t.nonce
          BY Zenon, <1>5, <4>1
        <4>2. CASE y.nonce # t.nonce
          BY Zenon, <1>5, <4>2
        <4> QED
          BY Zenon, <4>1, <4>2
      <3>3. PICK P, Q : P = pend[a] /\ Q = pend'[a]
        OBVIOUS
      <3>4. (\A x \in Q : \E y \in P : y.nonce = x.nonce) /\ (\A y \in P : \E x \in Q : y.nonce = x.nonce)
        BY Zenon, <3>1, <3>2, <3>3
      <3>5. Nonces(Q) = Nonces(P)
        BY <3>4 DEF Nonces
      <3> QED
        BY Zenon, <3>3, <3>5
    <2>7. pendNonce'[a] = Max(Nonces(pend'[a])) + 1
      BY Zenon, <2>5, <2>6, <1>7
    <2> QED
      BY Zenon, <2>1, <2>2, <2>3, <2>4, <2>7 DEF Lists
  <1>9. ASSUME Calm(a)' PROVE Orderly(a)'
    <2>1. /\ ByHand(a) \subseteq ByHand(a)' /\ Calm(a)
          /\ \A n : Disturbed(a, n) => Disturbed(a, n)'
          /\ \A x : AutoOf(x, a)' = AutoOf(x, a)
      BY Zenon, <1>9, CallsGrow
    <2>2. Chunk(a) /\ Source(a) /\ Given(a) /\ Promoted(a) /\ accepted \subseteq Requests
      BY Zenon, <2>1 DEF APIInv, APIShape, Orderly
    <2>3. t.nonce >= headNonce[a] /\ t.nonce < pendNonce[a]
      BY <1>1, <1>2, <2>2 DEF Chunk
    <2>4. t.gas = 0
      <3> SUFFICES ASSUME t.gas # 0 PROVE FALSE
        OBVIOUS
      <3>1. args[r].gas \notin {None, 0}
        BY LockedTx
      <3>2. r \in Limited(a)'
        BY Zenon, <3>1, <1>7 DEF Limited
      <3>3. ByHand(a)' = {}
        BY Zenon, <3>2, <1>9 DEF Calm
      <3>4. args[r].nonce = None /\ ByHand(a) = {}
        BY Zenon, <3>3, <2>1, <1>7 DEF ByHand
      <3>5. rpc[r].pc \in Made
        BY DEF Made, At
      <3>6. t.nonce = pendNonce[a]
        BY Zenon, <3>4, <3>5, <2>2 DEF Given
      <3> QED
        BY <3>6, <2>3, <1>2
    <2>5. Chunk(a)'
      <3>1. \A x \in pend'[a] : headNonce[a] <= x.nonce /\ x.nonce < pendNonce[a] /\ x.gas = 0
        <4>1. headNonce[a] <= t.nonce
          BY <2>3, <1>2, <1>3
        <4> QED
          BY Zenon, <1>5, <2>2, <2>3, <2>4, <4>1 DEF Chunk
      <3>2. \A n \in headNonce[a]..(pendNonce[a] - 1) : \E x \in pend'[a] : x.nonce = n
        <4> SUFFICES ASSUME NEW n \in headNonce[a]..(pendNonce[a] - 1) PROVE \E x \in pend'[a] : x.nonce = n
          OBVIOUS
        <4>1. PICK x \in pend[a] : x.nonce = n
          BY Zenon, <2>2 DEF Chunk
        <4> QED
          BY Zenon, <4>1, <1>5
      <3> QED
        BY Zenon, <3>1, <3>2, <2>2, <1>7 DEF Chunk
    <2>6. \A x \in Requests : x # r => rpc'[x] = rpc[x] /\ (Pending(x) => Pending(x)')
      <3> SUFFICES ASSUME NEW x \in Requests, x # r PROVE rpc'[x] = rpc[x] /\ (Pending(x) => Pending(x)')
        OBVIOUS
      <3>1. rpc'[x] = rpc[x]
        BY Zenon DEF Accepts
      <3> QED
        BY Zenon, <3>1, <1>7 DEF Pending, At
    <2>7. Source(a)'
      <3> SUFFICES ASSUME NEW x \in que'[a], ~ \E q \in ByHand(a)' : args'[q].nonce = x.nonce
                   PROVE  \E q \in accepted' : rpc'[q].tx = x /\ args'[q].nonce = None /\ Pending(q)' /\ x.nonce = pendNonce'[a]
        BY Zenon DEF Source
      <3>1. PICK q \in accepted : rpc[q].tx = x /\ args[q].nonce = None /\ Pending(q) /\ x.nonce = pendNonce[a]
        BY Zenon, <2>1, <2>2, <1>7 DEF Source
      <3>2. q # r /\ q \in Requests
        BY Zenon, <1>3, <2>2
      <3> QED
        BY Zenon, <3>1, <3>2, <2>6, <1>7
    <2>8. Promoted(a)'
      <3> SUFFICES ASSUME NEW x \in accepted', AutoOf(x, a)', ~Disturbed(a, rpc[x].tx.nonce)'
                   PROVE  \/ rpc'[x].tx.nonce < pendNonce'[a]
                          \/ Pending(x)' /\ rpc'[x].tx \in que'[a] /\ rpc'[x].tx.nonce = pendNonce'[a]
        BY Zenon DEF Promoted
      <3>1. CASE x = r
        BY Zenon, <3>1, <2>3, <1>7 DEF Accepts
      <3>2. CASE x # r
        <4>1. x \in accepted /\ x \in Requests /\ rpc'[x] = rpc[x] /\ (Pending(x) => Pending(x)') /\ AutoOf(x, a)
          BY Zenon, <3>2, <2>1, <2>2, <2>6, <1>7
        <4>2. ~Disturbed(a, rpc[x].tx.nonce)
          BY Zenon, <4>1, <2>1
        <4> QED
          BY Zenon, <4>1, <4>2, <2>2, <1>7 DEF Promoted
      <3> QED
        BY Zenon, <3>1, <3>2
    <2>9. Given(a)' /\ AheadOf(a)' /\ Differ(a)'
      BY Zenon, <1>9, AcceptKeeps
    <2> QED
      BY Zenon, <2>5, <2>7, <2>8, <2>9 DEF Orderly
  <1> QED
    BY Zenon, <1>8, <1>9

\* A transaction enters the queue: it follows the pending ones, and only a nonce that was
\* given by hand can be in its way there.
LEMMA PutQueue ==
  ASSUME APIInv, NEW r \in Requests, At(r, "locked"), Accepts(r), NEW a \in SigKeys, args[r].from = a,
         NEW t, t = rpc[r].tx, Overlaps(pend[a], t) = {}, que'[a] = PutTx(que[a], t), pend'[a] = pend[a],
         t.nonce >= headNonce[a], Overlaps(que[a], t) = {} => rpc'[r].pc = "promote"
  PROVE  Lists(a)' /\ (Calm(a)' => Orderly(a)')
  <1>1. \A x \in pend[a] : x.nonce # t.nonce
    BY Zenon DEF Overlaps
  <1>2. /\ Lists(a) /\ pend[a] \subseteq TxRecord /\ que[a] \subseteq TxRecord
        /\ headNonce[a] \in Nat /\ pendNonce[a] \in Nat /\ chainNonce[a] \in Nat
    BY Zenon, ListTypes DEF APIInv
  <1>3. t \in TxRecord /\ t.nonce \in Nat /\ t.from = a /\ r \notin accepted
    BY Zenon, LockedTx
  <1>4. que'[a] = {x \in que[a] : x.nonce # t.nonce} \cup {t}
    BY Zenon DEF PutTx, Overlaps
  <1>5. UNCHANGED <<args, headNonce, pendNonce, chainNonce, nextRun, curRun, merged>> /\ accepted' = accepted \cup {r}
    BY Zenon DEF Accepts
  <1>6. Lists(a)'
    <2>1. \A x \in pend'[a] \cup que'[a] : x.from = a
      BY Zenon, <1>2, <1>3, <1>4 DEF Lists
    <2>2. pend'[a] \cap que'[a] = {}
      BY Zenon, <1>1, <1>2, <1>4 DEF Lists
    <2>3. \A x \in pend'[a] \cup que'[a] : x # t => x \in pend[a] \cup que[a] /\ x.nonce # t.nonce
      BY Zenon, <1>1, <1>4
    <2>4. \A x, y \in pend'[a] \cup que'[a] : x # y => x.nonce # y.nonce
      <3> SUFFICES ASSUME NEW x \in pend'[a] \cup que'[a], NEW y \in pend'[a] \cup que'[a], x # y PROVE x.nonce # y.nonce
        BY Zenon
      <3>2. CASE x = t
        BY Zenon, <2>3, <3>2
      <3>3. CASE y = t
        BY Zenon, <2>3, <3>3
      <3>4. CASE x # t /\ y # t
        BY Zenon, <2>3, <3>4, <1>2 DEF Lists
      <3> QED
        BY Zenon, <3>2, <3>3, <3>4
    <2>5. \E b \in Nat : \A x \in pend'[a] \cup que'[a] : x.nonce <= b
      <3>1. PICK b \in Nat : \A x \in pend[a] \cup que[a] : x.nonce <= b
        BY Zenon, <1>2 DEF Lists
      <3>2. b + t.nonce \in Nat /\ t.nonce <= b + t.nonce
        BY <1>3
      <3>3. \A x \in pend[a] \cup que[a] : x.nonce <= b + t.nonce
        <4> TAKE x \in pend[a] \cup que[a]
        <4>1. x.nonce \in Nat /\ x.nonce <= b
          BY Zenon, <3>1, <1>2, TxFields
        <4> QED
          BY <4>1, <1>3
      <3>4. \A x \in pend'[a] \cup que'[a] : x.nonce <= b + t.nonce
        BY Zenon, <3>2, <3>3, <2>3
      <3> QED
        BY Zenon, <3>2, <3>4
    <2> QED
      BY Zenon, <2>1, <2>2, <2>4, <2>5, <1>2, <1>5 DEF Lists
  <1>7. ASSUME Calm(a)' PROVE Orderly(a)'
    <2>1. /\ ByHand(a) \subseteq ByHand(a)' /\ Calm(a)
          /\ \A n : Disturbed(a, n) => Disturbed(a, n)'
          /\ \A x : AutoOf(x, a)' = AutoOf(x, a)
      BY Zenon, <1>7, CallsGrow
    <2>2. Chunk(a) /\ Source(a) /\ Given(a) /\ Promoted(a) /\ accepted \subseteq Requests /\ Mutexes
      BY Zenon, <2>1 DEF APIInv, APIShape, Orderly
    <2>3. t.nonce >= pendNonce[a]
      <3> SUFFICES ASSUME ~(t.nonce >= pendNonce[a]) PROVE FALSE
        OBVIOUS
      <3>1. t.nonce \in headNonce[a]..(pendNonce[a] - 1)
        BY <1>2, <1>3
      <3> QED
        BY Zenon, <3>1, <2>2, <1>1 DEF Chunk
    <2>4. Chunk(a)'
      <3>1. \A x \in que'[a] : x.nonce >= pendNonce[a]
        BY Zenon, <1>4, <2>2, <2>3 DEF Chunk
      <3> QED
        BY Zenon, <3>1, <2>2, <1>5 DEF Chunk
    <2>5. \A x \in Requests : x # r => rpc'[x] = rpc[x] /\ (Pending(x) => Pending(x)')
      <3> SUFFICES ASSUME NEW x \in Requests, x # r PROVE rpc'[x] = rpc[x] /\ (Pending(x) => Pending(x)')
        OBVIOUS
      <3>1. rpc'[x] = rpc[x]
        BY Zenon DEF Accepts
      <3> QED
        BY Zenon, <3>1, <1>5 DEF Pending, At
    <2>6. rpc[r].pc \in Made /\ rpc[r].pc \in Holds
      BY DEF At, Made, Holds
    <2>7. args[r].nonce = None => t.nonce = pendNonce[a]
      <3>1. args[r].nonce = None => t.nonce <= pendNonce[a]
        BY Zenon, <2>2, <2>6 DEF Given
      <3> QED
        BY <3>1, <2>3, <1>2, <1>3
    <2>8. args[r].nonce = None => \A q \in accepted : args[q].from = a /\ args[q].nonce = None => ~Pending(q)
      BY Zenon, <2>2, <2>6, <1>3, OneHolder, PendingHolds
    <2>9. args[r].nonce = None =>
            Pending(r)' \/ \E q \in ByHand(a) : args[q].nonce = t.nonce
      <3> SUFFICES ASSUME args[r].nonce = None, ~Pending(r)' PROVE \E q \in ByHand(a) : args[q].nonce = t.nonce
        OBVIOUS
      <3>0. rpc'[r].pc # "promote"
        BY Zenon DEF Pending, At
      <3>1. PICK u \in que[a] : u.nonce = t.nonce
        BY Zenon, <3>0 DEF Overlaps
      <3>2. ASSUME NEW q \in accepted, rpc[q].tx = u, args[q].nonce = None, Pending(q) PROVE FALSE
        <4>1. q \in Requests /\ rpc[q].tx \in pend[a] \cup que[a] /\ Answers
          BY Zenon, <3>2, <2>2 DEF APIInv
        <4>2. args[q].from = a
          BY Zenon, <4>1, <1>2, SourceFrom
        <4> QED
          BY Zenon, <4>2, <3>2, <2>8
      <3>3. ~ \E q \in accepted : rpc[q].tx = u /\ args[q].nonce = None /\ Pending(q) /\ u.nonce = pendNonce[a]
        BY Zenon, <3>2
      <3>4. \E q \in ByHand(a) : args[q].nonce = u.nonce
        BY Zenon, <3>3, <2>2 DEF Source
      <3> QED
        BY Zenon, <3>1, <3>4
    <2>10. Source(a)'
      <3> SUFFICES ASSUME NEW x \in que'[a], ~ \E q \in ByHand(a)' : args'[q].nonce = x.nonce
                   PROVE  \E q \in accepted' : rpc'[q].tx = x /\ args'[q].nonce = None /\ Pending(q)' /\ x.nonce = pendNonce'[a]
        BY Zenon DEF Source
      <3>1. CASE x = t
        <4>1. args[r].nonce = None
          <5> SUFFICES ASSUME args[r].nonce # None PROVE FALSE
            OBVIOUS
          <5>1. r \in ByHand(a)' /\ args[r].nonce = t.nonce
            BY Zenon, <1>5, LockedTx DEF ByHand
          <5> QED
            BY Zenon, <5>1, <3>1, <1>5
        <4>2. Pending(r)'
          BY Zenon, <4>1, <3>1, <2>1, <2>9, <1>5
        <4>3. rpc'[r].tx = t /\ r \in accepted'
          BY Zenon, <1>5 DEF Accepts
        <4> QED
          BY Zenon, <3>1, <4>1, <4>2, <4>3, <2>7, <1>5
      <3>2. CASE x # t
        <4>1. PICK q \in accepted : rpc[q].tx = x /\ args[q].nonce = None /\ Pending(q) /\ x.nonce = pendNonce[a]
          BY Zenon, <3>2, <1>4, <2>1, <2>2, <1>5 DEF Source
        <4>2. q # r /\ q \in Requests
          BY Zenon, <1>3, <2>2
        <4> QED
          BY Zenon, <4>1, <4>2, <2>5, <1>5
      <3> QED
        BY Zenon, <3>1, <3>2
    <2>11. Promoted(a)'
      <3> SUFFICES ASSUME NEW x \in accepted', AutoOf(x, a)', ~Disturbed(a, rpc[x].tx.nonce)'
                   PROVE  \/ rpc'[x].tx.nonce < pendNonce'[a]
                          \/ Pending(x)' /\ rpc'[x].tx \in que'[a] /\ rpc'[x].tx.nonce = pendNonce'[a]
        BY Zenon DEF Promoted
      <3>1. CASE x = r
        <4>1. args[r].nonce = None /\ rpc'[r].tx = t /\ t \in que'[a]
          BY Zenon, <3>1, <2>1, <1>4 DEF AutoOf, Automatic, Accepts
        <4>2. ~Disturbed(a, t.nonce)
          BY Zenon, <3>1, <4>1, <2>1
        <4>3. Pending(r)'
          BY Zenon, <4>1, <4>2, <2>9 DEF Disturbed
        <4> QED
          BY Zenon, <3>1, <4>1, <4>3, <2>7, <1>5
      <3>2. CASE x # r
        <4>1. x \in accepted /\ x \in Requests /\ rpc'[x] = rpc[x] /\ (Pending(x) => Pending(x)') /\ AutoOf(x, a)
          BY Zenon, <3>2, <2>1, <2>2, <2>5, <1>5
        <4>2. ~Disturbed(a, rpc[x].tx.nonce)
          BY Zenon, <4>1, <2>1
        <4>3. CASE rpc[x].tx.nonce < pendNonce[a]
          BY Zenon, <4>1, <4>3, <1>5
        <4>4. CASE Pending(x) /\ rpc[x].tx \in que[a] /\ rpc[x].tx.nonce = pendNonce[a]
          <5>1. args[r].nonce # None
            <6>1. args[x].from = a /\ args[x].nonce = None
              BY Zenon, <4>1 DEF AutoOf, Automatic
            <6> QED
              BY Zenon, <6>1, <4>1, <4>4, <2>8
          <5>2. r \in ByHand(a)' /\ args'[r].nonce = t.nonce
            BY Zenon, <5>1, <1>5, LockedTx DEF ByHand
          <5>3. rpc[x].tx.nonce # t.nonce
            BY Zenon, <5>2, <4>1 DEF Disturbed
          <5> QED
            BY Zenon, <4>1, <4>4, <5>3, <1>4, <1>5
        <4> QED
          BY Zenon, <4>1, <4>2, <4>3, <4>4, <2>2 DEF Promoted
      <3> QED
        BY Zenon, <3>1, <3>2
    <2>12. Given(a)' /\ AheadOf(a)' /\ Differ(a)'
      BY Zenon, <1>7, AcceptKeeps
    <2> QED
      BY Zenon, <2>4, <2>10, <2>11, <2>12 DEF Orderly
  <1> QED
    BY Zenon, <1>6, <1>7

\* addTxsLocked puts the transaction in the pending list or in the queue, or refuses it.
LEMMA AddKeeps == ASSUME APIInv, NEW r \in Requests, addTxsLocked(r) PROVE APIInv'
  <1>a. PICK a, t : a = args[r].from /\ t = rpc[r].tx
    OBVIOUS
  <1> DEFINE inPend == Overlaps(pend[a], t) # {}
             list == IF inPend THEN pend[a] ELSE que[a]
             ok == t \notin pend[a] \cup que[a] /\ t.nonce >= headNonce[a] /\ Inserted(list, t)
             c == [pc |-> IF ok /\ Overlaps(list, t) = {} THEN "promote" ELSE "reorg", tx |-> t, err |-> ~ok]
  <1>1. /\ t \in TxRecord /\ t.from = a /\ r \notin accepted /\ a \in SigKeys /\ At(r, "locked")
        /\ Mutexes /\ Answers /\ APIShape /\ Waiting
    <2>1. At(r, "locked")
      BY Zenon DEF addTxsLocked
    <2> QED
      BY Zenon, <1>a, <2>1, LockedTx, CallTypes DEF APIInv
  <1>2. /\ pend' = IF ok /\ inPend THEN [pend EXCEPT ![a] = PutTx(pend[a], t)] ELSE pend
        /\ que' = IF ok /\ ~inPend THEN [que EXCEPT ![a] = PutTx(que[a], t)] ELSE que
        /\ accepted' = IF ok THEN accepted \cup {r} ELSE accepted
        /\ rpc' = [rpc EXCEPT ![r] = c]
        /\ UNCHANGED <<args, addrMu, headNonce, pendNonce, PoolRuns>>
    BY <1>1, <1>a DEF addTxsLocked, Becomes
  <1>3. UNCHANGED <<args, addrMu, headNonce, pendNonce, chainNonce, nextRun, curRun, heads, merged>>
    BY Zenon, <1>2 DEF PoolRuns
  <1>4. ok \in BOOLEAN
    OBVIOUS
  <1>5. c.pc \in {"promote", "reorg"} /\ c.tx = t /\ c.err = ~ok /\ (c.pc = "promote" => ok)
        /\ (ok /\ Overlaps(list, t) = {} => c.pc = "promote")
    OBVIOUS
  <1> HIDE DEF ok, c
  <1>6. c \in CallRecord
    <2>1. c \in [pc : {"promote", "reorg"}, tx : {t}, err : BOOLEAN]
      BY DEF c
    <2> QED
      BY <1>1, <2>1 DEF CallRecord, Pcs
  <1>7. rpc' \in [Requests -> CallRecord] /\ rpc'[r] = c /\ \A q \in Requests : q # r => rpc'[q] = rpc[q]
    BY Zenon, <1>1, <1>2, <1>6, RpcAt DEF APIShape
  <1>8. rpc'[r].pc \in {"promote", "reorg"} /\ rpc'[r].tx = t /\ rpc'[r].err = ~ok /\ (rpc'[r].pc = "promote" => ok)
    BY Zenon, <1>5, <1>7
  <1>9. /\ pend \in [SigKeys -> SUBSET TxRecord] /\ que \in [SigKeys -> SUBSET TxRecord]
        /\ PutTx(pend[a], t) \subseteq TxRecord /\ PutTx(que[a], t) \subseteq TxRecord
    BY Zenon, <1>1 DEF APIShape, PutTx
  <1>10. /\ pend' \in [SigKeys -> SUBSET TxRecord] /\ que' \in [SigKeys -> SUBSET TxRecord]
         /\ \A b \in SigKeys : b # a => pend'[b] = pend[b] /\ que'[b] = que[b]
         /\ ~ok => pend' = pend /\ que' = que
         /\ ok /\ inPend => pend'[a] = PutTx(pend[a], t) /\ que'[a] = que[a]
         /\ ok /\ ~inPend => que'[a] = PutTx(que[a], t) /\ pend'[a] = pend[a]
    <2> HIDE DEF inPend
    <2> DEFINE P == PutTx(pend[a], t)
               Q == PutTx(que[a], t)
    <2>1. P \in SUBSET TxRecord /\ Q \in SUBSET TxRecord
      BY Zenon, <1>9
    <2>2. /\ pend' = IF ok /\ inPend THEN [pend EXCEPT ![a] = P] ELSE pend
          /\ que' = IF ok /\ ~inPend THEN [que EXCEPT ![a] = Q] ELSE que
      BY Zenon, <1>2
    <2> HIDE DEF P, Q
    <2>3. /\ pend' \in [SigKeys -> SUBSET TxRecord] /\ que' \in [SigKeys -> SUBSET TxRecord]
          /\ \A b \in SigKeys : b # a => pend'[b] = pend[b] /\ que'[b] = que[b]
          /\ ~ok => pend' = pend /\ que' = que
          /\ ok /\ inPend => pend'[a] = P /\ que'[a] = que[a]
          /\ ok /\ ~inPend => que'[a] = Q /\ pend'[a] = pend[a]
      BY <1>1, <1>9, <2>1, <2>2
    <2> QED
      BY Zenon, <2>3 DEF P, Q
  <1>11. APIShape'
    <2>1. accepted' \subseteq Requests
      BY Zenon, <1>1, <1>2 DEF APIShape
    <2> QED
      BY Zenon, <2>1, <1>1, <1>3, <1>7, <1>10 DEF APIShape
  <1>12. /\ rpc[r].pc \in Holds /\ rpc'[r].pc \in Holds /\ rpc'[r].pc \notin Made /\ rpc'[r].pc # "wait" /\ rpc[r].pc # "wait"
         /\ rpc[r].pc # "promote" /\ rpc'[r].pc \notin {"find", "lock", "defaults"} \cup Made /\ rpc'[r].pc # "lock" /\ rpc'[r].pc # "done"
         /\ rpc[r].pc \in Made
    BY <1>1, <1>8 DEF Holds, Made, At
  <1>13. Mutexes'
    BY Zenon, <1>1, <1>3, <1>7, <1>12, MutexSame DEF APIShape
  <1>14. Answers'
    <2>1. AnswerOf(r)'
      <3>1. /\ rpc[r].tx # None /\ rpc[r].tx = toTransaction(r, rpc[r].tx.nonce)
            /\ (args[r].nonce # None => rpc[r].tx.nonce = args[r].nonce)
        BY Zenon, <1>1, <1>12 DEF Answers, AnswerOf
      <3>2. r \in accepted' <=> ok
        BY Zenon, <1>1, <1>2
      <3>3. (r \in accepted' <=> ~rpc'[r].err) /\ (rpc'[r].pc = "promote" => r \in accepted')
        BY Zenon, <3>2, <1>4, <1>8
      <3> QED
        BY Zenon, <1>a, <3>1, <3>3, <1>3, <1>8, <1>12 DEF AnswerOf, toTransaction
    <2>2. ASSUME NEW q \in Requests, q # r PROVE AnswerOf(q)'
      <3>1. rpc'[q] = rpc[q] /\ AnswerOf(q) /\ (q \in accepted' <=> q \in accepted)
        BY Zenon, <1>1, <1>2, <1>7, <2>2 DEF Answers
      <3> QED
        BY Zenon, <3>1, <1>3 DEF AnswerOf, toTransaction
    <2> QED
      BY Zenon, <2>1, <2>2 DEF Answers
  <1>15. Waiting'
    <2>1. nextRun.waits \subseteq Requests /\ (curRun # None => curRun.waits \subseteq Requests)
      BY Zenon, <1>1, RunTypes
    <2>2. \A q \in Requests : At(q, "wait") => At(q, "wait")'
      BY Zenon, <1>7, <1>12 DEF At
    <2> QED
      BY Zenon, <2>1, <2>2, <1>1, <1>3 DEF Waiting
  <1>16. \A x \in Requests : Pending(x) => Pending(x)'
    <2> SUFFICES ASSUME NEW x \in Requests, Pending(x) PROVE Pending(x)'
      OBVIOUS
    <2>1. x # r
      BY Zenon, <1>12 DEF Pending, At
    <2>2. rpc'[x] = rpc[x]
      BY Zenon, <2>1, <1>7
    <2> QED
      BY Zenon, <2>2, <1>3 DEF Pending, At
  <1>17. ASSUME NEW b \in SigKeys, b # a \/ ~ok PROVE Lists(b)' /\ (Calm(b)' => Orderly(b)')
    <2>1. pend'[b] = pend[b] /\ que'[b] = que[b]
      BY Zenon, <1>10, <1>17
    <2>2. Lists(b)' /\ Lists(b)
      BY Zenon, <2>1, <1>3 DEF APIInv, Lists
    <2>3. LeavesLists(b)
      <3>1. \A x \in Requests : args[x].from = b => (x \in accepted' <=> x \in accepted)
        BY Zenon, <1>a, <1>2, <1>17
      <3>2. \A x \in Requests : rpc'[x].tx = rpc[x].tx /\ (rpc'[x].pc \in Made => rpc[x].pc \in Made)
        BY Zenon, <1>a, <1>7, <1>8, <1>12
      <3>3. accepted \subseteq Requests
        BY Zenon, <1>1 DEF APIShape
      <3> QED
        BY Zenon, <3>1, <3>2, <3>3, <2>1, <1>3, <1>16 DEF LeavesLists
    <2>4. Calm(b) => Chunk(b)'
      BY Zenon, <2>1, <1>3 DEF APIInv, Orderly, Chunk
    <2>5. accepted' \subseteq Requests /\ (Calm(b) => Orderly(b))
      BY Zenon, <1>11 DEF APIShape, APIInv
    <2> QED
      BY Zenon, <2>2, <2>3, <2>4, <2>5, <1>1, OrderlyKept
  <1>18. ASSUME ok PROVE Lists(a)' /\ (Calm(a)' => Orderly(a)')
    <2>1. Accepts(r)
      BY Zenon, <1>a, <1>2, <1>3, <1>7, <1>8, <1>18 DEF Accepts
    <2>2. CASE inPend
      BY Zenon, <1>a, <2>1, <2>2, <1>1, <1>10, <1>18, PutPend
    <2>3. CASE ~inPend
      <3>1. t.nonce >= headNonce[a] /\ list = que[a]
        BY Zenon, <1>18, <2>3 DEF ok
      <3>2. Overlaps(que[a], t) = {} => rpc'[r].pc = "promote"
        BY Zenon, <3>1, <1>5, <1>7, <1>18
      <3> QED
        BY Zenon, <1>a, <2>1, <2>3, <3>1, <3>2, <1>1, <1>10, <1>18, PutQueue
    <2> QED
      BY Zenon, <2>2, <2>3
  <1> QED
    BY Zenon, <1>11, <1>13, <1>14, <1>15, <1>17, <1>18 DEF APIInv

------------------------------------------------------------------------------
(* runReorg. *)

NonceAfter(R, start) == IF R = {} THEN start ELSE Max(Nonces(R)) + 1

\* R is what G has from start to e, without a gap.
RunOf(G, start, R, e) ==
  /\ e \in Nat /\ e >= start /\ R \subseteq G
  /\ \A x \in G : x \in R <=> x.nonce < e
  /\ \A n \in start..(e - 1) : \E x \in R : x.nonce = n
  /\ \A x \in G : x.nonce = start => x \in R
  /\ R # {} => Max(Nonces(R)) \in Nonces(R) /\ \A x \in R : x.nonce <= Max(Nonces(R))

\* The run that is ready: what it leaves begins where the virtual nonce is put.
LEMMA ReadyRun ==
  ASSUME NEW G, G \subseteq TxRecord, \E b \in Nat : \A x \in G : x.nonce <= b,
         NEW start \in Nat, \A x \in G : x.nonce >= start
  PROVE  RunOf(G, start, ReadyTxs(G, start), NonceAfter(ReadyTxs(G, start), start))
  <1>a. PICK R, e : R = ReadyTxs(G, start) /\ e = NonceAfter(R, start)
    OBVIOUS
  <1>b. PICK b \in Nat : \A x \in G : x.nonce <= b
    OBVIOUS
  <1>c. e = IF R = {} THEN start ELSE Max(Nonces(R)) + 1
    BY Zenon, <1>a DEF NonceAfter
  <1>d. SUFFICES RunOf(G, start, R, e)
    BY Zenon, <1>a
  <1>1. R = {x \in G : \A n \in start..x.nonce : \E u \in G : u.nonce = n}
    BY Zenon, <1>a, ReadyIs
  <1>2. \A x \in G : x.nonce \in Nat
    BY Zenon, TxFields
  <1>3. \A x \in G : x.nonce = start => x \in R
    <2> SUFFICES ASSUME NEW x \in G, x.nonce = start PROVE x \in R
      OBVIOUS
    <2>1. \A n \in start..x.nonce : n = start
      OBVIOUS
    <2> QED
      BY Zenon, <1>1, <2>1
  <1>4. CASE R = {}
    <2>1. e = start
      BY Zenon, <1>4, <1>c
    <2>2. \A x \in G : ~(x.nonce < e)
      BY <2>1, <1>2
    <2>3. start..(e - 1) = {}
      BY <2>1
    <2>4. e >= start
      BY <2>1
    <2> QED
      BY Zenon, <1>3, <1>4, <2>1, <2>2, <2>3, <2>4 DEF RunOf
  <1>5. CASE R # {}
    <2> DEFINE M == Max(Nonces(R))
    <2>1. Nonces(R) \in SUBSET Nat /\ Nonces(R) # {} /\ \A y \in Nonces(R) : y <= b
      <3>1. R \subseteq G /\ R \subseteq TxRecord
        BY Zenon, <1>1
      <3> QED
        BY Zenon, <3>1, <1>5, <1>b, NoncesIn DEF Nonces
    <2>2. M \in Nonces(R) /\ \A y \in Nonces(R) : y <= M
      BY Zenon, <2>1, MaxIs
    <2>3. PICK top \in R : top.nonce = M
      BY Zenon, <2>2 DEF Nonces
    <2>4. e = M + 1 /\ M \in Nat /\ M >= start
      BY <1>1, <1>2, <1>5, <1>c, <2>1, <2>2, <2>3
    <2>5. \A x \in R : x.nonce <= M
      BY Zenon, <2>2 DEF Nonces
    <2> HIDE DEF M
    <2>6. ASSUME NEW x \in G, x.nonce <= M PROVE x \in R
      <3>1. \A n \in start..x.nonce : n \in start..M
        BY <2>4, <2>6, <1>2
      <3> QED
        BY Zenon, <3>1, <2>3, <1>1
    <2>7. \A x \in G : x \in R <=> x.nonce < e
      <3>1. \A x \in G : x.nonce <= M <=> x.nonce < e
        BY <1>2, <2>4
      <3> QED
        BY Zenon, <3>1, <2>5, <2>6
    <2>8. ASSUME NEW n \in start..(e - 1) PROVE \E x \in R : x.nonce = n
      <3>1. n \in start..M /\ n <= M
        BY <2>4, <2>8
      <3>2. PICK x \in G : x.nonce = n
        BY Zenon, <3>1, <2>3, <1>1
      <3> QED
        BY Zenon, <3>1, <3>2, <2>6
    <2>9. e \in Nat /\ e >= start
      BY <2>4
    <2>10. R \subseteq G
      BY Zenon, <1>1
    <2> QED
      BY Zenon, <1>3, <2>2, <2>5, <2>7, <2>8, <2>9, <2>10 DEF M, RunOf
  <1> QED
    BY Zenon, <1>4, <1>5

\* promoteExecutables of an account, from the head nonce h and the virtual nonce n.
LEMMA PromoteGives ==
  ASSUME APIInv, NEW a \in SigKeys, NEW h, NEW n
  PROVE  /\ promoteExecutables(a, h, n).pend = pend[a] \cup ReadyOf(a, h, n)
         /\ promoteExecutables(a, h, n).que = Live(a, h) \ ReadyOf(a, h, n)
         /\ promoteExecutables(a, h, n).nonce = NonceAfter(ReadyOf(a, h, n), n)
  <1>1. APIShape /\ Lists(a)
    BY Zenon DEF APIInv
  <1> QED
    BY Zenon, <1>1, PromoteMoves DEF NonceAfter

\* The lists of an account after a run that is no reset.
LEMMA ReorgDirty ==
  ASSUME APIInv, runReorg, NEW a \in SigKeys, ~curRun.reset, a \in curRun.dirty,
         NEW R, R = ReadyOf(a, headNonce[a], pendNonce[a])
  PROVE  /\ pend'[a] = pend[a] \cup R /\ que'[a] = Live(a, headNonce[a]) \ R
         /\ pendNonce'[a] = IF pend'[a] = {} THEN NonceAfter(R, pendNonce[a]) ELSE Max(Nonces(pend'[a])) + 1
         /\ headNonce'[a] = headNonce[a]
  <1>1. HeadNonce(a) = headNonce[a] /\ NoncerGet(a) = pendNonce[a]
    BY Zenon DEF HeadNonce, NoncerGet
  <1> DEFINE p == promoteExecutables(a, headNonce[a], pendNonce[a])
  <1>2. Reorganized(a) = p
    BY Zenon, <1>1 DEF Reorganized
  <1>3. p.pend = pend[a] \cup R /\ p.que = Live(a, headNonce[a]) \ R /\ p.nonce = NonceAfter(R, pendNonce[a])
    <2>1. PICK h, n : h = headNonce[a] /\ n = pendNonce[a]
      OBVIOUS
    <2>2. PICK q : q = promoteExecutables(a, h, n) /\ R = ReadyOf(a, h, n) /\ p = q
      BY Zenon, <2>1
    <2> HIDE DEF p
    <2>3. /\ promoteExecutables(a, h, n).pend = pend[a] \cup ReadyOf(a, h, n)
          /\ promoteExecutables(a, h, n).que = Live(a, h) \ ReadyOf(a, h, n)
          /\ promoteExecutables(a, h, n).nonce = NonceAfter(ReadyOf(a, h, n), n)
      BY PromoteGives
    <2>4. q.pend = pend[a] \cup R /\ q.que = Live(a, h) \ R /\ q.nonce = NonceAfter(R, n)
      BY Zenon, <2>2, <2>3
    <2> QED
      BY Zenon, <2>1, <2>2, <2>4
  <1>4. /\ pend'[a] = Reorganized(a).pend /\ que'[a] = Reorganized(a).que /\ headNonce'[a] = HeadNonce(a)
        /\ pendNonce'[a] = IF Reorganized(a).pend = {} THEN Reorganized(a).nonce ELSE Max(Nonces(Reorganized(a).pend)) + 1
    BY Zenon DEF runReorg
  <1> HIDE DEF p
  <1> QED
    BY Zenon, <1>1, <1>2, <1>3, <1>4

\* The lists of an account after a reset: R is promoted, L is what is left of the pending ones.
ResetTo(a, R, L) ==
  /\ L # {} /\ chainNonce[a] \notin Nonces(L) =>
       pend'[a] = {} /\ que'[a] = {u \in Live(a, chainNonce[a]) \ R : \A t \in L : t.nonce # u.nonce} \cup L
  /\ ~(L # {} /\ chainNonce[a] \notin Nonces(L)) => pend'[a] = L /\ que'[a] = Live(a, chainNonce[a]) \ R
  /\ pendNonce'[a] = IF pend'[a] = {} THEN NonceAfter(R, chainNonce[a]) ELSE Max(Nonces(pend'[a])) + 1
  /\ headNonce'[a] = chainNonce[a]

\* The lists that a run with a reset leaves: what is promoted from the state's nonce, less what the
\* block took and what the gas limit refuses.
LEMMA ReorgReset ==
  ASSUME APIInv, runReorg, NEW a \in SigKeys, curRun.reset,
         NEW R, R = ReadyOf(a, chainNonce[a], chainNonce[a]),
         NEW L, L = {t \in pend[a] \cup R : t.nonce >= chainNonce[a] /\ t.gas <= 0}
  PROVE  ResetTo(a, R, L)
  <1>1. HeadNonce(a) = chainNonce[a] /\ NoncerGet(a) = chainNonce[a]
    BY Zenon DEF HeadNonce, NoncerGet
  <1> DEFINE h == chainNonce[a]
             p == promoteExecutables(a, h, h)
             d == demoteUnexecutables(p, h)
  <1>2. Reorganized(a) = d
    BY Zenon, <1>1 DEF Reorganized
  <1>3. p.pend = pend[a] \cup R /\ p.que = Live(a, h) \ R /\ p.nonce = NonceAfter(R, h)
    <2>1. PICK n : n = h
      OBVIOUS
    <2>2. PICK q : q = promoteExecutables(a, n, n) /\ R = ReadyOf(a, n, n) /\ p = q
      BY Zenon, <2>1
    <2> HIDE DEF p, h
    <2>3. /\ promoteExecutables(a, n, n).pend = pend[a] \cup ReadyOf(a, n, n)
          /\ promoteExecutables(a, n, n).que = Live(a, n) \ ReadyOf(a, n, n)
          /\ promoteExecutables(a, n, n).nonce = NonceAfter(ReadyOf(a, n, n), n)
      BY PromoteGives
    <2>4. q.pend = pend[a] \cup R /\ q.que = Live(a, n) \ R /\ q.nonce = NonceAfter(R, n)
      BY Zenon, <2>2, <2>3
    <2> QED
      BY Zenon, <2>1, <2>2, <2>4
  <1> HIDE DEF p
  <1>4. d = IF L # {} /\ h \notin Nonces(L)
            THEN [pend |-> {}, que |-> {u \in p.que : \A t \in L : t.nonce # u.nonce} \cup L, nonce |-> p.nonce]
            ELSE [pend |-> L, que |-> p.que, nonce |-> p.nonce]
    BY Zenon, <1>3 DEF demoteUnexecutables
  <1> HIDE DEF d
  <1>5. d.nonce = p.nonce
    BY <1>4
  <1>6. L # {} /\ h \notin Nonces(L) => d.pend = {} /\ d.que = {u \in p.que : \A t \in L : t.nonce # u.nonce} \cup L
    BY <1>4
  <1>7. ~(L # {} /\ h \notin Nonces(L)) => d.pend = L /\ d.que = p.que
    BY <1>4
  <1>8. /\ pend'[a] = Reorganized(a).pend /\ que'[a] = Reorganized(a).que /\ headNonce'[a] = HeadNonce(a)
        /\ pendNonce'[a] = IF Reorganized(a).pend = {} THEN Reorganized(a).nonce ELSE Max(Nonces(Reorganized(a).pend)) + 1
    BY Zenon DEF runReorg
  <1> QED
    BY Zenon, <1>1, <1>2, <1>3, <1>5, <1>6, <1>7, <1>8 DEF ResetTo

\* The lists of an account that a run does not look at.
LEMMA ReorgNot ==
  ASSUME APIInv, runReorg, NEW a \in SigKeys, ~curRun.reset, a \notin curRun.dirty
  PROVE  pend'[a] = pend[a] /\ que'[a] = que[a] /\ pendNonce'[a] = pendNonce[a] /\ headNonce'[a] = headNonce[a]
  <1>1. HeadNonce(a) = headNonce[a] /\ NoncerGet(a) = pendNonce[a]
    BY Zenon DEF HeadNonce, NoncerGet
  <1>2. Reorganized(a) = [que |-> que[a], pend |-> pend[a], nonce |-> pendNonce[a]]
    BY Zenon, <1>1 DEF Reorganized
  <1>3. Reorganized(a).que = que[a] /\ Reorganized(a).pend = pend[a] /\ Reorganized(a).nonce = pendNonce[a]
    BY <1>2
  <1>4. /\ pend'[a] = Reorganized(a).pend /\ que'[a] = Reorganized(a).que /\ headNonce'[a] = HeadNonce(a)
        /\ pendNonce'[a] = IF Reorganized(a).pend = {} THEN Reorganized(a).nonce ELSE Max(Nonces(Reorganized(a).pend)) + 1
    BY Zenon DEF runReorg
  <1>5. pend[a] # {} => pendNonce[a] = Max(Nonces(pend[a])) + 1
    BY Zenon DEF APIInv, Lists
  <1> QED
    BY Zenon, <1>1, <1>3, <1>4, <1>5

\* A run moves transactions between the lists, and drops some.
LEMMA ReorgMoves ==
  ASSUME APIInv, runReorg, NEW a \in SigKeys
  PROVE  /\ pend'[a] \cup que'[a] \subseteq pend[a] \cup que[a] /\ pend'[a] \cap que'[a] = {}
         /\ pend'[a] # {} => pendNonce'[a] = Max(Nonces(pend'[a])) + 1
         /\ pend'[a] = {} => \E R \in SUBSET que[a] : pendNonce'[a] \in {pendNonce[a], NonceAfter(R, pendNonce[a]), NonceAfter(R, chainNonce[a])}
         /\ headNonce'[a] \in {headNonce[a], chainNonce[a]}
  <1>1. pend[a] \cap que[a] = {} /\ Lists(a)
    BY Zenon DEF APIInv, Lists
  <1>2. CASE curRun.reset
    <2> DEFINE R == ReadyOf(a, chainNonce[a], chainNonce[a])
               L == {t \in pend[a] \cup R : t.nonce >= chainNonce[a] /\ t.gas <= 0}
               G == Live(a, chainNonce[a])
    <2>1. R \subseteq G /\ G \subseteq que[a]
      BY Zenon, ReadyFrom DEF ReadyOf, Live
    <2>2. L \subseteq pend[a] \cup R
      BY Zenon
    <2>3. /\ L # {} /\ chainNonce[a] \notin Nonces(L) =>
              pend'[a] = {} /\ que'[a] = {u \in G \ R : \A t \in L : t.nonce # u.nonce} \cup L
          /\ ~(L # {} /\ chainNonce[a] \notin Nonces(L)) => pend'[a] = L /\ que'[a] = G \ R
          /\ pendNonce'[a] = IF pend'[a] = {} THEN NonceAfter(R, chainNonce[a]) ELSE Max(Nonces(pend'[a])) + 1
          /\ headNonce'[a] = chainNonce[a]
      BY Zenon, <1>2, ReorgReset DEF ResetTo
    <2> HIDE DEF R, L, G
    <2>4. CASE L # {} /\ chainNonce[a] \notin Nonces(L)
      <3>1. pend'[a] \cup que'[a] \subseteq pend[a] \cup que[a] /\ pend'[a] \cap que'[a] = {}
        BY Zenon, <2>1, <2>2, <2>3, <2>4
      <3> QED
        BY Zenon, <3>1, <2>1, <2>3
    <2>5. CASE ~(L # {} /\ chainNonce[a] \notin Nonces(L))
      <3>1. pend'[a] = L /\ que'[a] = G \ R
        BY Zenon, <2>3, <2>5
      <3>2. pend'[a] \cup que'[a] \subseteq pend[a] \cup que[a] /\ pend'[a] \cap que'[a] = {}
        BY Zenon, <3>1, <2>1, <2>2, <1>1
      <3> QED
        BY Zenon, <3>2, <2>1, <2>3
    <2> QED
      BY Zenon, <2>4, <2>5
  <1>3. CASE ~curRun.reset /\ a \in curRun.dirty
    <2> DEFINE R == ReadyOf(a, headNonce[a], pendNonce[a])
               G == Live(a, headNonce[a])
    <2>1. R \subseteq G /\ G \subseteq que[a]
      BY Zenon, ReadyFrom DEF ReadyOf, Live
    <2>2. /\ pend'[a] = pend[a] \cup R /\ que'[a] = G \ R
          /\ pendNonce'[a] = IF pend'[a] = {} THEN NonceAfter(R, pendNonce[a]) ELSE Max(Nonces(pend'[a])) + 1
          /\ headNonce'[a] = headNonce[a]
      BY Zenon, <1>3, ReorgDirty
    <2> HIDE DEF R, G
    <2>3. pend'[a] \cup que'[a] \subseteq pend[a] \cup que[a] /\ pend'[a] \cap que'[a] = {}
      BY Zenon, <2>1, <2>2, <1>1
    <2> QED
      BY Zenon, <2>1, <2>2, <2>3
  <1>4. CASE ~curRun.reset /\ a \notin curRun.dirty
    <2>1. pend'[a] = pend[a] /\ que'[a] = que[a] /\ pendNonce'[a] = pendNonce[a] /\ headNonce'[a] = headNonce[a]
      BY Zenon, <1>4, ReorgNot
    <2> QED
      BY Zenon, <2>1, <1>1 DEF Lists
  <1> QED
    BY Zenon, <1>2, <1>3, <1>4

\* One transaction per nonce, also after a run.
LEMMA ReorgLists ==
  ASSUME APIInv, runReorg, NEW a \in SigKeys
  PROVE  /\ Lists(a)' /\ pendNonce'[a] \in Nat /\ headNonce'[a] \in Nat
         /\ pend'[a] \subseteq TxRecord /\ que'[a] \subseteq TxRecord
  <1>1. /\ pend'[a] \cup que'[a] \subseteq pend[a] \cup que[a] /\ pend'[a] \cap que'[a] = {}
        /\ pend'[a] # {} => pendNonce'[a] = Max(Nonces(pend'[a])) + 1
        /\ pend'[a] = {} => \E R \in SUBSET que[a] : pendNonce'[a] \in {pendNonce[a], NonceAfter(R, pendNonce[a]), NonceAfter(R, chainNonce[a])}
        /\ headNonce'[a] \in {headNonce[a], chainNonce[a]}
    BY Zenon, ReorgMoves
  <1>2. /\ Lists(a) /\ pend[a] \subseteq TxRecord /\ que[a] \subseteq TxRecord
        /\ headNonce[a] \in Nat /\ pendNonce[a] \in Nat /\ chainNonce[a] \in Nat
    BY Zenon, ListTypes DEF APIInv
  <1>3. Lists(a)'
    <2>1. \A t \in pend'[a] \cup que'[a] : t.from = a
      BY Zenon, <1>1, <1>2 DEF Lists
    <2>2. \A t, u \in pend'[a] \cup que'[a] : t # u => t.nonce # u.nonce
      BY Zenon, <1>1, <1>2 DEF Lists
    <2>3. \E b \in Nat : \A t \in pend'[a] \cup que'[a] : t.nonce <= b
      BY Zenon, <1>1, <1>2 DEF Lists
    <2> QED
      BY Zenon, <2>1, <2>2, <2>3, <1>1 DEF Lists
  <1>4. PICK b \in Nat : \A t \in pend[a] \cup que[a] : t.nonce <= b
    BY Zenon, <1>2 DEF Lists
  <1>5. ASSUME NEW S, S \subseteq pend[a] \cup que[a], S # {} PROVE Max(Nonces(S)) + 1 \in Nat
    <2>1. Nonces(S) \in SUBSET Nat /\ Nonces(S) # {} /\ \A y \in Nonces(S) : y <= b
      <3>1. S \subseteq TxRecord
        BY Zenon, <1>2, <1>5
      <3> QED
        BY Zenon, <3>1, <1>4, <1>5, NoncesIn DEF Nonces
    <2>2. Max(Nonces(S)) \in Nat
      BY Zenon, <2>1, MaxIs
    <2> QED
      BY <2>2
  <1>6. pendNonce'[a] \in Nat
    <2>1. CASE pend'[a] # {}
      <3>1. pend'[a] \subseteq pend[a] \cup que[a]
        BY Zenon, <1>1
      <3> QED
        BY Zenon, <3>1, <2>1, <1>1, <1>5
    <2>2. CASE pend'[a] = {}
      <3>1. PICK R \in SUBSET que[a] : pendNonce'[a] \in {pendNonce[a], NonceAfter(R, pendNonce[a]), NonceAfter(R, chainNonce[a])}
        BY Zenon, <2>2, <1>1
      <3>2. R # {} => Max(Nonces(R)) + 1 \in Nat
        BY Zenon, <1>5
      <3> QED
        BY Zenon, <3>1, <3>2, <1>2 DEF NonceAfter
    <2> QED
      BY Zenon, <2>1, <2>2
  <1> QED
    BY Zenon, <1>1, <1>2, <1>3, <1>6

\* The nonce after the pending ones, when R follows S.
LEMMA NextNonce ==
  ASSUME NEW S, S \subseteq TxRecord, NEW R, R \subseteq TxRecord, NEW p \in Nat, \A t \in S : t.nonce < p,
         S # {} => \E t \in S : t.nonce = p - 1, \A t \in R : t.nonce >= p, S \cup R # {},
         R # {} => Max(Nonces(R)) \in Nonces(R) /\ \A x \in R : x.nonce <= Max(Nonces(R))
  PROVE  Max(Nonces(S \cup R)) + 1 = NonceAfter(R, p)
  <1>1. Nonces(S \cup R) \in SUBSET Nat /\ \A t \in S \cup R : t.nonce \in Nat
    <2>1. S \cup R \subseteq TxRecord
      BY Zenon
    <2> QED
      BY Zenon, <2>1, NoncesIn, TxFields
  <1>2. CASE R = {}
    <2>1. PICK t \in S : t.nonce = p - 1
      BY Zenon, <1>2
    <2>2. t.nonce \in Nonces(S \cup R)
      BY Zenon DEF Nonces
    <2>3. \A y \in Nonces(S \cup R) : y <= t.nonce
      <3> SUFFICES ASSUME NEW x \in S PROVE x.nonce <= t.nonce
        BY Zenon, <1>2 DEF Nonces
      <3>1. x.nonce < p /\ x.nonce \in Nat
        BY Zenon, <1>1
      <3> QED
        BY <2>1, <3>1
    <2>4. Max(Nonces(S \cup R)) = t.nonce
      BY Zenon, <2>2, <2>3, <1>1, MaxUnique
    <2>5. NonceAfter(R, p) = p
      BY Zenon, <1>2 DEF NonceAfter
    <2> QED
      BY <2>1, <2>4, <2>5
  <1>3. CASE R # {}
    <2> DEFINE M == Max(Nonces(R))
    <2>1. M \in Nonces(R) /\ \A x \in R : x.nonce <= M
      BY Zenon, <1>3
    <2> HIDE DEF M
    <2>2. PICK top \in R : top.nonce = M
      BY Zenon, <2>1 DEF Nonces
    <2>3. M \in Nat /\ M >= p /\ M \in Nonces(S \cup R)
      BY Zenon, <2>2, <1>1 DEF Nonces
    <2>4. \A x \in S : x.nonce <= M
      <3> TAKE x \in S
      <3>1. x.nonce < p /\ x.nonce \in Nat
        BY Zenon, <1>1
      <3> QED
        BY <2>3, <3>1
    <2>5. \A y \in Nonces(S \cup R) : y <= M
      BY Zenon, <2>1, <2>4 DEF Nonces
    <2>6. Max(Nonces(S \cup R)) = M
      BY Zenon, <2>3, <2>5, <1>1, MaxUnique
    <2> QED
      BY Zenon, <2>6, <1>3 DEF NonceAfter, M
  <1> QED
    BY Zenon, <1>2, <1>3

\* What a run promotes, R, and the virtual nonce it leaves: promotion goes on where the pending
\* transactions end.
Promotes(a, R) ==
  /\ headNonce[a] <= headNonce'[a] /\ headNonce'[a] <= chainNonce[a]
  /\ R \subseteq que[a] /\ \A t \in R : t.gas <= 0
  /\ pend'[a] = {t \in pend[a] \cup R : t.nonce >= headNonce'[a]}
  /\ que'[a] = {t \in que[a] : t.gas <= 0} \ R
  /\ pendNonce'[a] \in Nat /\ pendNonce'[a] >= pendNonce[a]
  /\ \A t \in que[a] : t.gas <= 0 => (t \in R <=> t.nonce < pendNonce'[a])
  /\ \A n \in pendNonce[a]..(pendNonce'[a] - 1) : \E t \in R : t.nonce = n
  /\ ~curRun.reset => \A t \in que[a] : t.gas <= 0 /\ t.nonce = pendNonce[a] => t \in R

\* A run without a reset promotes what follows the pending list of a dirty account.
LEMMA PromotesDirty ==
  ASSUME APIInv, runReorg, NEW a \in SigKeys, Chunk(a), ~curRun.reset, a \in curRun.dirty
  PROVE  \E R : Promotes(a, R)
  <1> DEFINE R == ReadyOf(a, headNonce[a], pendNonce[a])
             G == {t \in que[a] : t.gas <= 0}
  <1>1. /\ Lists(a) /\ pend[a] \subseteq TxRecord /\ que[a] \subseteq TxRecord
        /\ headNonce[a] \in Nat /\ pendNonce[a] \in Nat /\ chainNonce[a] \in Nat
    BY Zenon, ListTypes DEF APIInv
  <1>2. \A t \in que[a] : t.nonce >= headNonce[a] /\ t.nonce >= pendNonce[a]
    <2> TAKE t \in que[a]
    <2>1. t.nonce >= pendNonce[a] /\ headNonce[a] <= chainNonce[a] /\ chainNonce[a] <= pendNonce[a] /\ t.nonce \in Nat
      BY Zenon, <1>1, TxFields DEF Chunk
    <2> QED
      BY <1>1, <2>1
  <1>3. Live(a, headNonce[a]) = G
    BY Zenon, <1>2 DEF Live
  <1>4. PICK e : e = NonceAfter(R, pendNonce[a])
    OBVIOUS
  <1>5. PICK b \in Nat : \A t \in G : t.nonce <= b
    BY Zenon, <1>1 DEF Lists
  <1>6. G \subseteq TxRecord /\ R = ReadyTxs(G, pendNonce[a]) /\ \A t \in G : t.nonce >= pendNonce[a]
    BY Zenon, <1>1, <1>2, <1>3 DEF ReadyOf
  <1>7. /\ e \in Nat /\ e >= pendNonce[a] /\ R \subseteq G
        /\ \A x \in G : x \in R <=> x.nonce < e
        /\ \A n \in pendNonce[a]..(e - 1) : \E x \in R : x.nonce = n
        /\ \A x \in G : x.nonce = pendNonce[a] => x \in R
        /\ R # {} => Max(Nonces(R)) \in Nonces(R) /\ \A x \in R : x.nonce <= Max(Nonces(R))
    <2> HIDE DEF R, G
    <2>1. RunOf(G, pendNonce[a], R, e)
      BY Zenon, <1>1, <1>4, <1>5, <1>6, ReadyRun
    <2> QED
      BY Zenon, <2>1 DEF RunOf
  <1>8. /\ pend'[a] = pend[a] \cup R /\ que'[a] = G \ R /\ headNonce'[a] = headNonce[a]
        /\ pendNonce'[a] = IF pend'[a] = {} THEN e ELSE Max(Nonces(pend'[a])) + 1
    <2>1. /\ pend'[a] = pend[a] \cup R /\ que'[a] = Live(a, headNonce[a]) \ R
          /\ pendNonce'[a] = IF pend'[a] = {} THEN NonceAfter(R, pendNonce[a]) ELSE Max(Nonces(pend'[a])) + 1
          /\ headNonce'[a] = headNonce[a]
      BY Zenon, ReorgDirty
    <2> HIDE DEF R, G
    <2> QED
      BY Zenon, <2>1, <1>3, <1>4
  <1> HIDE DEF R
  <1>9. pendNonce'[a] = e
    <2>1. CASE pend'[a] = {}
      BY Zenon, <2>1, <1>8
    <2>2. CASE pend'[a] # {}
      <3>1. pend[a] # {} => \E t \in pend[a] : t.nonce = pendNonce[a] - 1
        <4> SUFFICES ASSUME NEW u \in pend[a] PROVE \E t \in pend[a] : t.nonce = pendNonce[a] - 1
          BY Zenon
        <4>1. headNonce[a] <= u.nonce /\ u.nonce < pendNonce[a] /\ u.nonce \in Nat
          BY Zenon, <1>1, TxFields DEF Chunk
        <4>2. pendNonce[a] - 1 \in headNonce[a]..(pendNonce[a] - 1)
          BY <4>1, <1>1
        <4> QED
          BY Zenon, <4>2 DEF Chunk
      <3>2. R \subseteq TxRecord /\ (\A t \in R : t.nonce >= pendNonce[a]) /\ pend[a] \cup R # {}
        BY Zenon, <1>6, <1>7, <1>8, <2>2
      <3>3. \A t \in pend[a] : t.nonce < pendNonce[a]
        BY Zenon DEF Chunk
      <3>4. Max(Nonces(pend[a] \cup R)) + 1 = NonceAfter(R, pendNonce[a])
        BY Zenon, <3>1, <3>2, <3>3, <1>1, <1>7, NextNonce
      <3> QED
        BY Zenon, <3>4, <2>2, <1>4, <1>8
    <2> QED
      BY Zenon, <2>1, <2>2
  <1>10. pend'[a] = {t \in pend[a] \cup R : t.nonce >= headNonce'[a]}
    <2>1. \A t \in pend[a] : t.nonce >= headNonce[a]
      <3> TAKE t \in pend[a]
      <3>1. headNonce[a] <= t.nonce /\ t.nonce \in Nat
        BY Zenon, <1>1, TxFields DEF Chunk
      <3> QED
        BY <3>1, <1>1
    <2>2. \A t \in R : t.nonce >= headNonce[a]
      BY Zenon, <1>2, <1>7
    <2> QED
      BY Zenon, <2>1, <2>2, <1>8
  <1>11. headNonce[a] <= headNonce'[a] /\ headNonce'[a] <= chainNonce[a]
    <2>1. headNonce[a] <= chainNonce[a]
      BY Zenon DEF Chunk
    <2> QED
      BY <2>1, <1>1, <1>8
  <1>12. Promotes(a, R)
    BY Zenon, <1>7, <1>8, <1>9, <1>10, <1>11 DEF Promotes
  <1> QED
    BY Zenon, <1>12

\* A run with a reset promotes every account, from the state's nonce on.
LEMMA PromotesReset ==
  ASSUME APIInv, runReorg, NEW a \in SigKeys, Chunk(a), curRun.reset
  PROVE  \E R : Promotes(a, R)
  <1>h. PICK h, p : h = chainNonce[a] /\ p = pendNonce[a]
    OBVIOUS
  <1> DEFINE R == ReadyOf(a, h, h)
             G == {t \in que[a] : t.gas <= 0}
             L == {t \in pend[a] \cup R : t.nonce >= h /\ t.gas <= 0}
             S == {t \in pend[a] : t.nonce >= h}
  <1>1. /\ Lists(a) /\ pend[a] \subseteq TxRecord /\ que[a] \subseteq TxRecord
        /\ headNonce[a] \in Nat /\ p \in Nat /\ h \in Nat
    BY Zenon, <1>h, ListTypes DEF APIInv
  <1>2. headNonce[a] <= h /\ h <= p /\ \A t \in pend[a] : t.nonce < p /\ t.gas = 0
    BY Zenon, <1>h DEF Chunk
  <1>3. \A t \in que[a] : t.nonce >= h /\ t.nonce >= p
    <2> TAKE t \in que[a]
    <2>1. t.nonce >= p /\ t.nonce \in Nat
      BY Zenon, <1>1, <1>h, TxFields DEF Chunk
    <2> QED
      BY <1>1, <1>2, <2>1
  <1>4. Live(a, h) = G
    BY Zenon, <1>3 DEF Live
  <1>5. G \subseteq TxRecord /\ (\E b \in Nat : \A t \in G : t.nonce <= b) /\ (\A t \in G : t.nonce >= h /\ t.nonce >= p)
    BY Zenon, <1>1, <1>3 DEF Lists
  <1>6. R = ReadyTxs(G, h) /\ R \subseteq G
    BY Zenon, <1>4, ReadyFrom DEF ReadyOf
  <1>7. h # p => R = {}
    <2> SUFFICES ASSUME h # p, NEW x \in R PROVE FALSE
      OBVIOUS
    <2>1. R = {t \in G : \A n \in h..t.nonce : \E u \in G : u.nonce = n}
      <3>1. G \subseteq TxRecord /\ (\A t \in G : t.nonce >= h) /\ h \in Nat /\ R = ReadyTxs(G, h)
        BY Zenon, <1>1, <1>5, <1>6
      <3> HIDE DEF R, G
      <3>2. ReadyTxs(G, h) = {t \in G : \A n \in h..t.nonce : \E u \in G : u.nonce = n}
        BY Zenon, <3>1, ReadyIs
      <3> QED
        BY Zenon, <3>1, <3>2
    <2>2. h \in h..x.nonce
      <3>1. x \in G
        BY Zenon, <1>6
      <3>2. x.nonce >= h /\ x.nonce \in Nat
        BY Zenon, <3>1, <1>5, TxFields
      <3> QED
        BY <3>2, <1>1
    <2>3. PICK u \in G : u.nonce = h
      BY Zenon, <2>1, <2>2
    <2>4. u.nonce >= p
      BY Zenon, <1>5
    <2> QED
      BY <2>3, <2>4, <1>1, <1>2
  <1>8. PICK e : e = NonceAfter(R, p)
    OBVIOUS
  <1>9. /\ e \in Nat /\ e >= p
        /\ \A x \in G : x \in R <=> x.nonce < e
        /\ \A n \in p..(e - 1) : \E x \in R : x.nonce = n
        /\ R # {} => Max(Nonces(R)) \in Nonces(R) /\ \A x \in R : x.nonce <= Max(Nonces(R))
    <2>1. CASE h = p
      <3> HIDE DEF R, G
      <3>1. RunOf(G, p, R, e)
        BY Zenon, <2>1, <1>1, <1>5, <1>6, <1>8, ReadyRun
      <3> QED
        BY Zenon, <3>1 DEF RunOf
    <2>2. CASE h # p
      <3> HIDE DEF R
      <3>1. R = {} /\ e = p
        BY Zenon, <2>2, <1>7, <1>8 DEF NonceAfter
      <3>2. e \in Nat /\ e >= p /\ p..(e - 1) = {}
        BY <3>1, <1>1
      <3>3. \A x \in G : ~(x.nonce < e)
        <4> TAKE x \in G
        <4>1. x.nonce >= p /\ x.nonce \in Nat
          BY Zenon, <1>5, TxFields
        <4> QED
          BY <4>1, <3>1, <1>1
      <3> QED
        BY Zenon, <3>1, <3>2, <3>3
    <2> QED
      BY Zenon, <2>1, <2>2
  <1>10. /\ L # {} /\ h \notin Nonces(L) =>
              pend'[a] = {} /\ que'[a] = {u \in Live(a, h) \ R : \A t \in L : t.nonce # u.nonce} \cup L
         /\ ~(L # {} /\ h \notin Nonces(L)) => pend'[a] = L /\ que'[a] = Live(a, h) \ R
         /\ pendNonce'[a] = IF pend'[a] = {} THEN NonceAfter(R, h) ELSE Max(Nonces(pend'[a])) + 1
         /\ headNonce'[a] = h
    <2>1. R = ReadyOf(a, chainNonce[a], chainNonce[a])
      BY Zenon, <1>h
    <2>2. L = {t \in pend[a] \cup R : t.nonce >= chainNonce[a] /\ t.gas <= 0}
      BY Zenon, <1>h
    <2> HIDE DEF R, L
    <2>3. ResetTo(a, R, L)
      BY Zenon, <2>1, <2>2, ReorgReset
    <2>4. {u \in Live(a, h) \ R : \A t \in L : t.nonce # u.nonce} = {u \in Live(a, chainNonce[a]) \ R : \A t \in L : t.nonce # u.nonce}
      BY Zenon, <1>h
    <2>5. Live(a, h) = Live(a, chainNonce[a]) /\ NonceAfter(R, h) = NonceAfter(R, chainNonce[a]) /\ (h \in Nonces(L) <=> chainNonce[a] \in Nonces(L))
      BY Zenon, <1>h
    <2>6. headNonce'[a] = h
      BY Zenon, <1>h, <2>3 DEF ResetTo
    <2>7. L # {} /\ h \notin Nonces(L) =>
            pend'[a] = {} /\ que'[a] = {u \in Live(a, h) \ R : \A t \in L : t.nonce # u.nonce} \cup L
      BY Zenon, <2>3, <2>4, <2>5 DEF ResetTo
    <2>8. ~(L # {} /\ h \notin Nonces(L)) => pend'[a] = L /\ que'[a] = Live(a, h) \ R
      BY Zenon, <2>3, <2>5 DEF ResetTo
    <2>9. pendNonce'[a] = IF pend'[a] = {} THEN NonceAfter(R, h) ELSE Max(Nonces(pend'[a])) + 1
      BY Zenon, <2>3, <2>5 DEF ResetTo
    <2> QED
      BY Zenon, <2>6, <2>7, <2>8, <2>9
  <1> HIDE DEF R
  <1>11. \A t \in S \cup R : t.gas <= 0 /\ t.nonce >= h
    <2>1. \A t \in pend[a] : t.gas <= 0
      BY <1>2
    <2> QED
      BY Zenon, <2>1, <1>5, <1>6
  <1>12. L = S \cup R
    BY Zenon, <1>11
  <1>13. h # p => \E t \in S : t.nonce = h
    <2> SUFFICES ASSUME h # p PROVE \E t \in S : t.nonce = h
      OBVIOUS
    <2>1. h \in headNonce[a]..(p - 1) /\ h >= h
      BY <1>1, <1>2
    <2>2. PICK t \in pend[a] : t.nonce = h
      BY Zenon, <2>1, <1>h DEF Chunk
    <2> QED
      BY Zenon, <2>1, <2>2
  <1>14. R # {} => \E t \in R : t.nonce = p
    <2> SUFFICES ASSUME NEW x \in R PROVE \E t \in R : t.nonce = p
      BY Zenon
    <2>1. x.nonce < e /\ x.nonce >= p /\ x.nonce \in Nat
      BY Zenon, <1>5, <1>6, <1>9, TxFields
    <2>2. p \in p..(e - 1)
      BY <2>1, <1>1, <1>9
    <2> QED
      BY Zenon, <2>2, <1>9
  <1>15. h = p => S = {}
    <2> SUFFICES ASSUME h = p, NEW x \in S PROVE FALSE
      OBVIOUS
    <2>1. x.nonce < p /\ x.nonce >= p /\ x.nonce \in Nat
      BY Zenon, <1>1, <1>2, TxFields
    <2> QED
      BY <2>1, <1>1
  <1> HIDE DEF L, S
  <1>16. L # {} => h \in Nonces(L)
    <2>1. CASE h # p
      BY Zenon, <2>1, <1>12, <1>13 DEF Nonces
    <2>2. CASE h = p
      BY Zenon, <2>2, <1>12, <1>14, <1>15 DEF Nonces
    <2> QED
      BY Zenon, <2>1, <2>2
  <1>17. pend'[a] = S \cup R /\ que'[a] = G \ R
    BY Zenon, <1>4, <1>10, <1>12, <1>16
  <1>18. pendNonce'[a] = e
    <2>1. CASE pend'[a] = {}
      <3>1. h = p
        BY Zenon, <2>1, <1>13, <1>17
      <3> QED
        BY Zenon, <3>1, <2>1, <1>8, <1>10
    <2>2. CASE pend'[a] # {}
      <3>1. S # {} => \E t \in S : t.nonce = p - 1
        <4> SUFFICES ASSUME S # {} PROVE \E t \in S : t.nonce = p - 1
          OBVIOUS
        <4>1. p - 1 \in headNonce[a]..(p - 1) /\ p - 1 >= h
          BY <1>1, <1>2, <1>15
        <4>2. PICK t \in pend[a] : t.nonce = p - 1
          BY Zenon, <4>1, <1>h DEF Chunk
        <4> QED
          BY Zenon, <4>1, <4>2 DEF S
      <3>2. R \subseteq TxRecord /\ (\A t \in R : t.nonce >= p) /\ S \cup R # {} /\ S \subseteq TxRecord
        BY Zenon, <1>1, <1>5, <1>6, <1>17, <2>2 DEF S
      <3>3. \A t \in S : t.nonce < p
        BY Zenon, <1>2 DEF S
      <3>4. Max(Nonces(S \cup R)) + 1 = NonceAfter(R, p)
        <4>1. p \in Nat /\ (R # {} => Max(Nonces(R)) \in Nonces(R) /\ \A x \in R : x.nonce <= Max(Nonces(R)))
          BY Zenon, <1>1, <1>9
        <4> QED
          BY Zenon, <3>1, <3>2, <3>3, <4>1, NextNonce
      <3> QED
        BY Zenon, <3>4, <2>2, <1>8, <1>10, <1>17
    <2> QED
      BY Zenon, <2>1, <2>2
  <1>19. pend'[a] = {t \in pend[a] \cup R : t.nonce >= headNonce'[a]}
    BY Zenon, <1>10, <1>11, <1>17 DEF S
  <1>20. headNonce[a] <= headNonce'[a] /\ headNonce'[a] <= chainNonce[a]
    BY <1>1, <1>2, <1>10, <1>h
  <1>21. Promotes(a, R)
    BY Zenon, <1>h, <1>6, <1>9, <1>17, <1>18, <1>19, <1>20 DEF Promotes
  <1> QED
    BY Zenon, <1>21

\* The frame of a run.
LEMMA ReorgFrame ==
  ASSUME APIInv, runReorg
  PROVE  /\ UNCHANGED <<args, rpc, addrMu, chainNonce, nextRun, heads, accepted, merged>>
         /\ curRun # None /\ ~curRun.ran /\ curRun' \in RunRecord
         /\ curRun'.waits = curRun.waits /\ curRun'.dirty = curRun.dirty /\ curRun'.reset = curRun.reset
  <1>1. /\ UNCHANGED <<args, rpc, addrMu, chainNonce, nextRun, heads, accepted, merged>>
        /\ curRun # None /\ ~curRun.ran /\ curRun' = [curRun EXCEPT !.ran = TRUE]
    BY Zenon DEF runReorg
  <1>2. curRun \in RunRecord
    BY Zenon, <1>1, RunTypes DEF APIInv
  <1>3. /\ curRun' \in RunRecord
        /\ curRun'.waits = curRun.waits /\ curRun'.dirty = curRun.dirty /\ curRun'.reset = curRun.reset
    BY <1>1, <1>2 DEF RunRecord
  <1> QED
    BY Zenon, <1>1, <1>3

\* A call still waits for its promotion after a run that does not look at its account, or that
\* is a reset nobody waits for.
LEMMA StillPending ==
  ASSUME APIInv, runReorg, NEW x, Pending(x), args[x].from \notin curRun.dirty \/ (curRun.reset /\ ~merged)
  PROVE  Pending(x)'
  <1>1. /\ UNCHANGED <<args, rpc, nextRun>> /\ curRun # None
        /\ curRun.reset /\ ~merged => curRun.waits = {}
    BY Zenon, ReorgFrame DEF APIInv, Waiting
  <1>2. ~(x \in curRun.waits /\ args[x].from \in curRun.dirty)
    BY Zenon, <1>1
  <1> QED
    BY Zenon, <1>1, <1>2 DEF Pending, At

\* An account that a run looks at stays in order.
LEMMA ReorgOrderly ==
  ASSUME APIInv, runReorg, NEW a \in SigKeys, curRun.reset \/ a \in curRun.dirty, Calm(a)'
  PROVE  Orderly(a)'
  <1>1. UNCHANGED <<args, rpc, accepted, chainNonce, merged>>
    BY Zenon, ReorgFrame
  <1>2. /\ ByHand(a)' = ByHand(a) /\ Limited(a)' = Limited(a) /\ Calm(a) /\ ~merged
        /\ \A n : Disturbed(a, n)' = Disturbed(a, n)
        /\ \A x : AutoOf(x, a)' = AutoOf(x, a)
    <2>1. ByHand(a)' = ByHand(a) /\ Limited(a)' = Limited(a)
      BY Zenon, <1>1 DEF ByHand, Limited
    <2> QED
      BY Zenon, <1>1, <2>1 DEF Calm, Disturbed, AutoOf, Automatic
  <1>3. Chunk(a) /\ Source(a) /\ Given(a) /\ Promoted(a) /\ AheadOf(a) /\ Differ(a) /\ accepted \subseteq Requests /\ Mutexes /\ Answers
    BY Zenon, <1>2 DEF APIInv, APIShape, Orderly
  <1>4. PICK R : Promotes(a, R)
    BY Zenon, <1>3, PromotesReset, PromotesDirty
  <1>5. /\ Lists(a) /\ pend[a] \subseteq TxRecord /\ que[a] \subseteq TxRecord
        /\ headNonce[a] \in Nat /\ pendNonce[a] \in Nat /\ chainNonce[a] \in Nat
        /\ headNonce'[a] \in Nat /\ pendNonce'[a] \in Nat
    BY Zenon, ListTypes, ReorgLists DEF APIInv
  <1>6. pendNonce'[a] >= pendNonce[a]
    BY Zenon, <1>4 DEF Promotes
  <1>7. \A t \in que'[a] : t \in que[a] /\ t.nonce \in Nat /\ ~(t.nonce < pendNonce'[a]) /\ t.gas <= 0 /\ t \notin R
    BY Zenon, <1>4, <1>5, TxFields DEF Promotes
  <1>8. Chunk(a)'
    <2>1. headNonce'[a] <= chainNonce'[a] /\ chainNonce'[a] <= pendNonce'[a]
      <3>1. headNonce'[a] <= chainNonce[a] /\ chainNonce[a] <= pendNonce[a]
        BY Zenon, <1>3, <1>4 DEF Promotes, Chunk
      <3> QED
        BY <3>1, <1>1, <1>5, <1>6
    <2>2. ASSUME NEW t \in pend'[a] PROVE headNonce'[a] <= t.nonce /\ t.nonce < pendNonce'[a] /\ t.gas = 0
      <3>1. t \in pend[a] \cup R /\ t.nonce >= headNonce'[a] /\ R \subseteq que[a]
        BY Zenon, <1>4 DEF Promotes
      <3>2. t \in TxRecord
        BY Zenon, <3>1, <1>5
      <3>3. t.nonce \in Nat /\ t.gas \in Nat
        BY Zenon, <3>2, TxFields
      <3>4. CASE t \in pend[a]
        <4>1. t.nonce < pendNonce[a] /\ t.gas = 0
          BY Zenon, <3>4, <1>3 DEF Chunk
        <4>2. PICK h, n, n1, n2 : h = headNonce'[a] /\ n = t.nonce /\ n1 = pendNonce[a] /\ n2 = pendNonce'[a]
          OBVIOUS
        <4>3. h \in Nat /\ n \in Nat /\ n1 \in Nat /\ n2 \in Nat /\ n < n1 /\ n >= h /\ n2 >= n1
          BY Zenon, <4>1, <4>2, <3>1, <3>3, <1>5, <1>6
        <4>4. h <= n /\ n < n2
          BY <4>3
        <4> QED
          BY Zenon, <4>1, <4>2, <4>4
      <3>5. CASE t \in R
        <4>1. t.nonce < pendNonce'[a] /\ t.gas <= 0
          BY Zenon, <3>5, <1>4 DEF Promotes
        <4> QED
          BY <4>1, <3>1, <3>3, <1>5
      <3> QED
        BY Zenon, <3>1, <3>4, <3>5
    <2>3. ASSUME NEW n \in headNonce'[a]..(pendNonce'[a] - 1) PROVE \E t \in pend'[a] : t.nonce = n
      <3>1. pend'[a] = {t \in pend[a] \cup R : t.nonce >= headNonce'[a]}
        BY Zenon, <1>4 DEF Promotes
      <3>2. n >= headNonce'[a] /\ n \in Nat
        BY <1>5, <2>3
      <3>3. CASE n < pendNonce[a]
        <4>1. headNonce[a] <= headNonce'[a]
          BY Zenon, <1>4 DEF Promotes
        <4>2. n \in headNonce[a]..(pendNonce[a] - 1)
          BY <4>1, <3>2, <3>3, <1>5
        <4>3. PICK t \in pend[a] : t.nonce = n
          BY Zenon, <4>2, <1>3 DEF Chunk
        <4> QED
          BY Zenon, <4>3, <3>1, <3>2
      <3>4. CASE ~(n < pendNonce[a])
        <4>1. n \in pendNonce[a]..(pendNonce'[a] - 1)
          BY <3>2, <3>4, <1>5, <2>3
        <4>2. PICK t \in R : t.nonce = n
          BY Zenon, <4>1, <1>4 DEF Promotes
        <4> QED
          BY Zenon, <4>2, <3>1, <3>2
      <3> QED
        BY Zenon, <3>3, <3>4
    <2>4. \A t \in que'[a] : t.nonce >= pendNonce'[a]
      BY <1>5, <1>7
    <2> QED
      BY Zenon, <2>1, <2>2, <2>3, <2>4 DEF Chunk
  \* What a reset leaves in the queue, it leaves to the same virtual nonce.
  <1>9. ASSUME NEW t \in que'[a], t.nonce = pendNonce[a] PROVE curRun.reset /\ pendNonce'[a] = t.nonce
    <2>1. curRun.reset
      BY Zenon, <1>4, <1>7, <1>9 DEF Promotes
    <2>2. pendNonce'[a] = t.nonce
      <3>1. t.nonce \in Nat /\ ~(t.nonce < pendNonce'[a])
        BY Zenon, <1>7
      <3> QED
        BY <3>1, <1>5, <1>6, <1>9
    <2> QED
      BY Zenon, <2>1, <2>2
  <1>10. Source(a)'
    <2> SUFFICES ASSUME NEW t \in que'[a], ~ \E q \in ByHand(a)' : args'[q].nonce = t.nonce
                 PROVE  \E q \in accepted' : rpc'[q].tx = t /\ args'[q].nonce = None /\ Pending(q)' /\ t.nonce = pendNonce'[a]
      BY Zenon DEF Source
    <2>1. PICK q \in accepted : rpc[q].tx = t /\ args[q].nonce = None /\ Pending(q) /\ t.nonce = pendNonce[a]
      BY Zenon, <1>1, <1>2, <1>3, <1>7 DEF Source
    <2>2. curRun.reset /\ pendNonce'[a] = t.nonce
      BY Zenon, <2>1, <1>9
    <2>3. Pending(q)'
      BY Zenon, <2>1, <2>2, <1>2, StillPending
    <2> QED
      BY Zenon, <2>1, <2>2, <2>3, <1>1
  <1>11. Given(a)'
    <2> SUFFICES ASSUME NEW q \in Requests, args'[q].from = a, args'[q].nonce = None, rpc'[q].pc \in Made
                 PROVE  /\ rpc'[q].tx.nonce <= pendNonce'[a]
                        /\ ByHand(a)' = {} => rpc'[q].tx.nonce = pendNonce'[a]
      BY Zenon DEF Given
    <2>1. args[q].from = a /\ args[q].nonce = None /\ rpc[q].pc \in Made /\ rpc' = rpc
      BY Zenon, <1>1
    <2>2. rpc[q].tx.nonce <= pendNonce[a] /\ (ByHand(a) = {} => rpc[q].tx.nonce = pendNonce[a])
      BY Zenon, <2>1, <1>3 DEF Given
    <2>3. rpc[q].tx.nonce \in Nat
      <3>1. rpc[q].tx # None
        BY Zenon, <2>1, <1>3 DEF Answers, AnswerOf
      <3>2. rpc[q].tx \in TxRecord
        BY Zenon, <3>1, CallTypes DEF APIInv
      <3> QED
        BY Zenon, <3>2, TxFields
    <2>4. rpc[q].tx.nonce <= pendNonce'[a]
      BY <2>2, <2>3, <1>5, <1>6
    <2>5. ByHand(a) = {} => pendNonce'[a] = pendNonce[a]
      <3> SUFFICES ASSUME ByHand(a) = {} PROVE pendNonce'[a] = pendNonce[a]
        OBVIOUS
      <3>1. rpc[q].pc \in Holds /\ rpc[q].pc \notin {"promote", "wait"}
        BY <2>1 DEF Made, Holds
      <3>2. ASSUME NEW t \in que[a] PROVE FALSE
        <4>1. PICK x \in accepted : rpc[x].tx = t /\ args[x].nonce = None /\ Pending(x)
          BY Zenon, <3>2, <1>3 DEF Source
        <4>2. x \in Requests /\ rpc[x].tx \in pend[a] \cup que[a]
          BY Zenon, <4>1, <3>2, <1>3
        <4>3. args[x].from = a
          BY Zenon, <4>2, <1>3, <1>5, SourceFrom
        <4>4. x = q
          BY Zenon, <4>1, <4>2, <4>3, <3>1, <2>1, <1>3, OneHolder, PendingHolds
        <4> QED
          BY Zenon, <4>1, <4>4, <2>1, PendingHolds
      <3>3. R = {}
        BY Zenon, <3>2, <1>4 DEF Promotes
      <3>4. ~(pendNonce'[a] > pendNonce[a])
        <4> SUFFICES ASSUME pendNonce'[a] > pendNonce[a] PROVE FALSE
          OBVIOUS
        <4>1. pendNonce[a] \in pendNonce[a]..(pendNonce'[a] - 1)
          BY <1>5
        <4> QED
          BY Zenon, <4>1, <3>3, <1>4 DEF Promotes
      <3> QED
        BY <3>4, <1>5, <1>6
    <2> QED
      BY Zenon, <2>1, <2>2, <2>4, <2>5, <1>2
  <1>12. Promoted(a)'
    <2> SUFFICES ASSUME NEW x \in accepted', AutoOf(x, a)', ~Disturbed(a, rpc[x].tx.nonce)'
                 PROVE  \/ rpc'[x].tx.nonce < pendNonce'[a]
                        \/ Pending(x)' /\ rpc'[x].tx \in que'[a] /\ rpc'[x].tx.nonce = pendNonce'[a]
      BY Zenon DEF Promoted
    <2>1. x \in accepted /\ x \in Requests /\ AutoOf(x, a) /\ rpc' = rpc
      BY Zenon, <1>1, <1>2, <1>3
    <2>2. ~Disturbed(a, rpc[x].tx.nonce)
      BY Zenon, <2>1, <1>2
    <2>3. rpc[x].tx \in TxRecord /\ rpc[x].tx.nonce \in Nat /\ rpc[x].tx.gas = 0
      <3>1. rpc[x].tx # None /\ rpc[x].tx = toTransaction(x, rpc[x].tx.nonce)
        BY Zenon, <2>1, <1>3 DEF Answers, AnswerOf
      <3>2. rpc[x].tx \in TxRecord
        BY Zenon, <3>1, <2>1, CallTypes DEF APIInv
      <3>3. rpc[x].tx.nonce \in Nat
        BY Zenon, <3>2, TxFields
      <3>4. toTransaction(x, rpc[x].tx.nonce).gas = IF args[x].gas = None THEN 0 ELSE args[x].gas
        BY Zenon, <3>3, <2>1, TxMade DEF APIInv
      <3>5. args[x].gas = None
        BY Zenon, <2>1 DEF AutoOf, Automatic
      <3> QED
        BY Zenon, <3>1, <3>2, <3>3, <3>4, <3>5
    <2>4. CASE rpc[x].tx.nonce < pendNonce[a]
      <3>1. PICK v : v = rpc[x].tx.nonce
        OBVIOUS
      <3>2. v \in Nat /\ v < pendNonce[a]
        BY Zenon, <2>3, <2>4, <3>1
      <3>3. v < pendNonce'[a]
        BY <1>5, <1>6, <3>2
      <3> QED
        BY Zenon, <2>1, <3>1, <3>3
    <2>5. CASE Pending(x) /\ rpc[x].tx \in que[a] /\ rpc[x].tx.nonce = pendNonce[a]
      <3>1. rpc[x].tx.gas <= 0
        BY <2>3
      <3>2. CASE rpc[x].tx \in R
        BY Zenon, <3>1, <3>2, <2>1, <2>5, <1>4 DEF Promotes
      <3>3. CASE rpc[x].tx \notin R
        <4>1. rpc[x].tx \in que'[a]
          BY Zenon, <3>1, <3>3, <2>5, <1>4 DEF Promotes
        <4>2. curRun.reset /\ pendNonce'[a] = rpc[x].tx.nonce
          BY Zenon, <4>1, <2>5, <1>9
        <4>3. Pending(x)'
          BY Zenon, <4>2, <2>5, <1>2, StillPending
        <4> QED
          BY Zenon, <4>1, <4>2, <4>3, <2>1
      <3> QED
        BY Zenon, <3>2, <3>3
    <2> QED
      BY Zenon, <2>1, <2>2, <2>4, <2>5, <1>3 DEF Promoted
  <1>13. AheadOf(a)'
    BY Zenon, <1>1, <1>2, <1>3 DEF AheadOf
  <1>14. Differ(a)'
    BY Zenon, <1>1, <1>2, <1>3 DEF Differ
  <1> QED
    BY Zenon, <1>8, <1>10, <1>11, <1>12, <1>13, <1>14 DEF Orderly

\* runReorg, with a reset or without: every account's lists and virtual nonce stay as the invariant
\* says.
LEMMA ReorgKeeps == ASSUME APIInv, runReorg PROVE APIInv'
  <1>1. /\ UNCHANGED <<args, rpc, addrMu, chainNonce, nextRun, heads, accepted, merged>>
        /\ curRun # None /\ ~curRun.ran /\ curRun' \in RunRecord
        /\ curRun'.waits = curRun.waits /\ curRun'.dirty = curRun.dirty /\ curRun'.reset = curRun.reset
    BY Zenon, ReorgFrame
  <1>2. \A a \in SigKeys : /\ Lists(a)' /\ pendNonce'[a] \in Nat /\ headNonce'[a] \in Nat
                           /\ pend'[a] \subseteq TxRecord /\ que'[a] \subseteq TxRecord
    BY Zenon, ReorgLists
  <1>3. APIShape'
    <2>1. /\ pend' = [a \in SigKeys |-> pend'[a]] /\ que' = [a \in SigKeys |-> que'[a]]
          /\ headNonce' = [a \in SigKeys |-> headNonce'[a]] /\ pendNonce' = [a \in SigKeys |-> pendNonce'[a]]
      <3>1. /\ pend' = [a \in SigKeys |-> Reorganized(a).pend] /\ que' = [a \in SigKeys |-> Reorganized(a).que]
            /\ headNonce' = [a \in SigKeys |-> HeadNonce(a)]
        BY Zenon DEF runReorg
      <3>2. pendNonce' = [a \in SigKeys |-> IF Reorganized(a).pend = {} THEN Reorganized(a).nonce
                                            ELSE Max(Nonces(Reorganized(a).pend)) + 1]
        BY Zenon DEF runReorg
      <3>3. pendNonce' = [a \in SigKeys |-> pendNonce'[a]]
        BY Zenon, <3>2
      <3> QED
        BY Zenon, <3>1, <3>3
    <2>2. pend' \in [SigKeys -> SUBSET TxRecord] /\ que' \in [SigKeys -> SUBSET TxRecord]
      BY Zenon, <2>1, <1>2
    <2>3. headNonce' \in [SigKeys -> Nat] /\ pendNonce' \in [SigKeys -> Nat]
      BY Zenon, <2>1, <1>2
    <2> QED
      BY Zenon, <1>1, <2>2, <2>3 DEF APIInv, APIShape
  <1>4. Mutexes' /\ Answers'
    BY Zenon, <1>1, CallsSame DEF APIInv
  <1>5. Waiting'
    BY Zenon, <1>1 DEF APIInv, Waiting, At
  <1>6. ASSUME NEW a \in SigKeys PROVE Calm(a)' => Orderly(a)'
    <2>1. CASE curRun.reset \/ a \in curRun.dirty
      BY Zenon, <2>1, ReorgOrderly
    <2>2. CASE ~curRun.reset /\ a \notin curRun.dirty
      <3>1. pend'[a] = pend[a] /\ que'[a] = que[a] /\ pendNonce'[a] = pendNonce[a] /\ headNonce'[a] = headNonce[a]
        BY Zenon, <2>2, ReorgNot
      <3>2. \A x \in accepted : args[x].from = a => (Pending(x) => Pending(x)')
        BY Zenon, <2>2, StillPending
      <3>3. LeavesLists(a)
        BY Zenon, <3>1, <3>2, <1>1 DEF LeavesLists
      <3>4. Calm(a) => Chunk(a)'
        BY Zenon, <3>1, <1>1 DEF APIInv, Orderly, Chunk
      <3>5. accepted' \subseteq Requests /\ Lists(a) /\ (Calm(a) => Orderly(a)) /\ APIShape /\ Mutexes /\ Answers
        BY Zenon, <1>1 DEF APIShape, APIInv
      <3> QED
        BY Zenon, <3>3, <3>4, <3>5, OrderlyKept
    <2> QED
      BY Zenon, <2>1, <2>2
  <1> QED
    BY Zenon, <1>2, <1>3, <1>4, <1>5, <1>6 DEF APIInv

------------------------------------------------------------------------------
(* The theorem. *)

\* The invariant holds at the start, with empty lists and no call under way.
LEMMA APIInitial == APIInit => APIInv
  <1> SUFFICES ASSUME APIInit PROVE APIInv
    OBVIOUS
  <1>1. args \in [Requests -> CallArgs]
    BY Zenon, APIAssumption DEF APIInit
  <1>2. /\ pend = [a \in SigKeys |-> {}] /\ que = [a \in SigKeys |-> {}] /\ addrMu = [a \in SigKeys |-> None]
        /\ headNonce = [a \in SigKeys |-> 0] /\ pendNonce = [a \in SigKeys |-> 0] /\ chainNonce = [a \in SigKeys |-> 0]
        /\ nextRun = NoRun /\ curRun = None /\ accepted = {} /\ merged = FALSE
    BY Zenon DEF APIInit
  <1>3. ASSUME NEW r \in Requests PROVE rpc[r] \in CallRecord /\ rpc[r].pc = "find"
    <2>1. rpc[r] = [pc |-> "find", tx |-> None, err |-> FALSE]
      BY Zenon DEF APIInit
    <2> QED
      BY <2>1 DEF CallRecord, Pcs
  <1>4. APIShape
    <2>1. rpc \in [Requests -> CallRecord]
      <3>1. rpc = [r \in Requests |-> rpc[r]]
        BY DEF APIInit
      <3> QED
        BY Zenon, <3>1, <1>3
    <2>2. nextRun \in NextRecord
      BY <1>2 DEF NoRun, NextRecord
    <2>3. headNonce \in [SigKeys -> Nat] /\ pendNonce \in [SigKeys -> Nat] /\ chainNonce \in [SigKeys -> Nat]
      BY <1>2
    <2> QED
      BY Zenon, <1>1, <1>2, <2>1, <2>2, <2>3 DEF APIShape
  <1>5. Mutexes
    <2>1. "find" \notin Holds
      BY DEF Holds
    <2> QED
      BY Zenon, <2>1, <1>2, <1>3 DEF Mutexes
  <1>6. Answers
    <2> SUFFICES ASSUME NEW r \in Requests PROVE AnswerOf(r)
      BY Zenon DEF Answers
    <2>1. rpc[r].pc \notin Made \cup {"promote", "reorg", "wait", "submitted"} /\ rpc[r].pc # "promote"
          /\ rpc[r].pc # "lock" /\ rpc[r].pc # "done" /\ r \notin accepted
      BY <1>2, <1>3 DEF Made
    <2> QED
      BY Zenon, <2>1 DEF AnswerOf
  <1>7. Waiting
    <2>1. nextRun.waits = {}
      BY <1>2 DEF NoRun
    <2> QED
      BY Zenon, <2>1, <1>2 DEF Waiting
  <1>8. ASSUME NEW a \in SigKeys PROVE Lists(a) /\ Orderly(a)
    <2>1. pend[a] = {} /\ que[a] = {} /\ accepted = {} /\ pendNonce[a] = 0 /\ headNonce[a] = 0 /\ chainNonce[a] = 0
      BY Zenon, <1>2
    <2>2. Lists(a)
      <3>1. 0 \in Nat
        OBVIOUS
      <3> QED
        BY Zenon, <2>1, <3>1 DEF Lists
    <2>3. Chunk(a)
      BY <2>1 DEF Chunk
    <2>4. "find" \notin Made
      BY DEF Made
    <2> QED
      BY Zenon, <2>1, <2>2, <2>3, <2>4, <1>3 DEF Orderly, Source, Given, Promoted, AheadOf, Differ
  <1> QED
    BY Zenon, <1>4, <1>5, <1>6, <1>7, <1>8 DEF APIInv

\* Every step of the calls, of the pool's loop and of the chain keeps the invariant.
LEMMA APIStep == APIInv /\ [APINext]_apiVars => APIInv'
  <1> SUFFICES ASSUME APIInv, [APINext]_apiVars PROVE APIInv'
    OBVIOUS
  <1>1. ASSUME NEW r \in Requests, RequestNext(r) PROVE APIInv'
    BY Zenon, <1>1, FindKeeps, LockKeeps, DefaultsKeeps, SignKeeps, FilteredKeeps, AddKeeps, RequestKeeps, SubmitKeeps
       DEF RequestNext
  <1>2. CASE ReorgNext
    BY Zenon, <1>2, LaunchKeeps, ReorgKeeps, DoneKeeps DEF ReorgNext
  <1>3. CASE NewHead
    BY Zenon, <1>3, HeadKeeps
  <1>4. CASE UNCHANGED apiVars
    BY Zenon, <1>4, StutterKeeps
  <1> QED
    BY Zenon, <1>1, <1>2, <1>3, <1>4 DEF APINext

\* What the invariant says of the nonces and the answers.
LEMMA APIShows == ASSUME APIInv PROVE NoncesConsistent
  <1>1. APITypeOK
    <2>1. \A a \in SigKeys : addrMu[a] # None => args[addrMu[a]].from = a /\ rpc[addrMu[a]].pc \notin {"find", "lock"}
      <3>1. \A p \in Holds : p \notin {"find", "lock"}
        BY DEF Holds
      <3> QED
        BY Zenon, <3>1 DEF APIInv, Mutexes
    <2> QED
      BY Zenon, <2>1 DEF APIInv, Lists, APITypeOK
  <1>2. TransferAnswered
    BY Zenon DEF TransferAnswered, APIInv, Answers, AnswerOf, At
  <1>3. NoncesDiffer
    <2> SUFFICES ASSUME ~merged, NEW r \in accepted, NEW q \in accepted, r # q, Automatic(r), Automatic(q),
                        args[r].from = args[q].from, rpc[r].tx.nonce = rpc[q].tx.nonce,
                        ~Disturbed(args[r].from, rpc[r].tx.nonce)
                 PROVE  FALSE
      BY Zenon DEF NoncesDiffer
    <2>1. PICK a : a = args[r].from
      OBVIOUS
    <2>2. Calm(a)
      BY Zenon, <2>1 DEF Calm, Disturbed
    <2>3. a \in SigKeys
      BY Zenon, <2>1, CallTypes DEF APIInv, APIShape
    <2>4. Differ(a) /\ AutoOf(r, a) /\ AutoOf(q, a)
      BY Zenon, <2>1, <2>2, <2>3 DEF APIInv, Orderly, AutoOf
    <2> QED
      BY Zenon, <2>1, <2>4 DEF Differ
  <1> QED
    BY Zenon, <1>1, <1>2, <1>3 DEF NoncesConsistent

\* Every call of SendTransaction gets a nonce of its own and the answer that the pool gave,
\* whatever the calls are, however the reorg loop runs and whenever blocks come.
THEOREM NoncesAreConsistent == APISpec => []NoncesConsistent
  <1>1. APIInv /\ [APINext]_apiVars => APIInv'
    BY APIStep
  <1>2. APIInv => NoncesConsistent
    BY APIShows
  <1> QED
    BY APIInitial, <1>1, <1>2, PTL DEF APISpec
====
