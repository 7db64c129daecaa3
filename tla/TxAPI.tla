-------------------------------- MODULE TxAPI --------------------------------
(***************************************************************************)
(* The calls of SendTransaction (internal/bnzapi/api.go, addrlock.go), the *)
(* mutex of each address that keeps two of them from taking one nonce, and *)
(* the pool they read the nonce from and add the transaction to            *)
(* (core/tx_pool.go, tx_noncer.go), whose reorg loop runs in between.      *)
(*                                                                         *)
(* The pool is the part of it that nonces depend on: TxPool has its        *)
(* limits, its prices and its journal.  The accounts can pay for what they *)
(* send.  A block takes executable transactions and asks for a reset.      *)
(***************************************************************************)
EXTENDS TxSigning, FiniteSetsExt

CONSTANTS Requests,     \* calls of SendTransaction
          RequestArgs,  \* functions from Requests to [from, nonce, to, data, gas, price]
          Wallets,      \* the addresses of the wallets the node knows
          PriceBump,
          MaxHeads      \* bound: blocks

CallArgs == [from : SigKeys, nonce : Nat \cup {None}, to : BOOLEAN, data : BOOLEAN,
             gas : Nat \cup {None}, price : Nat]
TxRecord == [from : SigKeys, nonce : Nat, to : BOOLEAN, price : Nat, gas : Nat]
RunRecord == [dirty : SUBSET SigKeys, waits : SUBSET Requests, reset : BOOLEAN, ran : BOOLEAN]

ASSUME APIAssumption ==
  /\ RequestArgs \subseteq [Requests -> CallArgs] /\ Wallets \subseteq SigKeys /\ PriceBump \in Nat
  /\ None \notin Nat \cup Requests /\ None \notin TxRecord /\ None \notin RunRecord

VARIABLES args,       \* request -> its arguments; nonce and gas may be None
          rpc,        \* request -> [pc, tx, err]
          addrMu,     \* address -> None or the request that holds its mutex
          pend, que,  \* address -> set of transactions: pool.pending and pool.queue
          headNonce,  \* address -> nonce in pool.currentState
          pendNonce,  \* address -> nonce in pool.pendingNonces
          chainNonce, \* address -> nonce in the state of the newest block
          nextRun,    \* [dirty, waits, reset]: the run that the loop will launch
          curRun,     \* None or the run in progress
          heads,
          accepted,   \* history: the requests whose transaction the pool took
          merged      \* history: a run did a reset and a promotion that was waited for

apiVars == <<args, rpc, addrMu, pend, que, headNonce, pendNonce, chainNonce, nextRun, curRun,
             heads, accepted, merged>>
PoolLists == <<pend, que, headNonce, pendNonce>>
PoolRuns == <<chainNonce, nextRun, curRun, heads, merged>>

NoRun == [dirty |-> {}, waits |-> {}, reset |-> FALSE]

\* The signer of the pool, and of SendTransaction.
PoolSigner == NewEIP155Signer(1)

At(r, pc) == rpc[r].pc = pc
Becomes(r, pc, tx, err) == rpc' = [rpc EXCEPT ![r] = [pc |-> pc, tx |-> tx, err |-> err]]
Goes(r, pc) == Becomes(r, pc, rpc[r].tx, rpc[r].err)

------------------------------------------------------------------------------
(* SendTransaction. *)

\* AccountManager.Find; without a nonce the address is locked first.
FindWallet(r) ==
  /\ At(r, "find")
  /\ IF args[r].from \notin Wallets THEN Becomes(r, "done", rpc[r].tx, TRUE)
     ELSE Goes(r, IF args[r].nonce = None THEN "lock" ELSE "defaults")
  /\ UNCHANGED <<args, addrMu, PoolLists, PoolRuns, accepted>>

\* Mutant: nobody waits for the mutex.
LockAddr_Free(r) ==
  /\ At(r, "lock")
  /\ addrMu' = [addrMu EXCEPT ![args[r].from] = r]
  /\ Goes(r, "defaults")
  /\ UNCHANGED <<args, PoolLists, PoolRuns, accepted>>

LockAddr(r) ==
  /\ At(r, "lock") /\ addrMu[args[r].from] = None
  /\ addrMu' = [addrMu EXCEPT ![args[r].from] = r]
  /\ Goes(r, "defaults")
  /\ UNCHANGED <<args, PoolLists, PoolRuns, accepted>>

\* Mutant: an error leaves the address locked.
UnlockAddr_Hash(r, err) ==
  IF args[r].nonce = None /\ ~err THEN [addrMu EXCEPT ![args[r].from] = None] ELSE addrMu

\* The deferred UnlockAddr of a call that returns.
UnlockAddr(r, err) == IF args[r].nonce = None THEN [addrMu EXCEPT ![args[r].from] = None] ELSE addrMu

Answer(r, err) ==
  /\ addrMu' = UnlockAddr(r, err)
  /\ Becomes(r, "done", rpc[r].tx, err)

\* toTransaction, for the nonce that is given or read.
toTransaction(r, nonce) ==
  [from |-> args[r].from, nonce |-> nonce, to |-> args[r].to, price |-> args[r].price,
   gas |-> IF args[r].gas = None THEN 0 ELSE args[r].gas]

\* setDefaults reads the nonce of the pool; a contract creation needs data.  The gas of
\* a call without gas is estimated as zero.
setDefaults(r) ==
  /\ At(r, "defaults")
  /\ IF ~args[r].to /\ ~args[r].data THEN Answer(r, TRUE)
     ELSE /\ Becomes(r, "sign", toTransaction(r, IF args[r].nonce = None THEN pendNonce[args[r].from]
                                                 ELSE args[r].nonce), rpc[r].err)
          /\ UNCHANGED addrMu
  /\ UNCHANGED <<args, PoolLists, PoolRuns, accepted>>

\* wallet.SignTx fails when the account is locked.
SignRequest(r) ==
  /\ At(r, "sign")
  /\ \/ Answer(r, TRUE)
     \/ Goes(r, "add") /\ UNCHANGED addrMu
  /\ UNCHANGED <<args, PoolLists, PoolRuns, accepted>>

\* What was signed, with the chain id that SendTransaction passes.
Signed(r) == CHOOSE t \in SignTx(rpc[r].tx, PoolSigner, args[r].from) : TRUE

------------------------------------------------------------------------------
(* The pool. *)

\* txList.Add: t takes the place of the transaction with its nonce.
Overlaps(list, t) == {u \in list : u.nonce = t.nonce}

Pricier(u, t) == t.price > u.price /\ t.price >= (u.price * (100 + PriceBump)) \div 100

Inserted(list, t) == \A u \in Overlaps(list, t) : Pricier(u, t)

\* Mutant: the transaction that is replaced stays.
PutTx_Keeps(list, t) == list \cup {t}

PutTx(list, t) == (list \ Overlaps(list, t)) \cup {t}

\* The first part of addTxs, without the lock.
Filtered(r) ==
  /\ At(r, "add")
  /\ IF rpc[r].tx \in pend[args[r].from] \cup que[args[r].from] \/ SignerSender(PoolSigner, Signed(r)) = None
     THEN Answer(r, TRUE)
     ELSE Goes(r, "locked") /\ UNCHANGED addrMu
  /\ UNCHANGED <<args, PoolLists, PoolRuns, accepted>>

\* addTxsLocked: add puts the transaction into the list that has its nonce, else into
\* the queue, and marks the account dirty unless it replaced one.
addTxsLocked(r) ==
  /\ At(r, "locked")
  /\ LET t == rpc[r].tx
         a == t.from
         list == IF Overlaps(pend[a], t) # {} THEN pend[a] ELSE que[a]
         ok == t \notin pend[a] \cup que[a] /\ t.nonce >= headNonce[a] /\ Inserted(list, t)
         inPend == Overlaps(pend[a], t) # {}
     IN  /\ pend' = IF ok /\ inPend THEN [pend EXCEPT ![a] = PutTx(@, t)] ELSE pend
         /\ que' = IF ok /\ ~inPend THEN [que EXCEPT ![a] = PutTx(@, t)] ELSE que
         /\ accepted' = IF ok THEN accepted \cup {r} ELSE accepted
         /\ Becomes(r, IF ok /\ Overlaps(list, t) = {} THEN "promote" ELSE "reorg", t, ~ok)
  /\ UNCHANGED <<args, addrMu, headNonce, pendNonce, PoolRuns>>

\* The requests that wait for the run: AddLocals is synchronous.
Waits(r) == {r}

\* requestPromoteExecutables, also with no dirty account: the request joins the next run.
requestPromote(r) ==
  /\ rpc[r].pc \in {"promote", "reorg"}
  /\ nextRun' = [dirty |-> nextRun.dirty \cup (IF At(r, "promote") THEN {args[r].from} ELSE {}),
                 waits |-> nextRun.waits \cup {r}, reset |-> nextRun.reset]
  /\ Goes(r, IF r \in Waits(r) THEN "wait" ELSE "submitted")
  /\ UNCHANGED <<args, addrMu, PoolLists, chainNonce, curRun, heads, accepted, merged>>

\* A block with executable transactions; the pool is told and asks for a reset.
NewHead ==
  /\ heads < MaxHeads /\ heads' = heads + 1
  /\ \E n \in [SigKeys -> 0..Cardinality(Requests)] :
       /\ \A a \in SigKeys : n[a] >= chainNonce[a] /\ \A k \in chainNonce[a]..(n[a] - 1) : \E t \in pend[a] : t.nonce = k
       /\ chainNonce' = n
  /\ nextRun' = [dirty |-> nextRun.dirty, waits |-> nextRun.waits, reset |-> TRUE]
  /\ UNCHANGED <<args, rpc, addrMu, PoolLists, curRun, accepted, merged>>

\* scheduleReorgLoop launches one run at a time.
LaunchRun ==
  /\ curRun = None /\ nextRun # NoRun
  /\ curRun' = [dirty |-> nextRun.dirty, waits |-> nextRun.waits, reset |-> nextRun.reset, ran |-> FALSE]
  /\ nextRun' = NoRun
  /\ merged' = (merged \/ (nextRun.reset /\ nextRun.waits # {}))
  /\ UNCHANGED <<args, rpc, addrMu, PoolLists, chainNonce, heads, accepted>>

Nonces(list) == {t.nonce : t \in list}

\* txSortedMap.Ready: the unbroken run from the lowest nonce, if that is not above start.
ReadyTxs(list, start) ==
  IF list = {} \/ Min(Nonces(list)) > start THEN {}
  ELSE {t \in list : Min(Nonces(list))..t.nonce \subseteq Nonces(list)}

\* promoteExecutables for one account whose state has the nonce head and whose virtual
\* nonce is start: too old ones and those with gas above currentMaxGas, which is never
\* set, are dropped, and the ready ones go to pending.
promoteExecutables(a, head, start) ==
  LET live == {t \in que[a] : t.nonce >= head /\ t.gas <= 0}
      ready == ReadyTxs(live, start)
  IN  [que |-> live \ ready,
       pend |-> {u \in pend[a] : \A t \in ready : t.nonce = u.nonce => ~Pricier(u, t)}
                \cup {t \in ready : Inserted(pend[a], t)},
       nonce |-> IF ready = {} THEN start ELSE Max(Nonces(ready)) + 1]

\* demoteUnexecutables for one account: without the transaction that is next, all go back.
demoteUnexecutables(p, head) ==
  LET live == {t \in p.pend : t.nonce >= head /\ t.gas <= 0}
  IN  IF live # {} /\ head \notin Nonces(live)
      THEN [pend |-> {}, que |-> {u \in p.que : \A t \in live : t.nonce # u.nonce} \cup live, nonce |-> p.nonce]
      ELSE [pend |-> live, que |-> p.que, nonce |-> p.nonce]

\* newTxNoncer: after a reset the virtual nonce is the one of the state.
NoncerGet(a) == IF curRun.reset THEN chainNonce[a] ELSE pendNonce[a]

HeadNonce(a) == IF curRun.reset THEN chainNonce[a] ELSE headNonce[a]

\* What a run makes of an account: a reset looks at all, another run at the dirty ones.
Reorganized(a) ==
  IF curRun.reset THEN demoteUnexecutables(promoteExecutables(a, HeadNonce(a), NoncerGet(a)), HeadNonce(a))
  ELSE IF a \in curRun.dirty THEN promoteExecutables(a, HeadNonce(a), NoncerGet(a))
  ELSE [que |-> que[a], pend |-> pend[a], nonce |-> NoncerGet(a)]

\* runReorg with the pool locked.
runReorg ==
  /\ curRun # None /\ ~curRun.ran
  /\ headNonce' = [a \in SigKeys |-> HeadNonce(a)]
  /\ pend' = [a \in SigKeys |-> Reorganized(a).pend]
  /\ que' = [a \in SigKeys |-> Reorganized(a).que]
  /\ pendNonce' = [a \in SigKeys |-> IF Reorganized(a).pend = {} THEN Reorganized(a).nonce
                                     ELSE Max(Nonces(Reorganized(a).pend)) + 1]
  /\ curRun' = [curRun EXCEPT !.ran = TRUE]
  /\ UNCHANGED <<args, rpc, addrMu, chainNonce, nextRun, heads, accepted, merged>>

\* The run closes its channel, and the calls that wait go on.
RunDone ==
  /\ curRun # None /\ curRun.ran
  /\ rpc' = [r \in Requests |-> IF r \in curRun.waits /\ At(r, "wait") THEN [rpc[r] EXCEPT !.pc = "submitted"] ELSE rpc[r]]
  /\ curRun' = None
  /\ UNCHANGED <<args, addrMu, PoolLists, chainNonce, nextRun, heads, accepted, merged>>

\* Mutant: the sender of every transaction is recovered.
SubmitTransaction_All(r) ==
  /\ At(r, "submitted")
  /\ Answer(r, rpc[r].err \/ SignerSender(MakeSigner, Signed(r)) = None)
  /\ UNCHANGED <<args, PoolLists, PoolRuns, accepted>>

\* The rest of SubmitTransaction: the sender of a contract creation is recovered with
\* the signer of MakeSigner, and an error of that is returned.
SubmitTransaction(r) ==
  /\ At(r, "submitted")
  /\ Answer(r, rpc[r].err \/ (~args[r].to /\ SignerSender(MakeSigner, Signed(r)) = None))
  /\ UNCHANGED <<args, PoolLists, PoolRuns, accepted>>

APIInit ==
  /\ args \in RequestArgs
  /\ rpc = [r \in Requests |-> [pc |-> "find", tx |-> None, err |-> FALSE]]
  /\ addrMu = [a \in SigKeys |-> None]
  /\ pend = [a \in SigKeys |-> {}] /\ que = [a \in SigKeys |-> {}]
  /\ headNonce = [a \in SigKeys |-> 0] /\ pendNonce = headNonce /\ chainNonce = headNonce
  /\ nextRun = NoRun /\ curRun = None /\ heads = 0 /\ accepted = {} /\ merged = FALSE

RequestNext(r) ==
  \/ FindWallet(r) \/ LockAddr(r) \/ setDefaults(r) \/ SignRequest(r) \/ Filtered(r)
  \/ addTxsLocked(r) \/ requestPromote(r) \/ SubmitTransaction(r)

ReorgNext == LaunchRun \/ runReorg \/ RunDone

APINext == (\E r \in Requests : RequestNext(r)) \/ ReorgNext \/ NewHead

\* Every call goes on and the loop of the pool runs; sync.Mutex starves nobody.
APIFairness == (\A r \in Requests : WF_apiVars(RequestNext(r))) /\ WF_apiVars(ReorgNext)

APISpec == APIInit /\ [][APINext]_apiVars /\ APIFairness

------------------------------------------------------------------------------
(* Properties. *)

\* One transaction per nonce in a list, the virtual nonce follows the pending ones, and
\* the mutex of an address belongs to a call for it.
APITypeOK ==
  /\ \A a \in SigKeys : \A t, u \in pend[a] \cup que[a] : t # u => t.nonce # u.nonce
  /\ \A a \in SigKeys : pend[a] # {} => pendNonce[a] = Max(Nonces(pend[a])) + 1
  /\ \A a \in SigKeys : addrMu[a] # None => args[addrMu[a]].from = a /\ rpc[addrMu[a]].pc \notin {"find", "lock"}

Automatic(r) == args[r].nonce = None /\ args[r].gas = None

ByHand(a) == {r \in accepted : args[r].from = a /\ args[r].nonce # None}
Limited(a) == {r \in accepted : args[r].from = a /\ args[r].gas \notin {None, 0}}

\* A nonce that was given by hand as well, or any with which a transaction with a gas limit can
\* take the place of another in the pool, and be dropped there.
Disturbed(a, n) == \/ \E r \in ByHand(a) : args[r].nonce = n
                   \/ ByHand(a) # {} /\ Limited(a) # {}

\* Two calls that leave the nonce to the node never get the same one for transactions
\* that the pool takes, unless nonces given by hand get in the way.  The other exception is a
\* promotion that was merged with a reset.
NoncesDiffer ==
  merged \/ \A r, q \in accepted :
    r # q /\ Automatic(r) /\ Automatic(q) /\ args[r].from = args[q].from /\ rpc[r].tx.nonce = rpc[q].tx.nonce
      => Disturbed(args[r].from, rpc[r].tx.nonce)

\* A transfer that the pool took is answered with its hash, and nothing else is.
TransferAnswered ==
  \A r \in Requests : At(r, "done") /\ args[r].to => (r \in accepted <=> ~rpc[r].err)

\* Every call of SendTransaction that has begun returns: no error path keeps the address
\* locked.
RequestsReturn == \A r \in Requests : ~At(r, "find") ~> At(r, "done")

\* A call of SendTransaction gets a nonce of its own and the answer the pool gave.
NoncesConsistent == APITypeOK /\ NoncesDiffer /\ TransferAnswered
=============================================================================
