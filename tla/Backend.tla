------------------------------ MODULE Backend -------------------------------
(***************************************************************************)
(* The Benzene service (bnz/backend.go): the transaction pools of several  *)
(* shards and the journal file that they are given, the transactions that  *)
(* come from the SDK and from the network (bnz/handler.go), the collection *)
(* of shard chains (core/shardchains.go), and a query of the API backend   *)
(* (bnz/api_backend.go) while the chain changes.                           *)
(*                                                                         *)
(* A pool is the set of its transactions; TxPool has what happens inside.  *)
(***************************************************************************)
EXTENDS Integers, Absent

CONSTANTS ShardTxs,              \* records [id, shard, to]
          NumTryBroadCast,
          MaxBoots, MaxQueries   \* bounds

TwoBlocks == {"a", "b"}
QueryRecord == [kind : {"header", "block", "state"}, hash : TwoBlocks, required : BOOLEAN,
                pc : {"canonical", "read", "answer", "error"}, saw : SUBSET (TwoBlocks \cup {None})]

ASSUME BackAssumption ==
  /\ ShardTxs \subseteq [id : Nat, shard : Nat, to : Nat]
  /\ NumTryBroadCast \in Nat
  /\ None \notin Nat \cup {"file", "replaced"} \cup TwoBlocks /\ None \notin QueryRecord

VARIABLES shards,    \* config.ShardID
          mode,      \* "down", "starting", "up", "stopping"
          pools,     \* shard -> the transactions of its pool
          journal,   \* the transactions in the journal file
          writer,    \* shard -> "file", "replaced" (the file it has open was replaced) or None
          accepted,  \* tx -> how often AddPendingTransaction took it
          included,  \* the transactions that are in a block
          sending,   \* tx -> attempts of tryBroadcast so far, or None
          published, \* tx -> how often it was published
          chains,    \* CollectionImpl.pool: shards with an open chain
          closing,   \* Close: the chains that it has still to stop
          dbs,       \* open databases
          boots, reopened,    \* history: a chain was asked for during or after Close
          canon, known,   \* one height of a chain: the canonical block, the blocks with header and body
          query,     \* a call by hash: [kind, hash, required, pc, saw], or None
          queries

backVars == <<shards, mode, pools, journal, writer, accepted, included, sending, published, chains, closing, dbs,
              boots, reopened, canon, known, query, queries>>
Pool == <<pools, journal, writer, accepted, included>>
Sends == <<sending, published>>
Chains == <<chains, closing, dbs, reopened>>
Queries == <<canon, known, query, queries>>

Shards == {t.shard : t \in ShardTxs}

BackInit ==
  /\ shards \in {s \in SUBSET Shards : s # {}}
  /\ mode = "down" /\ pools = [s \in Shards |-> {}] /\ journal = {}
  /\ writer = [s \in Shards |-> None] /\ accepted = [t \in ShardTxs |-> 0] /\ included = {}
  /\ sending = [t \in ShardTxs |-> None] /\ published = [t \in ShardTxs |-> 0]
  /\ chains = {} /\ closing = {} /\ dbs = {} /\ boots = 0 /\ reopened = FALSE
  /\ canon = None /\ known = {} /\ query = None /\ queries = 0

------------------------------------------------------------------------------
(* New and Stop. *)

\* OpenDatabase and SetupGenesisBlock of every shard, and an empty collection.
Start ==
  /\ mode = "down" /\ boots < MaxBoots /\ boots' = boots + 1
  /\ mode' = "starting" /\ dbs' = shards /\ chains' = {} /\ closing' = {}
  /\ pools' = [s \in Shards |-> {}] /\ writer' = [s \in Shards |-> None]
  /\ UNCHANGED <<shards, journal, accepted, included, Sends, reopened, Queries>>

\* Mutant: the journal is written before it is read.
Loaded_Nothing(s) == {{}}

\* load: AddLocals takes its own transactions unless their nonce is used; those of another
\* shard are checked against this shard's state and may be taken or not.
Loaded(s) == {own \cup other : own \in {{t \in journal \ included : t.shard = s}},
                               other \in SUBSET {t \in journal : t.shard # s}}

\* Mutant: the file is emptied in place, so that all writers go on with it.
FileRotated_InPlace(s, txs) == journal' = txs /\ writer' = [writer EXCEPT ![s] = "file"]

\* rotate replaces the file; another pool goes on writing to the file that is gone.
FileRotated(s, txs) ==
  /\ journal' = txs
  /\ writer' = [z \in Shards |-> IF z = s THEN "file" ELSE IF writer[z] = None THEN None ELSE "replaced"]

\* NewTxPool, for one shard after the other, all with the same journal path; the chain it is
\* given is opened by ShardChain.
NewShardPool(s) ==
  /\ mode = "starting" /\ s \in shards /\ writer[s] = None
  /\ \A z \in shards : z < s => writer[z] # None
  /\ \E txs \in Loaded(s) : pools' = [pools EXCEPT ![s] = txs] /\ FileRotated(s, txs)
  /\ mode' = IF \A z \in shards \ {s} : writer[z] # None THEN "up" ELSE mode
  /\ chains' = chains \cup {s}
  /\ UNCHANGED <<shards, accepted, included, Sends, closing, dbs, reopened, boots, Queries>>

\* The journal is rotated every hour.
Rotate(s) ==
  /\ mode = "up" /\ s \in shards
  /\ FileRotated(s, pools[s])
  /\ UNCHANGED <<shards, mode, pools, accepted, included, Sends, Chains, boots, Queries>>

Crash ==
  /\ mode # "down" /\ mode' = "down"
  /\ pools' = [s \in Shards |-> {}] /\ writer' = [s \in Shards |-> None]
  /\ chains' = {} /\ closing' = {} /\ dbs' = {} /\ sending' = [t \in ShardTxs |-> None]
  /\ UNCHANGED <<shards, journal, accepted, included, published, boots, reopened, Queries>>

\* Stop: the pools end, then Close swaps the collection's pool under the lock.
StopBackend ==
  /\ mode = "up" /\ mode' = "stopping"
  /\ writer' = [s \in Shards |-> None]
  /\ closing' = chains /\ chains' = {}
  /\ UNCHANGED <<shards, pools, journal, accepted, included, Sends, dbs, boots, reopened, Queries>>

\* Mutant: the chain is stopped, its database stays open.
CloseOne_KeepsDb(s) == dbs

\* bc.Stop and bc.ChainDb().Close.
CloseOne(s) == dbs \ {s}

CloseChain ==
  /\ mode = "stopping"
  /\ \E s \in closing : closing' = closing \ {s} /\ dbs' = CloseOne(s)
  /\ UNCHANGED <<shards, mode, Pool, Sends, chains, boots, reopened, Queries>>

\* ShardChain opens a chain as necessary; on a closed database that fails.
ShardChain(s) ==
  /\ mode \in {"up", "stopping"} /\ s \in dbs \ chains
  /\ chains' = chains \cup {s} /\ reopened' = (reopened \/ mode = "stopping")
  /\ UNCHANGED <<shards, mode, Pool, Sends, closing, dbs, boots, Queries>>

\* CloseShardChain.
CloseShardChain(s) ==
  /\ mode = "up" /\ s \in chains
  /\ chains' = chains \ {s} /\ dbs' = CloseOne(s)
  /\ UNCHANGED <<shards, mode, Pool, Sends, closing, boots, reopened, Queries>>

------------------------------------------------------------------------------
(* Transactions. *)

\* addPendingTransactions: the pool that gets the transaction.
Routed(t) == t.shard

\* Mutant: cross-shard transactions are let through.
Admissible_Cross(t) == t.shard \in shards \/ t.to \in shards

\* Cross-shard transactions and those of other shards are not taken.
Admissible(t) == t.shard = t.to /\ t.shard \in shards

\* AddLocals takes a transaction that is new, and journals it.
ShardAddLocals(t) ==
  /\ t \notin pools[Routed(t)] \cup included
  /\ pools' = [pools EXCEPT ![Routed(t)] = @ \cup {t}]
  /\ journal' = IF writer[Routed(t)] = "file" THEN journal \cup {t} ELSE journal
  /\ UNCHANGED writer

\* AddPendingTransaction, from the SDK; an accepted transaction is broadcast.
AddPendingTransaction(t) ==
  /\ mode = "up" /\ Admissible(t) /\ sending[t] = None
  /\ ShardAddLocals(t) /\ accepted' = [accepted EXCEPT ![t] = @ + 1]
  /\ sending' = [sending EXCEPT ![t] = 0]
  /\ UNCHANGED <<shards, mode, included, published, Chains, boots, Queries>>

\* transactionMessageHandler, from the network: the same without a broadcast.
TransactionMessage(t) ==
  /\ mode = "up" /\ Admissible(t) /\ ShardAddLocals(t)
  /\ UNCHANGED <<shards, mode, accepted, included, Sends, Chains, boots, Queries>>

\* Mutant: the attempts go on after a success.
Sent_GoesOn(t) == IF sending[t] + 1 < NumTryBroadCast THEN sending[t] + 1 ELSE None

\* A success ends tryBroadcast.
Sent(t) == None

\* SendMessageToGroups: the topic is joined unless it was before, and the message published;
\* either may fail.
SendMessageToGroups == {"published", "error"}

\* tryBroadcast: one attempt.
Broadcast(t) ==
  /\ sending[t] # None
  /\ \E result \in SendMessageToGroups :
     \/ /\ result = "published" /\ sending' = [sending EXCEPT ![t] = Sent(t)]
        /\ published' = [published EXCEPT ![t] = @ + 1]
     \/ /\ result = "error"
        /\ sending' = [sending EXCEPT ![t] = IF @ + 1 < NumTryBroadCast THEN @ + 1 ELSE None]
        /\ UNCHANGED published
  /\ UNCHANGED <<shards, mode, Pool, Chains, boots, Queries>>

\* A block includes the transaction; the pool drops it.
Include(t) ==
  /\ mode = "up" /\ t \in pools[t.shard] /\ included' = included \cup {t}
  /\ pools' = [pools EXCEPT ![t.shard] = @ \ {t}]
  /\ UNCHANGED <<shards, mode, journal, writer, accepted, Sends, Chains, boots, Queries>>

------------------------------------------------------------------------------
(* The API's queries by hash: header, canonical hash and body are read one after the other, *)
(* while blocks are inserted and SetHead deletes them.                                      *)

Insert ==
  /\ \E b \in TwoBlocks \ {canon} : canon' = b /\ known' = known \cup {b}
  /\ query' = IF query = None THEN None ELSE [query EXCEPT !.saw = @ \cup {canon'}]
  /\ UNCHANGED <<shards, mode, Pool, Sends, Chains, boots, queries>>

SetHead ==
  /\ canon # None /\ canon' = None /\ known' = known \ {canon}
  /\ UNCHANGED <<shards, mode, Pool, Sends, Chains, boots, query, queries>>

\* HeaderByNumberOrHash, BlockByNumberOrHash and StateAndHeaderByNumberOrHash begin with
\* the header.
Query ==
  /\ query = None /\ queries < MaxQueries /\ queries' = queries + 1
  /\ \E b \in TwoBlocks, kind \in {"header", "block", "state"}, required \in BOOLEAN :
       query' = [kind |-> kind, hash |-> b, required |-> required, saw |-> {canon},
                 pc |-> IF b \in known THEN "canonical" ELSE "error"]
  /\ UNCHANGED <<shards, mode, Pool, Sends, Chains, boots, canon, known>>

\* Mutant: any canonical block will do.
IsCanonical_Any(b) == canon # None

IsCanonical(b) == canon = b

\* RequireCanonical; a header is returned after it.
CheckCanonical ==
  /\ query # None /\ query.pc = "canonical"
  /\ query' = [query EXCEPT !.pc = IF query.required /\ ~IsCanonical(query.hash) THEN "error"
                                   ELSE IF query.kind = "header" THEN "answer" ELSE "read"]
  /\ UNCHANGED <<shards, mode, Pool, Sends, Chains, boots, canon, known, queries>>

\* GetBlock, which may find nothing any more, or StateAt, whose trie may have been pruned.
ReadRest ==
  /\ query # None /\ query.pc = "read"
  /\ \E found \in IF query.kind = "block" THEN {query.hash \in known} ELSE BOOLEAN :
       query' = [query EXCEPT !.pc = IF found THEN "answer" ELSE "error"]
  /\ UNCHANGED <<shards, mode, Pool, Sends, Chains, boots, canon, known, queries>>

Answered ==
  /\ query # None /\ query.pc \in {"answer", "error"} /\ query' = None
  /\ UNCHANGED <<shards, mode, Pool, Sends, Chains, boots, canon, known, queries>>

------------------------------------------------------------------------------

PoolStep ==
  \/ Start \/ Crash \/ StopBackend \/ CloseChain
  \/ \E s \in Shards : NewShardPool(s) \/ Rotate(s) \/ ShardChain(s) \/ CloseShardChain(s)
  \/ \E t \in ShardTxs : AddPendingTransaction(t) \/ TransactionMessage(t) \/ Broadcast(t) \/ Include(t)

QueryStep == Insert \/ SetHead \/ Query \/ CheckCanonical \/ ReadRest \/ Answered

\* The API's chain is a machine of its own.
BackNext == \/ queries = 0 /\ PoolStep
            \/ boots = 0 /\ QueryStep

BackSpec == BackInit /\ [][BackNext]_backVars

------------------------------------------------------------------------------
(* Properties. *)

\* The shape of the state; only a running node has chains, pools and open databases.
BackTypeOK ==
  /\ mode \in {"down", "starting", "up", "stopping"} /\ journal \subseteq ShardTxs
  /\ \A s \in Shards : pools[s] \subseteq ShardTxs /\ writer[s] \in {None, "file", "replaced"}
  /\ chains \subseteq shards /\ closing \subseteq shards /\ dbs \subseteq shards
  /\ mode = "down" => chains = {} /\ dbs = {}
  /\ \A s, z \in Shards : writer[s] = "file" /\ writer[z] = "file" => s = z

OneShard == \E s \in Shards : shards = {s}

\* A pool holds only transactions of its own shard, in the first run of a node.  (The next one
\* reads the journal of all shards into every pool.)
PoolOfShard == boots <= 1 => \A s \in Shards : \A t \in pools[s] : t.shard = s /\ t.to = s

Kept(t) == t \in included \/ t \in journal \/ (mode = "up" /\ t \in pools[t.shard])

\* With one shard, a transaction that AddPendingTransaction accepted stays in the pool or in
\* the journal until a block includes it, through crashes, restarts and rotations.
LocalsSurvive == OneShard => \A t \in ShardTxs : accepted[t] > 0 => Kept(t)

\* A transaction is published at most once for each time that it is accepted: with one shard
\* only once, since after a restart it is known from the journal.
SentOnce ==
  \A t \in ShardTxs : /\ published[t] <= accepted[t]
                      /\ OneShard => published[t] <= 1

\* Once the service is up, the open databases are those of the chains in the collection and of
\* those that Close is about to stop, unless somebody asks for a chain between the two, which
\* opens a second one.
DatabasesMatchChains == ~reopened /\ mode # "starting" => dbs = chains \cup closing

\* What a query with RequireCanonical returns was canonical at some time during the call.
ReturnedWasCanonical ==
  query # None /\ query.pc = "answer" /\ query.required => query.hash \in query.saw

\* Pools, journal, broadcasts, databases and answers belong to the shard and the chain
\* they were asked for, through crashes and restarts.
BackendConsistent ==
  /\ BackTypeOK
  /\ PoolOfShard /\ LocalsSurvive /\ SentOnce
  /\ DatabasesMatchChains
  /\ ReturnedWasCanonical
=============================================================================
