----------------------------- MODULE BlockChain -----------------------------
(***************************************************************************)
(* core/blockchain.go, core/headerchain.go and the database accessors of   *)
(* core/rawdb they use: import of blocks and headers, rewinding, start-up, *)
(* stopping, and a crash between any two writes to the database.           *)
(*                                                                         *)
(* c is the chain: what is on disk (hdr .. cfg) and the markers held in    *)
(* memory (cur, curHeader, curFast).  chainmu serialises the operations    *)
(* that change it, so an operation is the list of the successive images of *)
(* c that it leaves behind, one for each batch that reaches the disk and   *)
(* for each change of the memory; todo is what is left of that list.       *)
(*                                                                         *)
(* The state processor is a stub: it leaves the state of the parent as it  *)
(* is, so the only state in the database is the one of the genesis block,  *)
(* and a block "has state" if it states the same root.                     *)
(***************************************************************************)
EXTENDS Integers, Sequences, FiniteSets, SequencesExt, Absent

CONSTANTS
  Blocks, Genesis,
  Parent,      \* of every block but Genesis
  Number,      \* height
  Root,        \* state root in the header
  Delay,       \* how far the timestamp is ahead: 0, 1 (future) or 2 (too far)
  Txs, TxsOf,  \* transactions, and those of each block
  Modes,       \* "shipped": the repository's engine, which answers nil; "strict": one
               \* that answers as engine/errors.go describes; "light": headers only
  Fresh,       \* start from an empty database
  MaxChain,    \* bound: blocks in one call
  MaxDown      \* bound: crashes and stops

Heights == {Number[b] : b \in Blocks}
MaxHeight == CHOOSE n \in Heights : \A k \in Heights : k <= n

ASSUME BlockAssumption ==
  /\ Genesis \in Blocks /\ None \notin Blocks /\ Number[Genesis] = 0
  /\ \A b \in Blocks \ {Genesis} : Parent[b] \in Blocks /\ Number[b] = Number[Parent[b]] + 1

VARIABLES
  c, todo,
  job,        \* the operation that holds chainmu
  up,         \* "down", "starting" or "running"
  interrupt,  \* procInterrupt
  future,     \* futureBlocks
  futq,       \* what procFutureBlocks still has to insert
  mode, now, downs,
  torn        \* history: a rewind did not delete what lies above its target

vars == <<c, todo, job, up, interrupt, future, futq, mode, now, downs, torn>>

\* The blocks from the genesis block to b.
Path[b \in Blocks] == IF b = Genesis THEN <<b>> ELSE Append(Path[Parent[b]], b)

Ancestor(b, n) == Path[b][n + 1]

Chains == {SubSeq(Path[b], i, Len(Path[b])) : b \in Blocks, i \in 2..MaxHeight + 1} \ {<<>>}

------------------------------------------------------------------------------
(* Accessors of core/rawdb and the reads of the two chains. *)

GetHeader(d, b) == IF b \in d.hdr THEN b ELSE None

GetBlock(d, b) == IF b \in d.hdr \cap d.body THEN b ELSE None

GetBlockByNumber(d, n) == IF d.canon[n] = None THEN None ELSE GetBlock(d, d.canon[n])

HasState(b) == Root[b] = Root[Genesis]

WriteHeaderRaw(d, b) == [d EXCEPT !.hdr = @ \cup {b}]

WriteBlock(d, b) == [d EXCEPT !.body = @ \cup {b}, !.hdr = @ \cup {b}]

WriteTxLookupEntriesByBlock(d, b) ==
  [d EXCEPT !.lookup = [t \in Txs |-> IF t \in TxsOf[b] THEN Number[b] ELSE @[t]]]

\* Canonical numbers from n on, up to the first that is not assigned.
AssignedFrom(d, n) ==
  {k \in Heights : k >= n /\ \A i \in n..k : d.canon[i] # None}

DeleteCanonicalHashes(d, ns) ==
  [d EXCEPT !.canon = [n \in Heights |-> IF n \in ns THEN None ELSE @[n]]]

ReadTransaction(d, t) ==
  LET b == IF d.lookup[t] = None THEN None ELSE d.canon[d.lookup[t]]
  IN  IF b # None /\ b \in d.body /\ t \in TxsOf[b] THEN b ELSE None

Empty == [hdr |-> {}, body |-> {}, canon |-> [n \in Heights |-> None],
          headBlock |-> None, headHeader |-> None, headFast |-> None,
          lookup |-> [t \in Txs |-> None], cfg |-> FALSE,
          cur |-> None, curHeader |-> None, curFast |-> None]

\* What a crash leaves.
Disk(d) == [d EXCEPT !.cur = None, !.curHeader = None, !.curFast = None]

\* The images of operation Op after those of imgs, which start from d.
Then(d, imgs, Op(_)) == imgs \o Op(Last(<<d>> \o imgs))

------------------------------------------------------------------------------
(* Writing blocks. *)

\* Mutant: the fast block's marker is kept in memory only.
writeHeadBlock_NoFast(d, b) ==
  LET w == [WriteTxLookupEntriesByBlock(d, b) EXCEPT
              !.canon[Number[b]] = b, !.headBlock = b, !.headHeader = b]
  IN  <<w, [w EXCEPT !.cur = b, !.curHeader = b, !.curFast = b]>>

\* Mutant: no lookup entries.
writeHeadBlock_NoLookup(d, b) ==
  LET w == [d EXCEPT !.canon[Number[b]] = b, !.headBlock = b,
                     !.headHeader = b, !.headFast = b]
  IN  <<w, [w EXCEPT !.cur = b, !.curHeader = b, !.curFast = b]>>

\* One batch, then the markers in memory.  The header and fast markers move only
\* if the block was not canonical.
writeHeadBlock(d, b) ==
  LET updateHeads == d.canon[Number[b]] # b
      w == [WriteTxLookupEntriesByBlock(d, b) EXCEPT
              !.canon[Number[b]] = b,
              !.headBlock = b,
              !.headHeader = IF updateHeads THEN b ELSE @,
              !.headFast = IF updateHeads THEN b ELSE @]
  IN  <<w, [w EXCEPT !.cur = b,
                     !.curHeader = IF updateHeads THEN b ELSE @,
                     !.curFast = IF updateHeads THEN b ELSE @]>>

\* Mutant: a block may be a child of any stored block.
writeBlockWithState_AnyHead(d, b) ==
  LET w == WriteBlock(d, b) IN <<w>> \o writeHeadBlock(w, b)

\* The number of a block is its parent's plus one, so the block always becomes
\* the head once its parent is.
writeBlockWithState(d, b) ==
  IF Parent[b] # d.cur THEN <<>>
  ELSE LET w == WriteBlock(d, b) IN <<w>> \o writeHeadBlock(w, b)

writeBlockWithoutState(d, b) == <<WriteBlock(d, b)>>

Stored(d, bs) == \A i \in DOMAIN bs : bs[i] \in d.hdr \cap d.body

\* Mutant: the new chain is taken from the wrong end: its first block is left out.
reorg_SkipsFirst(d, new) ==
  FoldLeft(LAMBDA imgs, b : Then(d, imgs, LAMBDA x : writeHeadBlock(x, b)),
           <<>>, SubSeq(Path[new], Number[d.cur] + 3, Number[new]))

\* From the current block to new, except for the last writeHeadBlock: the blocks
\* from the common ancestor up, the entries of dropped transactions, and the
\* canonical numbers above the block that is then the head.
reorg(d, new) ==
  LET old == d.cur
      common == CHOOSE n \in Heights :
                  /\ n <= Number[old] /\ n <= Number[new]
                  /\ Ancestor(old, n) = Ancestor(new, n)
                  /\ n < Number[old] /\ n < Number[new]
                       => Ancestor(old, n + 1) # Ancestor(new, n + 1)
      oldChain == SubSeq(Path[old], common + 2, Number[old] + 1)
      newChain == SubSeq(Path[new], common + 2, Number[new] + 1)
      added == UNION {TxsOf[b] : b \in ToSet(newChain) \ {new}}
      dropped == UNION {TxsOf[b] : b \in ToSet(oldChain)} \ added
      Indexes(x) ==
        <<[DeleteCanonicalHashes(x, AssignedFrom(x, Number[x.cur] + 1)) EXCEPT
             !.lookup = [t \in Txs |-> IF t \in dropped THEN None ELSE @[t]]]>>
  IN  Then(d, FoldLeft(LAMBDA imgs, b : Then(d, imgs, LAMBDA x : writeHeadBlock(x, b)),
                       <<>>, SelectSeq(newChain, LAMBDA b : b # new)),
           Indexes)

writeKnownBlock(d, b) ==
  IF Parent[b] = d.cur THEN writeHeadBlock(d, b)
  ELSE IF ~Stored(d, Path[b]) \/ ~Stored(d, Path[d.cur]) THEN <<>>
  ELSE Then(d, reorg(d, b), LAMBDA x : writeHeadBlock(x, b))

------------------------------------------------------------------------------
(* Rewinding and loading. *)

\* SetHeadBeyondRoot's updateFn for header h: the full block goes to the highest
\* block with state from h down, the fast block to h.  The memory first.
updateFn(d, h) ==
  LET found == GetBlock(d, h) # None
      withState == {n \in 0..Number[h] : HasState(Ancestor(h, n))}
      full == IF found THEN Ancestor(h, CHOOSE n \in withState : \A k \in withState : k <= n)
              ELSE Genesis
      fast == IF found THEN h ELSE Genesis
      moveFull == Number[h] <= Number[d.cur]
      moveFast == Number[h] < Number[d.curFast]
      mem == [d EXCEPT !.cur = IF moveFull THEN full ELSE @,
                       !.curFast = IF moveFast THEN fast ELSE @]
  IN  <<mem, [mem EXCEPT !.headBlock = IF moveFull THEN full ELSE @,
                         !.headFast = IF moveFast THEN fast ELSE @]>>

\* Mutant: bodies are left behind.
DeleteHeights_KeepsBodies(d, ns) ==
  [DeleteCanonicalHashes(d, ns) EXCEPT !.hdr = {b \in @ : Number[b] \notin ns}]

\* Deletion of everything stored at heights ns, one batch.
DeleteHeights(d, ns) ==
  LET gone == {b \in d.hdr : Number[b] \in ns}
  IN  [DeleteCanonicalHashes(d, ns) EXCEPT !.hdr = @ \ gone, !.body = @ \ gone]

\* Mutant: the data is deleted before the markers are moved.
HeaderChainSetHead_DeletesFirst(d, head) ==
  LET ns == {n \in Heights : n > head}
      low(x) == Ancestor(x, IF Number[x] > head THEN head ELSE Number[x])
      del == DeleteHeights(d, ns)
  IN  <<del, [del EXCEPT !.headHeader = low(@), !.headBlock = low(@), !.headFast = low(@),
                         !.curHeader = low(@), !.cur = low(@), !.curFast = low(@)]>>

\* Mutant: only the canonical blocks are deleted.
HeaderChainSetHead_KeepsAbove(d, head) ==
  LET Down(imgs, n) ==
        LET x == Last(<<d>> \o imgs)
            u == updateFn(x, Parent[x.curHeader])
        IN  imgs \o <<u[1], [u[2] EXCEPT !.headHeader = Parent[x.curHeader],
                                         !.curHeader = Parent[x.curHeader]]>>
  IN  FoldLeft(Down, <<>>, [i \in 1..Number[d.curHeader] - head |-> Number[d.curHeader] + 1 - i])

\* headerchain.go's SetHead: one header down at a time, the markers of each step
\* in one batch; the deletions of all steps, and of what lies above the first
\* one, are flushed at the end.
HeaderChainSetHead(d, head) ==
  LET top == Number[d.curHeader]
      missing == {n \in head..top - 1 : GetHeader(d, Ancestor(d.curHeader, n)) = None}
      low == IF missing = {} THEN head ELSE CHOOSE n \in missing : \A k \in missing : k <= n
      Down(imgs, n) ==
        LET x == Last(<<d>> \o imgs)
            parentHash == Ancestor(d.curHeader, n - 1)
            parent == IF GetHeader(x, parentHash) = None THEN Genesis ELSE parentHash
            u == updateFn(x, parent)
        IN  imgs \o <<u[1], [u[2] EXCEPT !.headHeader = parentHash, !.curHeader = parent]>>
      above == {n \in Heights : n > top /\ \A i \in top + 1..n :
                                  \E b \in d.hdr : Number[b] = i}
  IN  IF top <= head THEN <<>>
      ELSE Then(d, FoldLeft(Down, <<>>, [i \in 1..top - low |-> top + 1 - i]),
                LAMBDA x : <<DeleteHeights(x, above \cup low + 1..top)>>)

\* What loadLastState makes of a database whose head block is there.  Without one it
\* calls Reset (see NewBlockChain).
loadLastState(d) ==
  LET header == IF d.headHeader # None /\ d.headHeader \in d.hdr THEN d.headHeader
                ELSE d.headBlock
      fast == IF d.headFast # None /\ GetBlock(d, d.headFast) # None THEN d.headFast
              ELSE d.headBlock
  IN  <<[d EXCEPT !.cur = d.headBlock, !.curHeader = header, !.headHeader = header,
                  !.curFast = fast]>>

\* Mutant: stops one above the target.
SetHeadImages_OneMore(d, head) ==
  Then(d, IF Number[d.cur] = head THEN updateFn(d, d.cur) ELSE HeaderChainSetHead(d, head + 1),
       loadLastState)

\* SetHead and SetHeadBeyondRoot: the header chain is left alone if the current
\* block is already at that height.  The snapshot's root is the genesis root,
\* so asking to go beyond it does not change where the rewind ends.
SetHeadImages(d, head) ==
  LET u == Last(updateFn(d, d.cur))
      direct == <<[d EXCEPT !.headBlock = u.headBlock, !.cur = u.cur], u>>
  IN  Then(d, IF Number[d.cur] = head THEN direct ELSE HeaderChainSetHead(d, head),
           loadLastState)

ResetImages(d) ==
  Then(d, SetHeadImages(d, 0),
       LAMBDA x : LET w == WriteBlock(x, Genesis)
                      imgs == <<w>> \o writeHeadBlock(w, Genesis)
                  IN  Append(imgs, [Last(imgs) EXCEPT !.curHeader = Genesis,
                                                      !.curFast = Genesis]))

\* genesis.go: the writes of Commit reach the disk one by one.
GenesisCommit(d) ==
  LET w1 == [d EXCEPT !.body = @ \cup {Genesis}]
      w2 == WriteHeaderRaw(w1, Genesis)
      w3 == [w2 EXCEPT !.canon[0] = Genesis]
      w4 == [w3 EXCEPT !.headBlock = Genesis]
      w5 == [w4 EXCEPT !.headFast = Genesis]
      w6 == [w5 EXCEPT !.headHeader = Genesis]
  IN  <<w1, w2, w3, w4, w5, w6, [w6 EXCEPT !.cfg = TRUE]>>

\* With no genesis of the user's: commit the default one, or store its
\* configuration again.
SetupGenesisBlock(d) ==
  IF d.canon[0] = None THEN GenesisCommit(d) ELSE <<[d EXCEPT !.cfg = TRUE]>>

\* "missing block number for head header hash"
SetupFails(d) == d.canon[0] # None /\ d.cfg /\ (d.headHeader = None \/ d.headHeader \notin d.hdr)

\* Mutant: a head without state is not repaired but refused.
NewBlockChainFails_NoState(d) == d.headBlock = None \/ ~HasState(d.headBlock)

\* No head block: Reset calls SetHead, which reads the number of a nil block.
NewBlockChainFails(d) == d.headBlock = None \/ GetBlock(d, d.headBlock) = None

\* Mutant: the state of the head is not looked at.
NewBlockChain_NoRepair(d) == loadLastState(d)

\* The last state, repaired if the head block has no state.
NewBlockChain(d) ==
  Then(d, loadLastState(d),
       LAMBDA x : IF HasState(x.cur) THEN <<>> ELSE SetHeadImages(x, Number[x.cur]))

------------------------------------------------------------------------------
(* The operations. *)

NoJob == [kind |-> "none", rest |-> <<>>, first |-> FALSE, prev |-> None, head |-> 0]

Idle == up = "running" /\ job.kind = "none"

\* The database of a chain that was set up by an earlier start.
AtGenesis == Last(GenesisCommit(Empty))

Init ==
  /\ c = IF Fresh THEN Empty ELSE AtGenesis
  /\ todo = <<>> /\ job = NoJob /\ up = "down" /\ interrupt = FALSE
  /\ future = {} /\ futq = <<>> /\ now = 0 /\ downs = 0 /\ torn = FALSE
  /\ mode \in Modes

\* SetupGenesisBlock, then NewBlockChain.  If either fails the process ends.
Start ==
  /\ up = "down"
  /\ IF SetupFails(c) THEN UNCHANGED <<up, todo, job>>
     ELSE /\ up' = "starting"
          /\ todo' = SetupGenesisBlock(c)
          /\ job' = [NoJob EXCEPT !.kind = "setup"]
  /\ UNCHANGED <<c, interrupt, future, futq, mode, now, downs, torn>>

StartChain ==
  /\ job.kind = "setup" /\ todo = <<>>
  /\ IF NewBlockChainFails(c) THEN up' = "down" /\ job' = NoJob /\ UNCHANGED todo
     ELSE /\ todo' = NewBlockChain(c)
          /\ job' = [NoJob EXCEPT !.kind = "load"]
          /\ UNCHANGED up
  /\ UNCHANGED <<c, interrupt, future, futq, mode, now, downs, torn>>

\* The next image of the running operation.
Write ==
  /\ todo # <<>>
  /\ c' = Head(todo) /\ todo' = Tail(todo)
  /\ UNCHANGED <<job, up, interrupt, future, futq, mode, now, downs, torn>>

\* An operation whose images are all written returns.
Return ==
  /\ todo = <<>> /\ job.kind \in {"load", "setHead", "reset", "return"}
  /\ job' = NoJob
  /\ up' = IF job.kind = "load" THEN "running" ELSE up
  /\ future' = IF job.kind \in {"setHead", "reset"} THEN {} ELSE future
  /\ torn' = (torn \/ (job.kind = "reset" /\ c.headHeader # Genesis))
  /\ UNCHANGED <<c, todo, interrupt, futq, mode, now, downs>>

SetHead(n) ==
  /\ Idle
  /\ job' = [NoJob EXCEPT !.kind = "setHead", !.head = n]
  /\ todo' = SetHeadImages(c, n)
  /\ UNCHANGED <<c, up, interrupt, future, futq, mode, now, downs, torn>>

Reset ==
  /\ Idle
  /\ job' = [NoJob EXCEPT !.kind = "reset"]
  /\ todo' = ResetImages(c)
  /\ UNCHANGED <<c, up, interrupt, future, futq, mode, now, downs, torn>>

\* InsertChain, up to the lock.  A stopped chain takes nothing.
InsertChain(chain) ==
  /\ Idle /\ ~interrupt /\ mode # "light"
  /\ job' = [NoJob EXCEPT !.kind = "insert", !.rest = chain, !.first = TRUE]
  /\ UNCHANGED <<c, todo, up, interrupt, future, futq, mode, now, downs, torn>>

\* procFutureBlocks: the future blocks by number, each in a call of its own.
procFutureBlocks ==
  /\ up = "running" /\ futq = <<>> /\ future # {}
  /\ futq' = SetToSortSeq(future, LAMBDA x, y : Number[x] < Number[y])
  /\ UNCHANGED <<c, todo, job, up, interrupt, future, mode, now, downs, torn>>

InsertFuture ==
  /\ Idle /\ futq # <<>>
  /\ futq' = Tail(futq)
  /\ job' = IF interrupt THEN job
            ELSE [NoJob EXCEPT !.kind = "insert", !.rest = <<Head(futq)>>, !.first = TRUE]
  /\ UNCHANGED <<c, todo, up, interrupt, future, mode, now, downs, torn>>

\* The error the iterator returns for block b.
Verdict(b) ==
  IF mode = "shipped" THEN "nil"
  ELSE IF Delay[b] > now THEN "future"
  ELSE IF GetBlock(c, b) # None /\ HasState(b) THEN "known"
  ELSE IF GetBlock(c, Parent[b]) = None THEN "unknown"
  ELSE IF ~HasState(Parent[b]) THEN "pruned"
  ELSE "nil"

\* A block at most one unit ahead of now is kept for later.
addFutureBlock(b) == Delay[b] - now <= 1

\* The first of bs and those after it whose parent is unknown, up to the first
\* that is too far ahead.
Postponed(bs) ==
  {bs[i] : i \in {j \in 1..Len(bs) :
                    \A k \in 1..j : addFutureBlock(bs[k]) /\ (k > 1 => Verdict(bs[k]) = "unknown")}}

\* insertSideChain's first loop: the blocks of bs whose parents have no state.
Pruned(bs) ==
  LET ok == {j \in 1..Len(bs) :
               \A k \in 1..j : /\ ~HasState(Parent[bs[k]]) /\ Delay[bs[k]] <= now
                               /\ ~(GetBlock(c, bs[k]) # None /\ HasState(bs[k]))}
  IN  SubSeq(bs, 1, Cardinality(ok))

\* A side block that states the root of the canonical block of its height.
GhostState(b) ==
  /\ Number[c.cur] >= Number[b]
  /\ GetBlockByNumber(c, Number[b]) \notin {None, b}
  /\ Root[GetBlockByNumber(c, Number[b])] = Root[b]

insertSideChain(bs) ==
  LET side == Pruned(bs)
      ghost == {i \in 1..Len(side) : GhostState(side[i])}
      written == IF ghost = {} THEN side
                 ELSE SubSeq(side, 1, (CHOOSE i \in ghost : \A k \in ghost : i <= k) - 1)
      fresh == SelectSeq(written, LAMBDA b : b \notin c.body)
      tip == Last(side)
      states == {n \in 0..Number[tip] : HasState(Ancestor(tip, n))}
      base == CHOOSE n \in states : \A k \in states : k <= n
  IN  /\ todo' = FoldLeft(LAMBDA imgs, b : Then(c, imgs, LAMBDA x : writeBlockWithoutState(x, b)),
                          <<>>, fresh)
      /\ job' = IF ghost # {} \/ base = Number[tip] THEN [NoJob EXCEPT !.kind = "return"]
                ELSE [job EXCEPT !.rest = SubSeq(Path[tip], base + 2, Number[tip] + 1),
                                 !.prev = None]
      /\ UNCHANGED future

\* The body of insertChain's main loop for a block that verified.  A parent that
\* is not there is a nil pointer: the process dies.
insertBlock(b) ==
  LET parent == IF job.prev # None THEN job.prev ELSE GetHeader(c, Parent[b])
      imgs == writeBlockWithState(c, b)
  IN  IF parent = None /\ downs < MaxDown
      THEN job' = [NoJob EXCEPT !.kind = "panic"] /\ UNCHANGED <<todo, future>>
      ELSE IF parent = None \/ ~HasState(parent) \/ imgs = <<>>
      THEN job' = [NoJob EXCEPT !.kind = "return"] /\ UNCHANGED <<todo, future>>
      ELSE /\ todo' = imgs
           /\ job' = [job EXCEPT !.rest = Tail(@), !.first = FALSE, !.prev = b]
           /\ future' = future \ {b}

insertKnown(b) ==
  LET imgs == writeKnownBlock(c, b)
  IN  /\ todo' = imgs
      /\ job' = IF imgs = <<>> THEN [NoJob EXCEPT !.kind = "return"]
                ELSE [job EXCEPT !.rest = Tail(@), !.first = FALSE, !.prev = b]
      /\ UNCHANGED future

\* insertChain: the next block of the iterator.  Known blocks at the front are
\* skipped; then the first block decides between side chain, future blocks,
\* error and import.
InsertNext ==
  /\ job.kind = "insert" /\ todo = <<>> /\ job.rest # <<>>
  /\ LET b == Head(job.rest)
         v == Verdict(b)
         front == job.first /\ job.prev = None
         postpone == \/ v = "future" /\ (front \/ ~job.first)
                     \/ v = "unknown" /\ front /\ Parent[b] \in future
     IN  \/ /\ v = "known" /\ job.first
            /\ job' = [job EXCEPT !.rest = Tail(@), !.prev = b]
            /\ UNCHANGED <<todo, future>>
         \/ v = "pruned" /\ job.first /\ insertSideChain(job.rest)
         \/ /\ postpone
            /\ future' = future \cup Postponed(job.rest)
            /\ job' = [NoJob EXCEPT !.kind = "return"]
            /\ UNCHANGED todo
         \/ /\ v \in {"unknown", "future", "pruned"} /\ ~postpone /\ ~(v = "pruned" /\ job.first)
            /\ future' = IF job.first /\ v = "unknown" THEN future \ {b} ELSE future
            /\ job' = [NoJob EXCEPT !.kind = "return"]
            /\ UNCHANGED todo
         \/ /\ v = "nil" \/ (v = "known" /\ ~job.first)
            /\ IF interrupt
               THEN job' = [NoJob EXCEPT !.kind = "return"] /\ UNCHANGED <<todo, future>>
               ELSE IF v = "known" THEN insertKnown(b) ELSE insertBlock(b)
  /\ UNCHANGED <<c, up, interrupt, futq, mode, now, downs, torn>>

InsertDone ==
  /\ job.kind = "insert" /\ todo = <<>> /\ job.rest = <<>>
  /\ job' = NoJob
  /\ UNCHANGED <<c, todo, up, interrupt, future, futq, mode, now, downs, torn>>

------------------------------------------------------------------------------
(* Headers alone. *)

\* Mutant: the ancestors of a header on another branch keep their numbers.
WriteHeader_NoOverwrite(d, h) ==
  LET w == WriteHeaderRaw(d, h)
  IN  <<w, [DeleteCanonicalHashes(w, AssignedFrom(w, Number[h] + 1)) EXCEPT
              !.canon[Number[h]] = h, !.headHeader = h, !.curHeader = h]>>

\* A header that becomes the head: numbers above it are deleted, numbers below
\* it are overwritten down to the first that agrees.
WriteHeader(d, h) ==
  LET w == WriteHeaderRaw(d, h)
      agree == {n \in 0..Number[h] - 1 : w.canon[n] = Ancestor(h, n)}
      base == CHOOSE n \in agree : \A k \in agree : k <= n
      cut == DeleteCanonicalHashes(w, AssignedFrom(w, Number[h] + 1))
  IN  <<w, [cut EXCEPT !.canon = [n \in Heights |-> IF n > base /\ n <= Number[h]
                                                    THEN Ancestor(h, n) ELSE @[n]],
                       !.headHeader = h, !.curHeader = h]>>

InsertHeaderChain(chain) ==
  /\ Idle /\ ~interrupt /\ mode = "light"
  /\ Parent[Head(chain)] \in c.hdr
  /\ job' = [NoJob EXCEPT !.kind = "headers", !.rest = chain]
  /\ UNCHANGED <<c, todo, up, interrupt, future, futq, mode, now, downs, torn>>

\* Mutant: a known header is looked at again.
HeaderNext_Again ==
  /\ job.kind = "headers" /\ todo = <<>>
  /\ IF interrupt \/ job.rest = <<>> THEN job' = NoJob /\ UNCHANGED todo
     ELSE LET h == Head(job.rest)
          IN  IF h \in c.hdr THEN UNCHANGED <<job, todo>>
              ELSE todo' = WriteHeader(c, h) /\ job' = [job EXCEPT !.rest = Tail(@)]
  /\ UNCHANGED <<c, up, interrupt, future, futq, mode, now, downs, torn>>

\* A header at the height of the head is adopted or not by a coin flip.
HeaderNext ==
  /\ job.kind = "headers" /\ todo = <<>>
  /\ IF interrupt \/ job.rest = <<>> THEN job' = NoJob /\ UNCHANGED todo
     ELSE LET h == Head(job.rest)
          IN  /\ job' = [job EXCEPT !.rest = Tail(@)]
              /\ \/ h \in c.hdr /\ UNCHANGED todo
                 \/ h \notin c.hdr /\ todo' = WriteHeader(c, h)
                 \/ /\ h \notin c.hdr /\ Number[h] = Number[c.curHeader]
                    /\ todo' = <<WriteHeaderRaw(c, h)>>
  /\ UNCHANGED <<c, up, interrupt, future, futq, mode, now, downs, torn>>

------------------------------------------------------------------------------
(* Going down. *)

Torn == torn \/ (job.kind \in {"setHead", "reset"} /\ todo # <<>>)

Down ==
  /\ up' = "down" /\ downs' = downs + 1 /\ torn' = Torn
  /\ c' = Disk(c)
  /\ todo' = <<>> /\ job' = NoJob /\ interrupt' = FALSE /\ future' = {} /\ futq' = <<>>
  /\ UNCHANGED <<mode, now>>

Crash == up \in {"starting", "running"} /\ downs < MaxDown /\ Down

\* The nil pointer of insertBlock.
Panic == job.kind = "panic" /\ downs < MaxDown /\ Down

\* Stop sets procInterrupt and waits for the imports, not for a SetHead.
Stop ==
  /\ up = "running" /\ ~interrupt /\ downs < MaxDown
  /\ interrupt' = TRUE
  /\ UNCHANGED <<c, todo, job, up, future, futq, mode, now, downs, torn>>

StopDone ==
  /\ up = "running" /\ interrupt /\ job.kind \notin {"insert", "headers", "return", "panic"}
  /\ Down

Tick ==
  /\ now < 2 /\ mode = "strict" /\ \E b \in Blocks : Delay[b] > now
  /\ now' = now + 1
  /\ UNCHANGED <<c, todo, job, up, interrupt, future, futq, mode, downs, torn>>

Next ==
  \/ Start \/ StartChain \/ Write \/ Return \/ Reset
  \/ \E n \in Heights : SetHead(n)
  \/ \E chain \in Chains : Len(chain) <= MaxChain /\ (InsertChain(chain) \/ InsertHeaderChain(chain))
  \/ procFutureBlocks \/ InsertFuture \/ InsertNext \/ InsertDone \/ HeaderNext
  \/ Crash \/ Panic \/ Stop \/ StopDone \/ Tick

\* Every operation is a goroutine that runs on; a node that is down is started.
Spec ==
  /\ Init /\ [][Next]_vars
  /\ WF_vars(Start) /\ WF_vars(StartChain) /\ WF_vars(Write) /\ WF_vars(Return)
  /\ WF_vars(InsertNext) /\ WF_vars(InsertDone) /\ WF_vars(HeaderNext) /\ WF_vars(StopDone)
  /\ WF_vars(Panic)

------------------------------------------------------------------------------
(* Properties. *)

TypeOK ==
  /\ c.hdr \subseteq Blocks /\ c.body \subseteq c.hdr \cup {Genesis}
  /\ c.canon \in [Heights -> Blocks \cup {None}]
  /\ {c.headBlock, c.headHeader, c.headFast, c.cur, c.curHeader, c.curFast}
       \subseteq Blocks \cup {None}
  /\ up \in {"down", "starting", "running"}
  /\ job.kind \in {"none", "setup", "load", "setHead", "reset", "insert", "headers", "return", "panic"}
  /\ future \subseteq Blocks /\ downs \in 0..MaxDown

\* A database that was set up can be loaded at every moment, whatever operation is
\* cut short: the head block, the fast block and all their ancestors are stored.
HeadsLoadable ==
  c.cfg => \A b \in {c.headBlock, c.headFast} : b \in Blocks /\ Stored(c, Path[b])

\* At every moment, on disk, the canonical numbers up to the head header are the
\* path to it, and those up to the head block the path to that.
CanonicalIsPath ==
  c.cfg => \A b \in {c.headHeader, c.headBlock} :
             \A n \in 0..Number[b] : c.canon[n] = Ancestor(b, n)

\* Between operations memory and disk agree on the heads; Reset alone leaves a header
\* marker on disk above the genesis header it has in memory.
MarkersAgree ==
  Idle => /\ c.cur = c.headBlock /\ c.curFast = c.headFast
          /\ c.curHeader \in {c.headHeader, Genesis}

\* Between operations no number above the head header is assigned, unless a
\* rewind was cut short (its deletions are the last thing it writes) or Reset
\* found the head block already at the genesis block.
NothingAbove ==
  Idle /\ ~torn => \A n \in Heights : n > Number[c.curHeader] => c.canon[n] = None

\* Between operations each transaction of the chain is found by its hash.
LookupComplete ==
  Idle => \A n \in 0..Number[c.cur] : \A t \in TxsOf[c.canon[n]] :
            ReadTransaction(c, t) = c.canon[n]

\* A reorganisation to any stored block that is not lower than the head, from
\* any state between operations, may be cut short anywhere and ends with that
\* block's path as the chain, nothing above it and its transactions indexed.
ReorgSound ==
  Idle /\ mode # "light" /\ ~torn =>
    \A b \in c.hdr \cap c.body :
      Number[b] >= Number[c.cur] /\ b # c.cur =>
        LET imgs == writeKnownBlock(c, b)
            d == Last(imgs)
        IN  /\ \A i \in DOMAIN imgs : /\ Stored(imgs[i], Path[imgs[i].headBlock])
                                      /\ \A n \in 0..Number[imgs[i].headBlock] :
                                           imgs[i].canon[n] = Ancestor(imgs[i].headBlock, n)
            /\ d.headBlock = b
            /\ \A n \in Heights : n > Number[b] => d.canon[n] = None
            /\ \A n \in 0..Number[b] : \A t \in TxsOf[Ancestor(b, n)] :
                 ReadTransaction(d, t) = Ancestor(b, n)

\* The database of a chain is sound on disk at every moment, and memory, numbers and
\* lookups agree with it between operations.
ChainConsistent ==
  /\ TypeOK
  /\ HeadsLoadable /\ CanonicalIsPath
  /\ MarkersAgree /\ NothingAbove /\ LookupComplete
  /\ ReorgSound

\* A chain that has come up has the state of its head: NewBlockChain repairs it.
StartsWithState == up = "starting" /\ up' = "running" => HasState(c.cur)

\* SetHead ends with a head at the target or below, as long as no rewind left data
\* behind: with such data writeHeadBlock may leave the header below the block, and
\* SetHead counts down from the header.
SetHeadRewinds ==
  job.kind = "setHead" /\ job'.kind = "none" /\ up' = "running" /\ ~torn
    => Number[c.cur] <= job.head

\* What the two operations that go back end with: the repair of NewBlockChain at a
\* block with its state, SetHead at its target.
RepairsAndRewinds == [][StartsWithState /\ SetHeadRewinds]_vars

\* The chain implements the ledger: across imports, rewinds, repairs, crashes and
\* stops the head on disk moves to a child or back to an ancestor only, and the
\* current block in memory follows it.
TheLedger == INSTANCE Ledger WITH head <- c.headBlock, view <- c.cur
ImplementsLedger == TheLedger!LedgerSpec

\* A node that is down comes up again, whatever was cut short.
ComesUp == up = "down" ~> up = "running"

\* Whoever takes chainmu releases it.
OperationsEnd == job.kind # "none" ~> job.kind = "none"

\* The chain does not hang: a node that is down comes up, and what it does ends.
ChainProgress == ComesUp /\ OperationsEnd
==============================================================================
