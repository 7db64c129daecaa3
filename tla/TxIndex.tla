------------------------------ MODULE TxIndex -------------------------------
(***************************************************************************)
(* The window of transaction look-ups: maintainTxIndex of                  *)
(* core/blockchain.go over core/rawdb/chain_iterator.go.                   *)
(*                                                                         *)
(* A block is its number and the rewind after which it was written; canon  *)
(* gives the block of a number or None.  lookups are the blocks whose      *)
(* transactions can be found, tail is the marker on disk (None: never      *)
(* written).  A job is one run of IndexTransactions or UnindexTransactions *)
(* with its reader, its workers and its consumer.                          *)
(***************************************************************************)
EXTENDS Integers, FiniteSets, Absent

CONSTANTS
  MaxNumber, MaxRewinds, MaxLaunches,   \* bounds
  Limits,                               \* the values of txLookupLimit
  EmptyBlocks,                          \* numbers of blocks without transactions
  Ancients,                             \* sizes of the ancient store of an empty database (0: none)
  Threads

ASSUME IndexAssumption ==
  /\ MaxNumber \in Nat \ {0} /\ MaxRewinds \in Nat /\ Threads \in Nat
  /\ Limits \subseteq Nat /\ Ancients \subseteq 0..(MaxNumber + 1) /\ None \notin Int

VARIABLES canon, frozen, lookups, tail, rewinds, late, mapped, cut,
          up, quit, limit, event, job, launches

indexVars == <<canon, frozen, lookups, tail, rewinds, late, mapped, cut, up, quit, limit, event, job, launches>>

Numbers == 0..MaxNumber

Height == CHOOSE n \in Numbers : canon[n] # None /\ (n = MaxNumber \/ canon[n + 1] = None)

Block(n) == <<n, canon[n]>>

\* What a block puts into the index.
Entries(b) == IF b[1] \in EmptyBlocks THEN {} ELSE {b}

\* A database with the ancient blocks and nothing else, or with a chain to some
\* height that has all its look-ups and no tail.
IndexInit ==
  /\ frozen \in Ancients
  /\ \E h \in 0..1 :
       canon = [n \in Numbers |-> IF n <= (IF frozen > 0 THEN frozen - 1 ELSE h) THEN 0 ELSE None]
  /\ lookups = IF frozen > 0 THEN {} ELSE {<<n, 0>> : n \in {k \in Numbers : canon[k] # None} \ EmptyBlocks}
  /\ tail = None /\ rewinds = 0 /\ late = {} /\ mapped = -1 /\ cut = FALSE
  /\ up = FALSE /\ quit = FALSE /\ limit = 0 /\ event = None /\ job = None /\ launches = 0

------------------------------------------------------------------------------
(* A job. *)

\* Mutant: a short range gets the workers of a long one.
NewJob_Threads(kind, from, to) ==
  IF from >= to THEN None
  ELSE [kind |-> kind, from |-> from, to |-> to, read |-> 0, raw |-> {}, out |-> {}, queue |-> {},
        next |-> IF kind = "index" THEN to - 1 ELSE from, batch |-> {},
        alive |-> IF to - from < Threads THEN Threads ELSE to - from, stopped |-> FALSE]

NewJob(kind, from, to) ==
  IF from >= to THEN None
  ELSE [kind |-> kind, from |-> from, to |-> to, read |-> 0, raw |-> {}, out |-> {}, queue |-> {},
        next |-> IF kind = "index" THEN to - 1 ELSE from, batch |-> {},
        alive |-> IF to - from < Threads THEN to - from ELSE Threads, stopped |-> FALSE]

\* The number the reader is at; numbers go down when indexing.
Position == IF job.kind = "index" THEN job.to - 1 - job.read ELSE job.from + job.read

\* lookup: reads the body of the canonical block and feeds it to the workers.
Lookup ==
  /\ job # None /\ ~job.stopped
  /\ job.read < job.to - job.from /\ Cardinality(job.raw) < 2 * Threads
  /\ job' = [job EXCEPT !.read = @ + 1, !.raw = @ \cup {Block(Position)}]
  /\ UNCHANGED <<canon, frozen, lookups, tail, rewinds, late, mapped, cut, up, quit, limit, event, launches>>

\* The reader sees the interrupt.
LookupStops ==
  /\ job # None /\ quit /\ ~job.stopped
  /\ job' = [job EXCEPT !.stopped = TRUE]
  /\ UNCHANGED <<canon, frozen, lookups, tail, rewinds, late, mapped, cut, up, quit, limit, event, launches>>

\* process: a worker that gets no body ends, and so may one at an interrupt.
Process ==
  /\ job # None /\ job.alive > 0
  /\ \E b \in job.raw :
       \/ b[2] # None /\ job' = [job EXCEPT !.raw = @ \ {b}, !.out = @ \cup {b}]
       \/ /\ b[2] = None \/ quit
          /\ job' = [job EXCEPT !.raw = @ \ {b}, !.alive = @ - 1]
  /\ UNCHANGED <<canon, frozen, lookups, tail, rewinds, late, mapped, cut, up, quit, limit, event, launches>>

\* The consumer queues a delivery.
Deliver ==
  /\ job # None
  /\ ~\E b \in job.queue : b[1] = job.next
  /\ \E b \in job.out : job' = [job EXCEPT !.out = @ \ {b}, !.queue = @ \cup {b}]
  /\ UNCHANGED <<canon, frozen, lookups, tail, rewinds, late, mapped, cut, up, quit, limit, event, launches>>

\* What a batch and the tail written with it make of the disk.
Flush(batch, mark) ==
  /\ lookups' = IF job.kind = "index" THEN lookups \cup batch ELSE lookups \ batch
  /\ tail' = mark

\* Mutant: the tail is written before the block it covers is in the batch.
Consume_TailFirst ==
  /\ job # None
  /\ \E b \in job.queue :
       /\ b[1] = job.next
       /\ LET index == job.kind = "index"
          IN  /\ \/ Flush(job.batch, IF index THEN b[1] ELSE b[1] + 1)
                    /\ job' = [job EXCEPT !.batch = {b}, !.queue = @ \ {b},
                                          !.next = IF index THEN @ - 1 ELSE @ + 1]
                 \/ /\ job' = [job EXCEPT !.batch = @ \cup {b}, !.queue = @ \ {b},
                                          !.next = IF index THEN @ - 1 ELSE @ + 1]
                    /\ UNCHANGED <<lookups, tail>>
  /\ UNCHANGED <<canon, frozen, rewinds, late, mapped, cut, up, quit, limit, event, launches>>

\* The next block in order goes into the batch, which is written when it is large.
Consume ==
  /\ job # None
  /\ \E b \in job.queue :
       /\ b[1] = job.next
       /\ LET index == job.kind = "index"
              batch == job.batch \cup Entries(b)
              after == [job EXCEPT !.queue = @ \ {b}, !.batch = batch,
                                   !.next = IF index THEN @ - 1 ELSE @ + 1]
          IN  \/ job' = after /\ UNCHANGED <<lookups, tail>>
              \/ /\ Flush(batch, IF index THEN b[1] ELSE b[1] + 1)
                 /\ job' = [after EXCEPT !.batch = {}]
  /\ UNCHANGED <<canon, frozen, rewinds, late, mapped, cut, up, quit, limit, event, launches>>

\* Mutant: the consumer waits until its queue is empty.
Finish_Drains ==
  /\ job # None /\ job.out = {} /\ job.queue = {} /\ job.raw = {}
  /\ job.stopped \/ job.read = job.to - job.from
  /\ IF job.batch = {} THEN UNCHANGED <<lookups, tail>>
     ELSE Flush(job.batch, IF job.kind = "index" THEN job.next + 1 ELSE job.next)
  /\ job' = None
  /\ UNCHANGED <<canon, frozen, rewinds, late, mapped, cut, up, quit, limit, event, launches>>

\* The channel is closed when the last worker has ended; what is left of the batch
\* is written.  A batch without data writes no tail.
Finish ==
  /\ job # None
  /\ job.out = {} /\ ~\E b \in job.queue : b[1] = job.next
  /\ \/ job.alive = 0
     \/ job.raw = {} /\ (job.stopped \/ job.read = job.to - job.from)
  /\ IF job.batch = {} THEN UNCHANGED <<lookups, tail>>
     ELSE Flush(job.batch, IF job.kind = "index" THEN job.next + 1 ELSE job.next)
  /\ job' = None
  /\ UNCHANGED <<canon, frozen, rewinds, late, mapped, cut, up, quit, limit, event, launches>>

------------------------------------------------------------------------------
(* maintainTxIndex and the chain. *)

\* InitDatabaseFromFreezer on a database without a head: the numbers of the hashes
\* in batches, the head markers last (mapped = frozen).
MapFrozen ==
  /\ ~up /\ mapped < frozen
  /\ \E n \in (mapped + 1)..frozen : mapped' = n
  /\ UNCHANGED <<canon, frozen, lookups, tail, rewinds, late, cut, up, quit, limit, event, job, launches>>

\* The user may change the limit at every launch.  The ancient blocks are indexed by
\* the launch that found the database empty, and by no later one.
Launch ==
  /\ ~up /\ launches < MaxLaunches /\ mapped = frozen
  /\ up' = TRUE /\ launches' = launches + 1 /\ quit' = FALSE
  /\ \E l \in Limits :
       /\ limit' = l
       /\ job' = IF frozen = 0 \/ launches > 0 THEN None
                 ELSE NewJob("index", IF l # 0 /\ frozen > l THEN frozen - l ELSE 0, frozen)
  /\ UNCHANGED <<canon, frozen, lookups, tail, rewinds, late, mapped, cut, event>>

\* The first number that keeps its look-ups.
Window(head) == head - limit + 1

All(head) == limit = 0 \/ head < limit

\* Mutant: the first tail is written without dropping what is below it.
indexBlocks_NoPrune(head) ==
  \/ tail = None /\ job' = None /\ tail' = IF All(head) THEN 0 ELSE Window(head)
  \/ /\ tail # None /\ UNCHANGED tail
     /\ job' = IF All(head) THEN NewJob("index", 0, tail) ELSE NewJob("unindex", tail, Window(head))

indexBlocks(head) ==
  \/ tail = None /\ All(head) /\ tail' = 0 /\ job' = None
  \/ tail = None /\ ~All(head) /\ job' = NewJob("unindex", 0, Window(head)) /\ UNCHANGED tail
  \/ tail # None /\ All(head) /\ job' = NewJob("index", 0, tail) /\ UNCHANGED tail
  \/ /\ tail # None /\ ~All(head) /\ UNCHANGED tail
     /\ job' = IF Window(head) < tail THEN NewJob("index", Window(head), tail)
               ELSE NewJob("unindex", tail, Window(head))

\* An event that comes while a job is running is dropped.  cut remembers that the
\* first tail was not written by the job that indexes the ancient blocks.
TakeHead ==
  /\ up /\ ~quit /\ event # None
  /\ event' = None
  /\ cut' = (cut \/ (job = None /\ tail = None /\ frozen > 0))
  /\ IF job = None THEN indexBlocks(event) ELSE UNCHANGED <<tail, job>>
  /\ UNCHANGED <<canon, frozen, lookups, rewinds, late, mapped, up, quit, limit, launches>>

\* The number is below the tail, or a job is about to bring the tail above it: one that drops
\* look-ups, or the one that writes the first tail.
Dropped(n) ==
  \/ tail # None /\ n < tail
  \/ job # None /\ (job.kind = "unindex" \/ tail = None) /\ n < job.to

\* A block is written with its look-ups.
NewBlock ==
  /\ up /\ ~quit /\ event = None /\ Height < MaxNumber
  /\ canon' = [canon EXCEPT ![Height + 1] = rewinds]
  /\ lookups' = lookups \cup Entries(<<Height + 1, rewinds>>)
  /\ late' = IF Dropped(Height + 1) THEN late \cup {<<Height + 1, rewinds>>} ELSE late
  /\ event' = Height + 1
  /\ UNCHANGED <<frozen, tail, rewinds, mapped, cut, up, quit, limit, job, launches>>

\* SetHead leaves the look-ups and the tail alone.
SetHead ==
  /\ up /\ ~quit /\ rewinds < MaxRewinds
  /\ \E n \in Numbers : n < Height /\ canon' = [k \in Numbers |-> IF k > n THEN None ELSE canon[k]]
  /\ rewinds' = rewinds + 1
  /\ UNCHANGED <<frozen, lookups, tail, late, mapped, cut, up, quit, limit, event, job, launches>>

Quit ==
  /\ up /\ ~quit
  /\ quit' = TRUE /\ event' = None
  /\ UNCHANGED <<canon, frozen, lookups, tail, rewinds, late, mapped, cut, up, limit, job, launches>>

\* maintainTxIndex waits for the job.
Exit ==
  /\ up /\ quit /\ job = None
  /\ up' = FALSE
  /\ UNCHANGED <<canon, frozen, lookups, tail, rewinds, late, mapped, cut, quit, limit, event, job, launches>>

Crash ==
  /\ up
  /\ up' = FALSE /\ job' = None /\ event' = None /\ quit' = FALSE
  /\ UNCHANGED <<canon, frozen, lookups, tail, rewinds, late, mapped, cut, limit, launches>>

JobNext == Lookup \/ LookupStops \/ Process \/ Deliver \/ Consume \/ Finish

IndexNext ==
  JobNext \/ MapFrozen \/ Launch \/ TakeHead \/ NewBlock \/ SetHead \/ Quit \/ Exit \/ Crash

IndexSpec == IndexInit /\ [][IndexNext]_indexVars /\ WF_indexVars(JobNext)

------------------------------------------------------------------------------
(* Properties. *)

\* The types.
IndexTypeOK ==
  /\ canon \in [Numbers -> {None} \cup 0..MaxRewinds]
  /\ tail \in {None} \cup 0..(MaxNumber + 1) /\ mapped \in -1..frozen
  /\ \A b \in lookups : b[1] \in Numbers \ EmptyBlocks /\ b[2] \in 0..MaxRewinds
  /\ frozen \in Ancients /\ up \in BOOLEAN /\ quit \in BOOLEAN /\ limit \in Limits \cup {0}
  /\ job # None => job.alive \in 0..Threads /\ job.next \in -1..(MaxNumber + 1)

\* The tail is a promise at every moment, also after a crash, an interrupt or a block
\* the workers could not read: from there on every canonical block can be looked up
\* (unless the first indexing of ancient blocks was cut short).
TailCovers ==
  tail # None /\ ~cut =>
    \A n \in Numbers : n >= tail /\ canon[n] # None /\ n \notin EmptyBlocks => Block(n) \in lookups

\* Below the tail nothing of the canonical chain is left in the index, except what
\* was written when a rewind had brought the chain below the tail (or below the one
\* a job was about to write).
PrunedBelow ==
  tail # None => \A n \in Numbers : n < tail /\ canon[n] # None => Block(n) \notin lookups \ late

\* Every job ends, whatever the workers met.
JobsEnd == job # None ~> job = None

\* The index is complete above the tail and empty below it.
IndexConsistent == IndexTypeOK /\ TailCovers /\ PrunedBelow
==============================================================================
