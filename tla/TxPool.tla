------------------------------- MODULE TxPool -------------------------------
(***************************************************************************)
(* core/tx_pool.go with core/tx_noncer.go, core/tx_journal.go and the      *)
(* priced list of core/tx_list.go.                                         *)
(*                                                                         *)
(* p is what pool.mu protects, and every section of code under that lock   *)
(* is one step.  lp is the state of scheduleReorgLoop, run the goroutine   *)
(* runReorg that it has started.  A list of an account is the set of its   *)
(* transactions (see TxList); the price heap is the sequence of its        *)
(* entries in the order in which they are popped.                          *)
(*                                                                         *)
(* A transaction is a number, which also breaks the ties of the heap.      *)
(***************************************************************************)
EXTENDS Integers, Sequences, FiniteSets, SequencesExt, FiniteSetsExt, Absent

CONSTANTS
  Txs, Accounts,
  Sender, Nonce, Price, Cost, Gas,  \* of a transaction
  Blocks, Genesis, ParentOf,        \* of the chain the pool follows
  TxsIn, Number,                    \* of a block
  StateNonce, Balance,              \* of an account after a block
  GlobalSlots, GlobalQueue, AccountSlots, AccountQueue, PriceBump, Prices,
  MaxDepth,                         \* of a reorganisation that is followed
  Batches, LocalBatches,            \* the sequences of transactions that are added at once
  MaxAdds, MaxEvents                \* bounds: additions; everything else from outside

VARIABLES p, lp, run, head, sent, up, adds, events

vars == <<p, lp, run, head, sent, up, adds, events>>

\* currentMaxGas is never assigned.
currentMaxGas == 0

At(S, n) == {t \in S : Nonce[t] = n}

Nonces(S) == {Nonce[t] : t \in S}

------------------------------------------------------------------------------
(* The priced list. *)

Cheaper(x, y) ==
  \/ Price[x] < Price[y]
  \/ Price[x] = Price[y] /\ Nonce[x] > Nonce[y]
  \/ Price[x] = Price[y] /\ Nonce[x] = Nonce[y] /\ x < y

Put(q, t) ==
  [q EXCEPT !.items = InsertAt(@, 1 + Cardinality({i \in DOMAIN @ : Cheaper(@[i], t)}), t)]

\* Mutant: stale entries are never cleared, and the heap is rebuilt from what is
\* pending only.
Removed_Pending(q, n) ==
  IF q.stales + n <= Len(q.items) \div 4 THEN [q EXCEPT !.stales = @ + n]
  ELSE [q EXCEPT !.stales = 0,
                 !.items = SetToSortSeq(UNION {q.pend[a] : a \in Accounts}, Cheaper)]

\* The heap is rebuilt when more than a quarter of it is stale.
Removed(q, n) ==
  IF q.stales + n <= Len(q.items) \div 4 THEN [q EXCEPT !.stales = @ + n]
  ELSE [q EXCEPT !.stales = 0, !.items = SetToSortSeq(q.all, Cheaper)]

\* What is left of the heap, and what is dropped, when entries are popped until
\* enough of them can be dropped or one of the set stop comes.
PopUntil(q, enough, stop) ==
  LET Pop(acc, t) ==
        IF acc.done \/ Len(acc.drop) >= enough \/ t \in q.all \cap stop
        THEN [acc EXCEPT !.keep = Append(@, t), !.done = TRUE]
        ELSE IF t \notin q.all THEN [acc EXCEPT !.stale = @ + 1]
        ELSE IF Sender[t] \in q.locals THEN [acc EXCEPT !.keep = Append(@, t)]
        ELSE [acc EXCEPT !.drop = Append(@, t)]
  IN  FoldLeft(Pop, [keep |-> <<>>, drop |-> <<>>, stale |-> 0, done |-> FALSE], q.items)

\* Mutant: what is dropped is taken off the counter as well.
Popped_Both(q, r) == [q EXCEPT !.items = r.keep, !.stales = @ - r.stale - Len(r.drop)]

Popped(q, r) == [q EXCEPT !.items = r.keep, !.stales = @ - r.stale]

\* Underpriced pops the stale entries at the top and compares with the first other.
Cheapest(q) == PopUntil(q, Len(q.items), q.all)

Underpriced(q, t) ==
  /\ Sender[t] \notin q.locals
  /\ Cheapest(q).keep # <<>> /\ Price[Cheapest(q).keep[1]] >= Price[t]

Discard(q, slots) ==
  LET discardable == Len(SelectSeq(q.items, LAMBDA t : Sender[t] \notin q.locals))
  IN  PopUntil(q, IF slots > discardable THEN discardable ELSE slots, {})

------------------------------------------------------------------------------
(* Adding and removing one transaction, under the lock. *)

\* Mutant: an account is entered again.
Beat_Appends(q, a) == [q EXCEPT !.beats = Append(@, a)]

Beat(q, a) == [q EXCEPT !.beats = Append(SelectSeq(@, LAMBDA x : x # a), a)]

Unbeat(q, a) == [q EXCEPT !.beats = SelectSeq(@, LAMBDA x : x # a)]

\* txList.Add accepts t: nothing there, or the price is bumped enough.
CanReplace(S, t) ==
  \A old \in At(S, Nonce[t]) :
    Price[t] > Price[old] /\ Price[t] >= (Price[old] * (100 + PriceBump)) \div 100

Known(q, t) == IF t \in q.all THEN q ELSE Put([q EXCEPT !.all = @ \cup {t}], t)

\* The old transaction of t's nonce leaves the pool, then t is known.
Exchange(q, old, t) ==
  Known(IF old = {} THEN q ELSE Removed([q EXCEPT !.all = @ \ old], 1), t)

\* A first heartbeat, for an account that has none.
FirstBeat(q, a) == IF Contains(q.beats, a) THEN q ELSE Beat(q, a)

\* Mutant: the replaced transaction stays in the lookup.
enqueueTx_KeepsOld(q, t) ==
  LET a == Sender[t]
      old == At(q.que[a], Nonce[t])
  IN  IF ~CanReplace(q.que[a], t) THEN q
      ELSE FirstBeat(Exchange([q EXCEPT !.que[a] = (@ \ old) \cup {t}], {}, t), a)

\* Mutant: only a new heartbeat of a promotion counts.
enqueueTx_NoBeat(q, t) ==
  LET a == Sender[t]
      old == At(q.que[a], Nonce[t])
  IN  IF ~CanReplace(q.que[a], t) THEN q
      ELSE Exchange([q EXCEPT !.que[a] = (@ \ old) \cup {t}], old, t)

enqueueTx(q, t) ==
  LET a == Sender[t]
      old == At(q.que[a], Nonce[t])
  IN  IF ~CanReplace(q.que[a], t) THEN q
      ELSE FirstBeat(Exchange([q EXCEPT !.que[a] = (@ \ old) \cup {t}], old, t), a)

enqueueAll(q, S) == FoldSet(LAMBDA t, acc : enqueueTx(acc, t), q, S)

\* Mutant: the virtual nonce stays above the removed transaction.
Unlist_KeepsNonce(q, t) ==
  LET a == Sender[t]
      future == q.que[a] \ At(q.que[a], Nonce[t])
  IN  IF At(q.pend[a], Nonce[t]) # {}
      THEN enqueueAll([q EXCEPT !.pend[a] = {x \in @ : Nonce[x] < Nonce[t]}],
                      {x \in q.pend[a] : Nonce[x] > Nonce[t]})
      ELSE IF future = {} THEN Unbeat([q EXCEPT !.que[a] = {}], a)
      ELSE [q EXCEPT !.que[a] = future]

\* t leaves pending, with everything after it sent back to the queue, or the
\* queue.  Both lists find the transaction by its nonce.
Unlist(q, t) ==
  LET a == Sender[t]
      future == q.que[a] \ At(q.que[a], Nonce[t])
  IN  IF At(q.pend[a], Nonce[t]) # {}
      THEN enqueueAll([q EXCEPT !.pend[a] = {x \in @ : Nonce[x] < Nonce[t]},
                                !.non[a] = IF @ > Nonce[t] THEN Nonce[t] ELSE @],
                      {x \in q.pend[a] : Nonce[x] > Nonce[t]})
      ELSE IF future = {} THEN Unbeat([q EXCEPT !.que[a] = {}], a)
      ELSE [q EXCEPT !.que[a] = future]

removeTx(q, t, outofbound) ==
  LET q1 == [q EXCEPT !.all = @ \ {t}]
  IN  IF t \notin q.all THEN q ELSE Unlist(IF outofbound THEN Removed(q1, 1) ELSE q1, t)

removeAll(q, s, outofbound) == FoldLeft(LAMBDA acc, t : removeTx(acc, t, outofbound), q, s)

journalTx(q, t) ==
  IF Sender[t] \in q.locals /\ q.writer = "file" THEN [q EXCEPT !.file = @ \cup {t}] ELSE q

validateTx(q, t, local) ==
  /\ local \/ Sender[t] \in q.locals \/ Price[t] >= q.gasPrice
  /\ StateNonce[q.st][Sender[t]] <= Nonce[t]
  /\ Cost[t] <= Balance[q.st][Sender[t]]

\* An answer of add: the pool, the accounts to promote and the events to queue.
Answer(q, dirty, evs) == [p |-> q, dirty |-> dirty, events |-> evs]

\* Mutant: a local account is not exempt when the pool is full.
MakeRoom_Anyone(q, t, local) ==
  LET full == Cardinality(q.all) >= GlobalSlots + GlobalQueue
  IN  IF ~full THEN q ELSE removeTx(Popped(q, [keep |-> Tail(q.items), stale |-> 0]), q.items[1], FALSE)

\* The transactions that were popped leave the pool.
DropPopped(q, r) == removeAll(Popped(q, r), r.drop, FALSE)

DropCheapest(q) ==
  DropPopped(q, Discard(q, Cardinality(q.all) - (GlobalSlots + GlobalQueue) + 1))

\* Room for t: the cheapest of the others go if the pool is full.
MakeRoom(q, t, local) ==
  IF Cardinality(q.all) < GlobalSlots + GlobalQueue THEN q
  ELSE DropCheapest(IF local \/ Sender[t] \in q.locals THEN q ELSE Popped(q, Cheapest(q)))

Refused(q, t, local) ==
  Cardinality(q.all) >= GlobalSlots + GlobalQueue /\ ~local /\ Underpriced(q, t)

\* Mutant: a pending transaction of the same nonce is not looked for.
add_NoOverlap(q, t, local) ==
  IF t \in q.all \/ ~validateTx(q, t, local) \/ ~CanReplace(q.que[Sender[t]], t)
  THEN Answer(q, {}, {}) ELSE Answer(enqueueTx(q, t), {Sender[t]}, {})

\* A replacement in pending does not mark its sender as local.
PlaceTx(q, t, local) ==
  LET a == Sender[t]
      old == At(q.pend[a], Nonce[t])
  IN  IF ~CanReplace(IF old # {} THEN q.pend[a] ELSE q.que[a], t) THEN Answer(q, {}, {})
      ELSE IF old # {}
      THEN Answer(Beat(journalTx(Exchange([q EXCEPT !.pend[a] = (@ \ old) \cup {t}], old, t), t), a),
                  {}, {t})
      ELSE Answer(journalTx([enqueueTx(q, t) EXCEPT
                               !.locals = IF local THEN @ \cup {a} ELSE @,
                               !.early = IF local /\ a \notin q.locals
                                         THEN @ \cup q.pend[a] \cup q.que[a] ELSE @], t),
                  IF At(q.que[a], Nonce[t]) = {} THEN {a} ELSE {}, {})

add(q, t, local) ==
  IF t \in q.all \/ ~validateTx(q, t, local) THEN Answer(q, {}, {})
  ELSE IF Refused(q, t, local) THEN Answer(Popped(q, Cheapest(q)), {}, {})
  ELSE PlaceTx(MakeRoom(q, t, local), t, local)

Both(r1, r2) == Answer(r2.p, r1.dirty \cup r2.dirty, r1.events \cup r2.events)

addTxsLocked(q, ts, local) ==
  FoldLeft(LAMBDA acc, t : Both(acc, add(acc.p, t, local)), Answer(q, {}, {}), ts)

------------------------------------------------------------------------------
(* One run of the reorganisation, under the lock. *)

\* The transactions an account can not pay for, or over the gas limit.
Unpayable(q, a, S) ==
  {t \in S : Cost[t] > Balance[q.st][a] \/ Gas[t] > currentMaxGas}

\* The run of consecutive nonces from the first, if that is not above n.
Ready(S, n) ==
  {t \in S : /\ \E x \in S : Nonce[x] <= n
             /\ \A k \in Min(Nonces(S))..Nonce[t] : k \in Nonces(S)}

\* The n transactions of the lowest nonces stay; these go.
Over(S, n) == {t \in S : Cardinality({x \in S : Nonce[x] < Nonce[t]}) >= n}

InOrder(S) == SetToSortSeq(S, LAMBDA x, y : Nonce[x] < Nonce[y])

promoteTx(q, t) ==
  LET a == Sender[t]
      old == At(q.pend[a], Nonce[t])
      q1 == Exchange([q EXCEPT !.pend[a] = (@ \ old) \cup {t}], old, t)
  IN  IF CanReplace(q.pend[a], t)
      THEN Beat([q1 EXCEPT !.non[a] = Nonce[t] + 1], a)
      ELSE Removed([q EXCEPT !.all = @ \ {t}], 1)

\* Mutant: what has a gap before it is promoted too.
promoteAccount_Gaps(q, a) ==
  LET stale == {t \in q.que[a] : Nonce[t] < StateNonce[q.st][a]}
      drops == Unpayable(q, a, q.que[a] \ stale)
      readies == q.que[a] \ (stale \cup drops)
      q1 == [q EXCEPT !.all = @ \ (stale \cup drops), !.que[a] = {}]
      q2 == FoldLeft(promoteTx, q1, InOrder(readies))
  IN  IF q.que[a] = {} THEN q
      ELSE Unbeat(Removed(q2, Cardinality(stale) + Cardinality(drops)), a)

promoteAccount(q, a) ==
  LET stale == {t \in q.que[a] : Nonce[t] < StateNonce[q.st][a]}
      drops == Unpayable(q, a, q.que[a] \ stale)
      rest == q.que[a] \ (stale \cup drops)
      readies == Ready(rest, q.non[a])
      q1 == [q EXCEPT !.all = @ \ (stale \cup drops), !.que[a] = rest \ readies]
      q2 == FoldLeft(promoteTx, q1, InOrder(readies))
      caps == IF a \in q.locals THEN {} ELSE Over(rest \ readies, AccountQueue)
      q3 == Removed([q2 EXCEPT !.all = @ \ caps, !.que[a] = @ \ caps],
                    Cardinality(stale) + Cardinality(drops) + Cardinality(caps))
  IN  IF q.que[a] = {} THEN q
      ELSE IF q3.que[a] = {} THEN Unbeat(q3, a) ELSE q3

promoteExecutables(q, addrs) == FoldSet(LAMBDA a, acc : promoteAccount(acc, a), q, addrs)

\* What became pending between two states of the pool.
Promoted(q, r) == UNION {r.pend[a] \ q.pend[a] : a \in Accounts}

demoteAccount(q, a) ==
  LET nonce == StateNonce[q.st][a]
      olds == {t \in q.pend[a] : Nonce[t] < nonce}
      drops == Unpayable(q, a, q.pend[a] \ olds)
      invalids == {t \in q.pend[a] \ (olds \cup drops) : \E d \in drops : Nonce[d] < Nonce[t]}
      rest == q.pend[a] \ (olds \cup drops \cup invalids)
      gapped == IF nonce \in Nonces(rest) THEN {} ELSE rest
      q1 == Removed([q EXCEPT !.all = @ \ (olds \cup drops), !.pend[a] = rest \ gapped],
                    Cardinality(olds) + Cardinality(drops))
  IN  IF q.pend[a] = {} THEN q ELSE enqueueAll(enqueueAll(q1, invalids), gapped)

demoteUnexecutables(q) == FoldSet(LAMBDA a, acc : demoteAccount(acc, a), q, Accounts)

PendingCount(q) == FoldSet(LAMBDA a, n : n + Cardinality(q.pend[a]), 0, Accounts)

\* The last pending transaction of each offender goes.
DropLast(q, offenders) ==
  LET Drop(acc, a) ==
        LET caps == Over(acc.pend[a], Cardinality(acc.pend[a]) - 1)
            n == Min(Nonces(caps))
        IN  Removed([acc EXCEPT !.all = @ \ caps, !.pend[a] = @ \ caps,
                                !.non[a] = IF @ > n THEN n ELSE @], 1)
  IN  FoldLeft(Drop, q, offenders)

\* Until the pool is within its limit, or the offender at last is down to floor.
RECURSIVE Equalise(_, _, _, _)
Equalise(q, offenders, last, floor) ==
  IF PendingCount(q) > GlobalSlots /\ Cardinality(q.pend[last]) > floor
  THEN Equalise(DropLast(q, offenders), offenders, last, floor) ELSE q

\* The offenders are taken in the order of their sizes, the largest first; those
\* before are cut to the size of the one just taken.
RECURSIVE Penalise(_, _, _)
Penalise(q, offenders, spammers) ==
  LET next == Head(spammers)
      cut == IF offenders = <<>> THEN q
             ELSE Equalise(q, offenders, Last(offenders), Cardinality(q.pend[next]))
  IN  IF PendingCount(q) > GlobalSlots /\ spammers # <<>>
      THEN Penalise(cut, Append(offenders, next), Tail(spammers))
      ELSE IF offenders = <<>> THEN q
      ELSE Equalise(q, offenders, Last(offenders), AccountSlots)

truncatePending(q) ==
  Penalise(q, <<>>,
           SetToSortSeq({a \in Accounts \ q.locals : Cardinality(q.pend[a]) > AccountSlots},
                        LAMBDA x, y : Cardinality(q.pend[x]) > Cardinality(q.pend[y])))

QueueCount(q) == FoldSet(LAMBDA a, n : n + Cardinality(q.que[a]), 0, Accounts)

\* Mutant: an account that has no more than the excess is left alone.
truncateQueue_Spares(q) ==
  LET addresses == SelectSeq(q.beats, LAMBDA a : q.que[a] # {} /\ a \notin q.locals)
      Drop(acc, a) ==
        LET over == QueueCount(acc) - GlobalQueue
        IN  IF over <= 0 \/ Cardinality(acc.que[a]) <= over THEN acc
            ELSE removeAll(acc, InOrder(Over(acc.que[a], Cardinality(acc.que[a]) - over)), TRUE)
  IN  FoldLeft(Drop, q, Reverse(addresses))

\* The account with the most recent heartbeat is the first to lose its queue.
truncateQueue(q) ==
  LET addresses == SelectSeq(q.beats, LAMBDA a : q.que[a] # {} /\ a \notin q.locals)
      Drop(acc, a) ==
        LET over == QueueCount(acc) - GlobalQueue
            size == Cardinality(acc.que[a])
        IN  IF over <= 0 THEN acc
            ELSE IF size <= over THEN removeAll(acc, InOrder(acc.que[a]), TRUE)
            ELSE removeAll(acc, Reverse(InOrder(Over(acc.que[a], size - over))), TRUE)
  IN  IF QueueCount(q) <= GlobalQueue THEN q ELSE FoldLeft(Drop, q, Reverse(addresses))

RECURSIVE Chain(_)
Chain(b) == IF b = Genesis THEN {b} ELSE {b} \cup Chain(ParentOf[b])

\* The transactions of one branch that are not on the other.
Reinject(old, new) ==
  LET depth == IF Number[old] > Number[new] THEN Number[old] - Number[new]
               ELSE Number[new] - Number[old]
      Of(S) == UNION {TxsIn[b] : b \in S}
  IN  IF old = ParentOf[new] \/ depth > MaxDepth THEN {}
      ELSE Of(Chain(old) \ Chain(new)) \ Of(Chain(new) \ Chain(old))

\* The pool keeps its old state when the old head is gone (a rewind deleted it)
\* or the new state can not be opened.
Stuck(r, fault) == fault = "state" \/ (fault = "gone" /\ r.old # ParentOf[r.new])

reset(q, r, fault) ==
  IF Stuck(r, fault) THEN Answer(q, {}, {})
  ELSE addTxsLocked([q EXCEPT !.st = r.new, !.non = StateNonce[r.new]],
                    SetToSeq(Reinject(r.old, r.new)), FALSE)

SetNonces(q) ==
  [q EXCEPT !.non = [a \in Accounts |-> IF q.pend[a] = {} THEN @[a] ELSE Max(Nonces(q.pend[a])) + 1]]

Queued(q) == {a \in Accounts : q.que[a] # {}}

\* Mutant: a reset forgets every event.
Fresh_None(q, evs) == {}

\* The events below the virtual nonce are forgotten.  When the reset did not take
\* place that is the nonce after what is pending, and new events go too: mute
\* remembers them.
Fresh(q, evs) == {t \in evs : Nonce[t] >= q.non[Sender[t]]}

\* The end of the locked part, on the pool as the promotion left it.
Settle(q, job) ==
  SetNonces(truncateQueue(truncatePending(IF job.reset = None THEN q ELSE demoteUnexecutables(q))))

Muted(q, lost) == [q EXCEPT !.mute = (@ \cup lost) \cap q.all]

\* r is the answer of the reset, q the pool after the promotion, evs the events left.
Result(job, fault, r, q, evs) ==
  [p |-> Muted(Settle(q, job),
               IF job.reset # None /\ Stuck(job.reset, fault) THEN job.events \ evs ELSE {}),
   send |-> evs \cup Promoted(r.p, q), next |-> r.events]

AfterReset(job, fault, r) ==
  Result(job, fault, r,
         promoteExecutables(r.p, IF job.reset = None THEN job.dirty ELSE Queued(r.p)),
         IF job.reset = None THEN job.events ELSE Fresh(r.p, job.events))

\* The locked part: the pool, the events to send, the events for the next run.
runReorg(q, job, fault) ==
  AfterReset(job, fault, IF job.reset = None THEN Answer(q, {}, {}) ELSE reset(q, job.reset, fault))

------------------------------------------------------------------------------
(* The journal. *)

\* The transactions of the local accounts, which a rotation writes.
local(q) == {t \in q.all : Sender[t] \in q.locals}

\* Mutant: only what is pending is written.
Rotated_Pending(q, outcome) ==
  CASE outcome = "ok" ->
         [q EXCEPT !.file = {t \in local(q) : t \in q.pend[Sender[t]]}, !.writer = "file", !.early = {}]
    [] outcome = "not written" -> [q EXCEPT !.writer = "none"]
    [] outcome = "not opened" -> [q EXCEPT !.file = local(q), !.writer = "none", !.early = {}]

\* The old file is closed first: whatever fails after that leaves no writer.
Rotated(q, outcome) ==
  CASE outcome = "ok" -> [q EXCEPT !.file = local(q), !.writer = "file", !.early = {}]
    [] outcome = "not written" -> [q EXCEPT !.writer = "none"]
    [] outcome = "not opened" -> [q EXCEPT !.file = local(q), !.writer = "none", !.early = {}]

\* A pool made when the chain is at b.  While the journal is read, what is added
\* is written nowhere; then the journal is rotated.
FirstRun(loaded) ==
  runReorg(loaded.p, [reset |-> None, dirty |-> loaded.dirty, events |-> {}], "no").p

NewTxPool(q, b) ==
  LET empty == [q EXCEPT !.st = b, !.non = StateNonce[b], !.writer = "null"]
  IN  Rotated(FirstRun(addTxsLocked(empty, SetToSortSeq(q.file, <), TRUE)), "ok")

------------------------------------------------------------------------------
(* The steps. *)

Empty ==
  [pend |-> [a \in Accounts |-> {}], que |-> [a \in Accounts |-> {}], all |-> {},
   items |-> <<>>, stales |-> 0, non |-> StateNonce[Genesis], st |-> Genesis, locals |-> {},
   gasPrice |-> Min(Prices), beats |-> <<>>, file |-> {}, writer |-> "file", early |-> {},
   mute |-> {}]

Idle == [launch |-> FALSE, reset |-> None, dirty |-> {}, events |-> {}, ask |-> None]

Init ==
  /\ p = Empty /\ lp = Idle /\ run = None /\ head = Genesis
  /\ sent = {} /\ up = TRUE /\ adds = 0 /\ events = 0

Spend == events < MaxEvents /\ events' = events + 1

\* addTxs, if it is not all known: the pool under the lock.  One caller at a time; its
\* request to promote is still to come.
addTxs(batch, loc) ==
  /\ up /\ adds < MaxAdds /\ adds' = adds + 1
  /\ lp.ask = None /\ ~(ToSet(batch) \subseteq p.all)
  /\ \E r \in {addTxsLocked(p, batch, loc)} :
       /\ p' = r.p
       /\ lp' = [lp EXCEPT !.events = @ \cup r.events, !.ask = r.dirty]
  /\ sent' = sent \cap p'.all
  /\ UNCHANGED <<run, head, up, events>>

AddRemotes == \E batch \in Batches : addTxs(batch, FALSE)

AddLocals == \E batch \in LocalBatches : addTxs(batch, TRUE)

\* The request, also when everything was refused.  A run may have been launched since.
requestPromoteExecutables ==
  /\ up /\ lp.ask # None
  /\ lp' = [lp EXCEPT !.dirty = @ \cup lp.ask, !.launch = TRUE, !.ask = None]
  /\ UNCHANGED <<p, run, head, sent, up, adds, events>>

\* A request that waits keeps its old head and takes the new one.
ResetRequest(b) ==
  [old |-> IF lp.reset = None THEN head ELSE lp.reset.old, new |-> b]

\* loop: the chain has a new head.
requestReset(b) ==
  /\ up /\ b # head /\ Spend
  /\ head' = b
  /\ lp' = [lp EXCEPT !.reset = ResetRequest(b), !.launch = TRUE]
  /\ UNCHANGED <<p, run, sent, up, adds>>

NewHead == \E b \in Blocks : requestReset(b)

launchRun ==
  /\ up /\ run = None /\ lp.launch
  /\ run' = [reset |-> lp.reset, dirty |-> lp.dirty, events |-> lp.events, phase |-> "ready"]
  /\ lp' = [lp EXCEPT !.launch = FALSE, !.reset = None, !.dirty = {}, !.events = {}]
  /\ UNCHANGED <<p, head, sent, up, adds, events>>

Reorg ==
  /\ up /\ run # None /\ run.phase = "ready"
  /\ \E fault \in (IF run.reset = None THEN {"no"} ELSE {"no", "gone", "state"}) :
       \E r \in {runReorg(p, run, fault)} :
         /\ p' = r.p
         /\ run' = [run EXCEPT !.phase = "send", !.events = r.send]
         /\ lp' = [lp EXCEPT !.events = @ \cup r.next]
  /\ sent' = sent \cap p'.all
  /\ UNCHANGED <<head, up, adds, events>>

\* The feed is served and the channel of the run closed.
Send ==
  /\ up /\ run # None /\ run.phase = "send"
  /\ sent' = (sent \cup run.events) \cap p.all
  /\ run' = None
  /\ UNCHANGED <<p, lp, head, up, adds, events>>

\* loop: the queues of the accounts whose last heartbeat is too long ago.
Evict ==
  /\ up /\ Spend
  /\ \E n \in 1..Len(p.beats) :
       LET old == SelectSeq(SubSeq(p.beats, 1, n), LAMBDA a : a \notin p.locals)
       IN  p' = FoldLeft(LAMBDA q, a : removeAll(q, InOrder(q.que[a]), TRUE), p, old)
  /\ sent' = sent \cap p'.all
  /\ UNCHANGED <<lp, run, head, up, adds>>

SetGasPrice ==
  /\ up /\ Spend
  /\ \E price \in Prices :
       p' = DropPopped([p EXCEPT !.gasPrice = price],
                       PopUntil(p, Len(p.items), {t \in p.all : Price[t] >= price}))
  /\ sent' = sent \cap p'.all
  /\ UNCHANGED <<lp, run, head, up, adds>>

rotate ==
  /\ up /\ Spend
  /\ \E outcome \in {"ok", "not written", "not opened"} : p' = Rotated(p, outcome)
  /\ UNCHANGED <<lp, run, head, sent, up, adds>>

\* Stop, or a crash: only the journal is left.
Stop ==
  /\ up /\ Spend
  /\ up' = FALSE
  /\ p' = [Empty EXCEPT !.file = p.file]
  /\ lp' = Idle /\ run' = None /\ sent' = {}
  /\ UNCHANGED <<head, adds>>

\* What the journal restores is announced before anyone can have subscribed.
Restart ==
  /\ ~up
  /\ up' = TRUE
  /\ p' = NewTxPool(p, head)
  /\ sent' = UNION {p'.pend[a] : a \in Accounts}
  /\ UNCHANGED <<lp, run, head, adds, events>>

Next ==
  \/ AddRemotes \/ AddLocals \/ requestPromoteExecutables \/ NewHead \/ launchRun \/ Reorg \/ Send
  \/ Evict \/ SetGasPrice \/ rotate \/ Stop \/ Restart

Spec == Init /\ [][Next]_vars

------------------------------------------------------------------------------
(* Properties. *)

Pending == UNION {p.pend[a] : a \in Accounts}

Future == UNION {p.que[a] : a \in Accounts}

\* The types.
TypeOK ==
  /\ p.all \subseteq Txs /\ p.file \subseteq Txs /\ Range(p.items) \subseteq Txs
  /\ \A a \in Accounts : \A t \in p.pend[a] \cup p.que[a] : Sender[t] = a
  /\ p.stales \in Int /\ p.st \in Blocks /\ p.writer \in {"file", "none", "null"}
  /\ p.locals \subseteq Accounts /\ Range(p.beats) \subseteq Accounts
  /\ IsInjective(p.beats)
  /\ head \in Blocks /\ up \in BOOLEAN /\ sent \subseteq Txs
  /\ lp.events \subseteq Txs /\ lp.dirty \subseteq Accounts /\ lp.launch \in BOOLEAN
  /\ lp.ask \in SUBSET Accounts \cup {None}

\* txLookup holds exactly what the pending and the queued lists hold, after every
\* section under the lock: nothing is forgotten in it and nothing is missing.
LookupIsLists == p.all = Pending \cup Future

\* An account never has the same nonce pending and queued.
OneListPerNonce == \A a \in Accounts : Nonces(p.pend[a]) \cap Nonces(p.que[a]) = {}

\* What is pending is executable as it stands: consecutive nonces from the one of
\* the state the pool works with.
PendingExecutable ==
  \A a \in Accounts :
    p.pend[a] # {} =>
      Nonces(p.pend[a]) = StateNonce[p.st][a]..(StateNonce[p.st][a] + Cardinality(p.pend[a]) - 1)

\* The nonce the pool offers for the next transaction follows what is pending, and leaves no
\* gap when nothing is.
NonceFollows ==
  \A a \in Accounts :
    LET next == StateNonce[p.st][a] + Cardinality(p.pend[a])
    IN  p.non[a] <= next /\ (p.pend[a] # {} => p.non[a] = next)

\* Every transaction of the pool can be found by its price.
Priced == p.all \subseteq Range(p.items)

\* What the price heap holds beyond the pool (stale entries, and second entries of
\* transactions that came back) is covered by the counter that has it rebuilt.
HeapBounded == Len(p.items) - Cardinality(p.all) <= p.stales

\* An account with a queue has a heartbeat, or it would be evicted at once.
QueueHasBeat == \A a \in Accounts : p.que[a] # {} => Contains(p.beats, a)

Limits ==
  /\ \/ PendingCount(p) <= GlobalSlots
     \/ \A a \in Accounts \ p.locals : Cardinality(p.pend[a]) <= AccountSlots
  /\ QueueCount(p) <= GlobalQueue \/ Future \subseteq local(p)

\* A run leaves the pending lists within the limit of the pool or every remote
\* account within its own, and the queue within its limit or all local.
RunTruncates == Reorg => Limits'

\* What is pending has been announced, or is among the events of this run or the
\* next, or was dropped from them by a reset that did not take place.
Announced ==
  Pending \subseteq p.mute \cup sent \cup lp.events \cup (IF run = None THEN {} ELSE run.events)

\* While the journal has a writer it holds every transaction a local account added
\* since it became local.
Journaled == p.writer = "file" => local(p) \ p.early \subseteq p.file

\* The transaction of a local account leaves the pool only for a better one of the
\* same nonce, because the chain has passed it, or because it can not be paid.
LocalsKept ==
  up /\ up' =>
    \A t \in local(p) \ p'.all :
      \/ Nonce[t] \in Nonces(p'.pend[Sender[t]] \cup p'.que[Sender[t]])
      \/ Nonce[t] < StateNonce[p'.st][Sender[t]]
      \/ t \in Unpayable(p', Sender[t], {t})

\* The lists, the lookup, the price heap, the nonces, the heartbeats, the journal and the
\* announcements of the pool agree after every section under its lock.
PoolConsistent ==
  /\ TypeOK
  /\ LookupIsLists /\ OneListPerNonce /\ PendingExecutable /\ NonceFollows
  /\ Priced /\ HeapBounded
  /\ QueueHasBeat /\ Announced /\ Journaled

\* What a step may take out of the pool: a run brings it within its limits, and local
\* transactions stay.
DropsRight == [][RunTruncates /\ LocalsKept]_vars

==============================================================================
