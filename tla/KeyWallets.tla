----------------------------- MODULE KeyWallets -----------------------------
(***************************************************************************)
(* The wallets of the key store and of the account manager                 *)
(* (accounts/keystore/keystore.go refreshWallets, Subscribe and updater;   *)
(* accounts/manager.go).  The accounts of the cache change at any time; a  *)
(* refresh replaces the wallets under the lock and sends its events after  *)
(* it, so that the updater and the operations of users can send at a time. *)
(* A wallet is its account, a pair <<file, address>>; files are numbers,   *)
(* ordered like the URLs.                                                  *)
(***************************************************************************)
EXTENDS Integers, Sequences, FiniteSets, SequencesExt, Absent

CONSTANTS WalletAccounts, \* pairs <<file, address>>
          Users,         \* goroutines that refresh after an operation of theirs
          MaxCacheSteps, \* bound: changes of the account cache
          UpdatesCap    \* capacity of the manager's updates channel

VARIABLES accs,     \* the accounts of the cache, at most one per file, sorted
          steps,
          wallets,  \* KeyStore.wallets
          subs,     \* the manager's subscription is live
          updating, \* the updater runs
          out,      \* refresher -> events it has still to send, None when not refreshing
          rank,     \* history: refresher -> position of its refresh among those sending
          updates,  \* Manager.updates
          am,       \* Manager.wallets
          amUp,     \* the manager's loop runs
          swapped   \* history: a refresh sent an event before an older one had sent all

walletVars == <<accs, steps, wallets, subs, updating, out, rank, updates, am, amUp, swapped>>

Refreshers == Users \cup {"updater", "manager"}

FirstAt(s, f) ==
  LET at == {i \in 1..Len(s) : s[i][1] >= f}
  IN  IF at = {} THEN Len(s) + 1 ELSE CHOOSE i \in at : \A j \in at : i <= j

\* merge
merge(s, w) == InsertAt(s, FirstAt(s, w[1]), w)

\* Mutant: the wallet before the position found goes.
drop_Before(s, w) ==
  LET i == FirstAt(s, w[1]) - 1
  IN  IF i = 0 THEN s ELSE RemoveAt(s, i)

\* drop: the wallet at the position found is removed, whatever its URL.
drop(s, w) ==
  LET i == FirstAt(s, w[1])
  IN  IF i > Len(s) THEN s ELSE RemoveAt(s, i)

------------------------------------------------------------------------------
(* refreshWallets *)

\* Mutant: wallets are compared by URL only.
Compare_ByURL(a, ws, r) == [ws |-> Tail(ws), r |-> [r EXCEPT !.wallets = Append(@, Head(ws))]]

\* The account has the URL of the first wallet: the wallet is kept if it wraps this
\* account; otherwise nothing happens to either now.
Compare(a, ws, r) ==
  IF Head(ws) = a THEN [ws |-> Tail(ws), r |-> [r EXCEPT !.wallets = Append(@, a)]]
  ELSE [ws |-> ws, r |-> r]

\* The loop over the accounts, ws the old wallets that are left.
RECURSIVE Transform(_, _, _)
Transform(as, ws, r) ==
  IF as = <<>>
  THEN [r EXCEPT !.events = @ \o [i \in 1..Len(ws) |-> <<"dropped", ws[i]>>]]
  ELSE LET a == Head(as)
           c == Compare(a, ws, r)
       IN  IF ws # <<>> /\ Head(ws)[1] < a[1]
           THEN Transform(as, Tail(ws), [r EXCEPT !.events = Append(@, <<"dropped", Head(ws)>>)])
           ELSE IF ws = <<>> \/ Head(ws)[1] > a[1]
           THEN Transform(Tail(as), ws, [wallets |-> Append(r.wallets, a),
                                         events |-> Append(r.events, <<"arrived", a>>)])
           ELSE Transform(Tail(as), c.ws, c.r)

Sending == {q \in Refreshers : out[q] # None /\ out[q] # <<>>}

\* The locked part of a refresh.
refreshWallets(r) ==
  LET t == Transform(accs, wallets, [wallets |-> <<>>, events |-> <<>>])
  IN  /\ wallets' = t.wallets
      /\ out' = [out EXCEPT ![r] = t.events]
      /\ rank' = [rank EXCEPT ![r] = IF t.events = <<>> THEN 0
                                   ELSE Max({rank[q] : q \in Sending} \cup {0}) + 1]

\* The cache changes: a scan, or a user's operation that is going to refresh.
CacheChange ==
  /\ steps < MaxCacheSteps /\ amUp
  /\ steps' = steps + 1
  /\ \/ \E w \in WalletAccounts \ ToSet(accs) :
          accs' = merge(SelectSeq(accs, LAMBDA x : x[1] # w[1]), w)
     \/ \E i \in 1..Len(accs) : accs' = RemoveAt(accs, i)
  /\ UNCHANGED <<wallets, subs, updating, out, rank, updates, am, amUp, swapped>>

\* After cache.add or cache.delete, and in Wallets.
UserRefresh(u) ==
  /\ out[u] = None /\ am # None
  /\ refreshWallets(u)
  /\ UNCHANGED <<accs, steps, subs, updating, updates, am, amUp, swapped>>

\* The updater wakes up on a change and every three seconds.
UpdaterRefresh ==
  /\ updating /\ out["updater"] = None
  /\ refreshWallets("updater")
  /\ UNCHANGED <<accs, steps, subs, updating, updates, am, amUp, swapped>>

\* Mutant: the channel has no limit.
HasRoom_Always == TRUE

HasRoom == Len(updates) < UpdatesCap

\* Feed.Send of one event: to the manager's channel, when it has room, or to nobody.
Send(r) ==
  /\ out[r] # None /\ out[r] # <<>>
  /\ IF subs THEN HasRoom /\ updates' = Append(updates, Head(out[r]))
     ELSE UNCHANGED updates
  /\ out' = [out EXCEPT ![r] = Tail(@)]
  /\ rank' = IF Tail(out[r]) = <<>> THEN [rank EXCEPT ![r] = 0] ELSE rank
  /\ swapped' = (swapped \/ \E q \in Sending : rank[q] < rank[r])
  /\ UNCHANGED <<accs, steps, wallets, subs, updating, am, amUp>>

\* Mutant: the updater does not look at its subscribers.
Returned_Again(r) ==
  /\ out[r] = <<>> /\ r # "manager"
  /\ out' = [out EXCEPT ![r] = None]
  /\ UNCHANGED <<accs, steps, wallets, subs, updating, rank, updates, am, amUp, swapped>>

\* The refresh returns; the updater stops when nobody subscribes any more.
Returned(r) ==
  /\ out[r] = <<>> /\ r # "manager"
  /\ out' = [out EXCEPT ![r] = None]
  /\ updating' = IF r = "updater" THEN subs ELSE updating
  /\ UNCHANGED <<accs, steps, wallets, subs, rank, updates, am, amUp, swapped>>

------------------------------------------------------------------------------
(* The manager. *)

\* NewManager: the wallets first ...
NewManager ==
  /\ am = None /\ out["manager"] = None
  /\ refreshWallets("manager")
  /\ UNCHANGED <<accs, steps, subs, updating, updates, am, amUp, swapped>>

\* ... then the subscription, which starts the updater.
Subscribe ==
  /\ am = None /\ out["manager"] = <<>>
  /\ am' = wallets /\ subs' = TRUE /\ updating' = TRUE
  /\ out' = [out EXCEPT !["manager"] = None]
  /\ UNCHANGED <<accs, steps, wallets, rank, updates, amUp, swapped>>

\* One turn of Manager.update.
Update ==
  /\ amUp /\ am # None /\ updates # <<>>
  /\ updates' = Tail(updates)
  /\ am' = IF Head(updates)[1] = "arrived" THEN merge(am, Head(updates)[2]) ELSE drop(am, Head(updates)[2])
  /\ UNCHANGED <<accs, steps, wallets, subs, updating, out, rank, amUp, swapped>>

\* Close ends the loop; the deferred Unsubscribe releases a sender that waits for room.
Close ==
  /\ amUp /\ am # None
  /\ amUp' = FALSE
  /\ UNCHANGED <<accs, steps, wallets, subs, updating, out, rank, updates, am, swapped>>

\* Mutant: Close does not unsubscribe.
Unsubscribe_Never == FALSE /\ UNCHANGED walletVars

Unsubscribe ==
  /\ ~amUp /\ subs
  /\ subs' = FALSE
  /\ UNCHANGED <<accs, steps, wallets, updating, out, rank, updates, am, amUp, swapped>>

WalletInit ==
  /\ accs \in {<<>>} \cup {<<w>> : w \in WalletAccounts}
  /\ steps = 0 /\ wallets = accs /\ subs = FALSE /\ updating = FALSE
  /\ out = [r \in Refreshers |-> None] /\ rank = [r \in Refreshers |-> 0]
  /\ updates = <<>> /\ am = None /\ amUp = TRUE /\ swapped = FALSE

RefresherNext(r) == Send(r) \/ Returned(r)

WalletNext ==
  \/ CacheChange \/ UpdaterRefresh \/ NewManager \/ Subscribe \/ Update \/ Close \/ Unsubscribe
  \/ \E u \in Users : UserRefresh(u)
  \/ \E r \in Refreshers : RefresherNext(r)

\* The goroutines run, and the updater's timer fires; nobody has to close the manager.
\* A sender waits for room among others, so its step has to be taken when it is
\* possible again and again.
WalletFairness ==
  /\ WF_walletVars(UpdaterRefresh) /\ WF_walletVars(NewManager)
  /\ WF_walletVars(Subscribe) /\ WF_walletVars(Update) /\ WF_walletVars(Unsubscribe)
  /\ \A r \in Refreshers : SF_walletVars(RefresherNext(r))

WalletSpec == WalletInit /\ [][WalletNext]_walletVars /\ WalletFairness

------------------------------------------------------------------------------
(* Properties. *)

WalletEvents == {"arrived", "dropped"} \X WalletAccounts

\* The lists hold accounts sorted by URL and the channel keeps to its capacity.
WalletTypeOK ==
  /\ \A s \in {wallets, accs} : s \in Seq(WalletAccounts)
  /\ \A i, j \in 1..Len(wallets) : i < j => wallets[i][1] < wallets[j][1]
  /\ am # None => am \in Seq(WalletAccounts)
  /\ updates \in Seq(WalletEvents) /\ Len(updates) <= UpdatesCap
  /\ \A r \in Refreshers : out[r] # None => out[r] \in Seq(WalletEvents)

\* When every event has been sent and taken, the manager's wallets are the key store's,
\* unless two refreshes sent their events out of order.
ManagerFollows ==
  /\ am # None /\ amUp /\ updates = <<>> /\ Sending = {} /\ ~swapped
  => am = wallets

\* The wallets become the accounts of the cache while the updater runs, also where a
\* file changed its account, which takes two refreshes.
WalletsFollow == <>[](amUp => wallets = accs)

\* No goroutine stays in a refresh for ever: neither a full channel nor the end of the
\* manager keeps an operation of a user from returning.
RefreshesReturn == \A u \in Users : out[u] # None ~> out[u] = None

\* The updater ends with its last subscriber.
UpdaterEnds == ~subs /\ ~amUp ~> ~updating
=============================================================================
