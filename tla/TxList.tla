------------------------------- MODULE TxList -------------------------------
(***************************************************************************)
(* core/tx_list.go: a txList over a txSortedMap.  items holds at most one  *)
(* transaction of a nonce; index is the heap of the nonces, of which only  *)
(* the content and the smallest one matter; cache is the sorted slice,     *)
(* which is determined by its content, or NoCache.                         *)
(***************************************************************************)
EXTENDS Integers, FiniteSets, Absent

CONSTANTS ListTxs, ListNonce, ListPrice, ListCost, ListGas, ListBump

VARIABLES strict, items, index, cache, costcap, gascap

listVars == <<strict, items, index, cache, costcap, gascap>>

NoCache == {None}

NonceSet == {ListNonce[t] : t \in ListTxs}

ASSUME ListAssumption ==
  /\ ListNonce \in [ListTxs -> Nat] /\ ListPrice \in [ListTxs -> Nat]
  /\ ListCost \in [ListTxs -> Nat] /\ ListGas \in [ListTxs -> Nat]
  /\ ListBump \in Nat /\ None \notin ListTxs

Get_Pricier(n) == {t \in items : ListNonce[t] = n /\ ListPrice[t] > 1}

Get(n) == {t \in items : ListNonce[t] = n}

Below(S, n) == {t \in S : ListNonce[t] < n}

\* The first k of a sorted slice are cut off, and the last k.
ListFront(S, k) == {t \in S : Cardinality(Below(S, ListNonce[t])) < k}

ListInit ==
  strict \in BOOLEAN /\ items = {} /\ index = {} /\ cache = NoCache /\ costcap = 0 /\ gascap = 0

\* Add refuses a transaction that is not priced above the one it replaces.
Outbid(t) ==
  \A old \in Get(ListNonce[t]) :
    ListPrice[t] > ListPrice[old] /\ ListPrice[t] >= (ListPrice[old] * (100 + ListBump)) \div 100

\* Mutant: only the cost limit of the first transaction is remembered.
ListAdd_NoCap(t) ==
  /\ Outbid(t)
  /\ items' = (items \ Get(ListNonce[t])) \cup {t}
  /\ index' = index \cup {ListNonce[t]}
  /\ cache' = NoCache
  /\ costcap' = IF items = {} /\ costcap < ListCost[t] THEN ListCost[t] ELSE costcap
  /\ gascap' = IF gascap < ListGas[t] THEN ListGas[t] ELSE gascap

Put(t) ==
  /\ items' = (items \ Get(ListNonce[t])) \cup {t}
  /\ index' = index \cup {ListNonce[t]}
  /\ cache' = NoCache

ListAdd(t) ==
  /\ Outbid(t) /\ Put(t)
  /\ costcap' = IF costcap < ListCost[t] THEN ListCost[t] ELSE costcap
  /\ gascap' = IF gascap < ListGas[t] THEN ListGas[t] ELSE gascap

\* Pops the index while it is below n, and shifts the cache by what was popped.
Forward(n) ==
  LET popped == {m \in index : m < n}
  IN  /\ items' = {t \in items : ListNonce[t] \notin popped}
      /\ index' = index \ popped
      /\ cache' = IF cache = NoCache THEN NoCache ELSE cache \ ListFront(cache, Cardinality(popped))
      /\ UNCHANGED <<costcap, gascap>>

\* Mutant: in a strict list the followers of what was removed stay.
Invalids_None(S, removed) == {}

Invalids(S, removed) ==
  IF ~strict THEN {} ELSE {t \in S : \E r \in removed : ListNonce[r] < ListNonce[t]}

\* What is left after the map was filtered.
reheap(rest) ==
  items' = rest /\ index' = {ListNonce[t] : t \in rest} /\ cache' = NoCache

\* Mutant: the cost is not looked at.
Filter_GasOnly(cost, gas) ==
  LET rest == {t \in items : ListGas[t] <= gas}
  IN  /\ costcap' = costcap /\ gascap' = IF gascap <= gas THEN gascap ELSE gas
      /\ reheap(rest)

\* The caps decide whether anything has to be looked at.
Filter(cost, gas) ==
  LET removed == {t \in items : ListGas[t] > gas \/ ListCost[t] > cost}
      rest == (items \ removed) \ Invalids(items \ removed, removed)
  IN  IF costcap <= cost /\ gascap <= gas THEN UNCHANGED <<items, index, cache, costcap, gascap>>
      ELSE /\ costcap' = cost /\ gascap' = gas
           /\ IF removed = {} THEN UNCHANGED <<items, index, cache>>
              ELSE reheap(rest)

\* Mutant: the cache is cut in front.
Cap_Front(n) ==
  LET keep == ListFront(items, n)
  IN  /\ Cardinality(items) > n
      /\ items' = keep
      /\ index' = {ListNonce[t] : t \in keep}
      /\ cache' = IF cache = NoCache THEN NoCache
                  ELSE cache \ ListFront(cache, Cardinality(items) - n)
      /\ UNCHANGED <<costcap, gascap>>

Cap(n) ==
  LET kept == {m \in index : Cardinality({k \in index : k < m}) < n}
  IN  /\ Cardinality(items) > n
      /\ items' = {t \in items : ListNonce[t] \in kept}
      /\ index' = kept
      /\ cache' = IF cache = NoCache THEN NoCache
                  ELSE ListFront(cache, Cardinality(cache) - (Cardinality(items) - n))
      /\ UNCHANGED <<costcap, gascap>>

\* Mutant: the index keeps the nonce.
ListRemove_Index(n) ==
  /\ Get(n) # {}
  /\ items' = items \ Get(n)
  /\ cache' = NoCache
  /\ UNCHANGED <<index, costcap, gascap>>

ListRemove(n) ==
  LET rest == (items \ Get(n)) \ Invalids(items \ Get(n), Get(n))
  IN  /\ Get(n) # {}
      /\ reheap(rest)
      /\ UNCHANGED <<costcap, gascap>>

\* The consecutive nonces from the smallest one, which is not above start.
Ready(start) ==
  LET run == {m \in index : \A k \in 0..m : (\E l \in index : l <= k) => k \in index}
  IN  /\ \E m \in index : m <= start
      /\ items' = {t \in items : ListNonce[t] \notin run}
      /\ index' = index \ run
      /\ cache' = NoCache
      /\ UNCHANGED <<costcap, gascap>>

Flatten ==
  /\ cache = NoCache
  /\ cache' = items
  /\ UNCHANGED <<items, index, costcap, gascap>>

ListNext ==
  /\ strict' = strict
  /\ \/ \E t \in ListTxs : ListAdd(t) \/ Filter(ListCost[t], ListGas[t])
     \/ \E n \in NonceSet : Forward(n) \/ Cap(n) \/ ListRemove(n) \/ Ready(n)
     \/ Flatten

ListSpec == ListInit /\ [][ListNext]_listVars

------------------------------------------------------------------------------
(* Properties. *)

\* The types.  A nonce occurs once in the map, also after Add replaced the
\* transaction of a nonce.
ListTypeOK ==
  /\ strict \in BOOLEAN /\ items \subseteq ListTxs /\ index \subseteq NonceSet
  /\ cache = NoCache \/ cache \subseteq ListTxs
  /\ costcap \in Nat /\ gascap \in Nat
  /\ \A t, u \in items : ListNonce[t] = ListNonce[u] => t = u

\* Every operation leaves in the heap exactly the nonces of the map, or a later
\* pop would answer for a transaction that is not there.
IndexMatches == index = {ListNonce[t] : t \in items}

\* A cache that was shifted instead of rebuilt is what sorting the map would give.
CacheFresh == cache # NoCache => cache = items

\* The short cut of Filter is sound: the caps are never below what is in the list.
CapsBound == \A t \in items : ListCost[t] <= costcap /\ ListGas[t] <= gascap

\* The map, the heap, the cached order and the caps of a list agree.
ListConsistent == ListTypeOK /\ IndexMatches /\ CacheFresh /\ CapsBound

\* The invariant of the proof: a list is finite.
ListInv == IsFiniteSet(items) /\ ListConsistent

\* After Filter nothing in the list is over the limits it was given.
FilterComplete ==
  \A x \in ListTxs : Filter(ListCost[x], ListGas[x]) =>
    \A t \in items' : ListCost[t] <= ListCost[x] /\ ListGas[t] <= ListGas[x]

\* A strict list has no gap where Filter or Remove took something out of its middle:
\* what stays is below what went.
StrictCut ==
  /\ strict
  /\ (\E x \in ListTxs : Filter(ListCost[x], ListGas[x])) \/ (\E n \in NonceSet : ListRemove(n))
  => \A t \in items', r \in items \ items' : ListNonce[t] < ListNonce[r]

\* What Filter and Remove cut out is neither too little nor leaves a gap.
CutsComplete == [][FilterComplete /\ StrictCut]_listVars
==============================================================================
