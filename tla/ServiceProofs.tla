---------------------------- MODULE ServiceProofs ----------------------------
(***************************************************************************)
(* Services of a node, for every value of their constants: the unlocked    *)
(* keys of the key store, the back end with its shards' pools and journal, *)
(* and the recovery and the cache of the senders of transactions.          *)
(*                                                                         *)
(* Keys: for every set of clients, passphrases and files and any number of *)
(* calls, the key in the map of unlocked keys is usable, a timed unlock    *)
(* has a goroutine that will end it, and no other goroutine ends it.       *)
(***************************************************************************)
EXTENDS KeyLock, Backend, TxSigning, TLAPS

Instance == [timed : BOOLEAN, abort : BOOLEAN, zero : BOOLEAN]

\* The instances that the map, the timers and the calls of Lock refer to exist, and only timed
\* ones have a timer.
InstancesExist ==
  /\ keys \in Seq(Instance)
  /\ unlocked # None => unlocked \in 1..Len(keys)
  /\ timers \subseteq 1..Len(keys)
  /\ \A u \in timers : keys[u].timed

\* Lock expires an instance that exists, and what is stored is encrypted with a passphrase.
Known(v) ==
  /\ v \in CallRecord
  /\ v.op = "lock" => v.inst \in 1..Len(keys)
  /\ v.op \in {"update", "import"} => v.new \in Passes
  /\ v.pc = "temp" => v.op \in {"update", "import"}

CallsKnown == DOMAIN call = Clients /\ \A c \in Clients : call[c] # None => Known(call[c])

UnlockInv == InstancesExist /\ CallsKnown /\ SignsWithKey /\ WillExpire

------------------------------------------------------------------------------
\* Zeroing one key, or telling its goroutine to end, leaves the others as they are.
LEMMA MarkType ==
  ASSUME keys \in Seq(Instance), NEW u \in 1..Len(keys), NEW k,
         k = [keys EXCEPT ![u].zero = TRUE] \/ k = [keys EXCEPT ![u].abort = TRUE]
  PROVE  /\ k \in Seq(Instance) /\ Len(k) = Len(keys)
         /\ \A i \in 1..Len(keys) : k[i].timed = keys[i].timed
<1>1. keys[u] \in Instance
  OBVIOUS
<1>2. PICK r \in {[keys[u] EXCEPT !.zero = TRUE], [keys[u] EXCEPT !.abort = TRUE]} : k = [keys EXCEPT ![u] = r]
  BY Zenon
<1>3. r \in Instance /\ r.timed = keys[u].timed
  BY <1>1, Zenon DEF Instance
<1>4. /\ [keys EXCEPT ![u] = r] \in Seq(Instance) /\ Len([keys EXCEPT ![u] = r]) = Len(keys)
      /\ \A i \in 1..Len(keys) : [keys EXCEPT ![u] = r][i] = IF i = u THEN r ELSE keys[i]
  BY <1>3
<1> QED
  BY <1>2, <1>3, <1>4, Zenon

\* A call that neither starts nor ends an unlock: the keys stay, and a call of Lock is one
\* that was known.
LEMMA OthersKeep ==
  ASSUME UnlockInv, UNCHANGED <<unlocked, keys, timers>>, CallsKnown'
  PROVE  UnlockInv'
BY Zenon DEF UnlockInv, InstancesExist, SignsWithKey, WillExpire

\* expire zeroes the key it was given and removes it from the map only if it is there.
LEMMA expireKeeps ==
  ASSUME UnlockInv, NEW u \in 1..Len(keys), expire(u)
  PROVE  /\ keys' \in Seq(Instance) /\ Len(keys') = Len(keys)
         /\ \A i \in 1..Len(keys) : keys'[i].timed = keys[i].timed
         /\ unlocked' # None => unlocked' = unlocked /\ keys' = keys /\ unlocked # u
<1>1. CASE unlocked = u
  <2>1. keys' = [keys EXCEPT ![u].zero = TRUE] /\ unlocked' = None
    BY <1>1, Zenon DEF expire
  <2>2. keys \in Seq(Instance)
    BY Zenon DEF UnlockInv, InstancesExist
  <2> QED
    BY <2>1, <2>2, MarkType, Zenon
<1>2. CASE unlocked # u
  BY <1>2, Zenon DEF UnlockInv, InstancesExist, expire
<1> QED
  BY <1>1, <1>2, Zenon

\* More keys do not make a call unknown.
LEMMA KnownStays ==
  ASSUME CallsKnown, Len(keys) \in Nat, Len(keys') \in Nat, Len(keys') >= Len(keys),
         call' = call \/ \E c \in Clients : call' = [call EXCEPT ![c] = None]
  PROVE  CallsKnown'
<1>1. DOMAIN call' = Clients /\ \A d \in Clients : call'[d] = None \/ call'[d] = call[d]
  BY Zenon DEF CallsKnown
<1>2. 1..Len(keys) \subseteq 1..Len(keys')
  OBVIOUS
<1>3. \A d \in Clients : call[d] # None => Known(call[d])
  BY Zenon DEF CallsKnown
<1>4. ASSUME NEW d \in Clients, call'[d] # None PROVE Known(call[d])'
  <2>1. call'[d] = call[d] /\ Known(call[d])
    BY <1>1, <1>3, <1>4, Zenon
  <2> QED
    BY <1>2, <2>1, Zenon DEF Known
<1> QED
  BY <1>1, <1>4, Zenon DEF CallsKnown

\* A step of one client that leaves the map of unlocked keys alone.
LEMMA CallKeeps ==
  ASSUME UnlockInv, UNCHANGED <<unlocked, keys, timers>>, NEW c \in Clients, NEW v,
         call' = [call EXCEPT ![c] = v], v # None => Known(v)
  PROVE  UnlockInv'
<1>1. CallsKnown
  BY Zenon DEF UnlockInv
<1>2. DOMAIN call' = Clients /\ \A d \in Clients : call'[d] = IF d = c THEN v ELSE call[d]
  BY <1>1, Zenon DEF CallsKnown
<1>3. \A d \in Clients : call'[d] # None => Known(call[d])'
  BY <1>1, <1>2, Zenon DEF CallsKnown, Known
<1>4. CallsKnown'
  BY <1>2, <1>3, Zenon DEF CallsKnown
<1> QED
  BY <1>4, OthersKeep, Zenon

\* TimedUnlock replaces the key, with a goroutine when it is timed.
LEMMA TimedUnlockKeeps ==
  ASSUME UnlockInv, NEW c \in Clients, TimedUnlock(c)
  PROVE  UnlockInv'
<1>1. call' = [call EXCEPT ![c] = None]
  BY Zenon DEF TimedUnlock, Return
<1>2. CASE unlocked # None /\ ~keys[unlocked].timed
  BY <1>1, <1>2, CallKeeps, Zenon DEF TimedUnlock
<1>3. CASE ~(unlocked # None /\ ~keys[unlocked].timed)
  <2> DEFINE old == IF unlocked = None THEN keys ELSE [keys EXCEPT ![unlocked].abort = TRUE]
             timed == call[c].op = "timed unlock"
             r == [timed |-> timed, abort |-> FALSE, zero |-> FALSE]
  <2>1. /\ keys' = Append(old, r) /\ unlocked' = Len(keys) + 1
        /\ timers' = IF timed THEN timers \cup {Len(keys) + 1} ELSE timers
    BY <1>3, Zenon DEF TimedUnlock
  <2>2. keys \in Seq(Instance) /\ Len(keys) \in Nat /\ (unlocked # None => unlocked \in 1..Len(keys))
    BY DEF UnlockInv, InstancesExist
  <2>3. old \in Seq(Instance) /\ Len(old) = Len(keys) /\ \A i \in 1..Len(keys) : old[i].timed = keys[i].timed
    BY <2>2, MarkType, Zenon
  <2>4. r \in Instance
    BY Zenon DEF Instance
  <2>r. (timed => r.timed) /\ ~r.abort /\ ~r.zero /\ (r.timed => timed)
    BY Zenon
  <2> HIDE DEF old, r
  <2>5. /\ keys' \in Seq(Instance) /\ Len(keys') = Len(keys) + 1 /\ keys'[Len(keys) + 1] = r
        /\ \A i \in 1..Len(keys) : keys'[i] = old[i]
    <3>1. keys' = Append(old, r)
      BY <2>1, Zenon
    <3>2. old \in Seq(Instance) /\ Len(old) = Len(keys)
      BY <2>3, Zenon
    <3> QED
      BY <2>4, <3>1, <3>2
  <2> HIDE DEF timed
  <2>6. timers \subseteq 1..Len(keys) /\ \A u \in timers : keys[u].timed
    BY Zenon DEF UnlockInv, InstancesExist
  <2>7. \A u \in timers' : u \in 1..Len(keys') /\ keys'[u].timed
    BY <2>1, <2>2, <2>3, <2>r, <2>5, <2>6
  <2>8. InstancesExist'
    BY <2>1, <2>2, <2>5, <2>7 DEF InstancesExist
  <2>9. CallsKnown'
    <3>1. CallsKnown /\ Len(keys') \in Nat /\ Len(keys') >= Len(keys)
      BY <2>2, <2>5 DEF UnlockInv
    <3> QED
      BY <1>1, <2>2, <3>1, KnownStays, Zenon
  <2>10. SignsWithKey' /\ WillExpire'
    BY <2>1, <2>r, <2>5, Zenon DEF SignsWithKey, WillExpire
  <2> QED
    BY <2>8, <2>9, <2>10, Zenon DEF UnlockInv
<1> QED
  BY <1>2, <1>3, Zenon

\* Lock ends the unlock of the key that it read from the map.
LEMMA LockExpiresKeeps ==
  ASSUME UnlockInv, NEW c \in Clients, LockExpires(c)
  PROVE  UnlockInv'
<1>1. call' = [call EXCEPT ![c] = None] /\ timers' = timers /\ call[c].inst \in 1..Len(keys)
  BY Zenon DEF LockExpires, Return, UnlockInv, CallsKnown, Known
<1>2. CASE UNCHANGED <<unlocked, keys>>
  BY <1>1, <1>2, CallKeeps, Zenon
<1>3. CASE expire(call[c].inst)
  <2>1. /\ keys' \in Seq(Instance) /\ Len(keys') = Len(keys)
        /\ \A i \in 1..Len(keys) : keys'[i].timed = keys[i].timed
        /\ unlocked' # None => unlocked' = unlocked /\ keys' = keys
    BY <1>1, <1>3, expireKeeps, Zenon
  <2>2. InstancesExist'
    BY <1>1, <2>1, Zenon DEF UnlockInv, InstancesExist
  <2>3. CallsKnown'
    <3>1. CallsKnown /\ Len(keys) \in Nat /\ Len(keys') \in Nat /\ Len(keys') >= Len(keys)
      BY <2>1 DEF UnlockInv, InstancesExist
    <3> QED
      BY <1>1, <3>1, KnownStays, Zenon
  <2>4. SignsWithKey' /\ WillExpire'
    BY <1>1, <2>1, Zenon DEF UnlockInv, SignsWithKey, WillExpire
  <2> QED
    BY <2>2, <2>3, <2>4 DEF UnlockInv
<1> QED
  BY <1>2, <1>3, Zenon DEF LockExpires

\* The goroutine of a timed unlock ends its own key.
LEMMA ExpiresKeeps ==
  ASSUME UnlockInv, NEW u \in timers, Expires(u)
  PROVE  UnlockInv'
<1>1. call' = call /\ timers' = timers \ {u} /\ u \in 1..Len(keys)
  BY Zenon DEF Expires, UnlockInv, InstancesExist
<1>2. CASE keys[u].abort /\ UNCHANGED <<unlocked, keys>>
  <2>1. unlocked # None /\ keys[unlocked].timed => unlocked # u
    BY <1>2, Zenon DEF UnlockInv, WillExpire
  <2> QED
    BY <1>1, <1>2, <2>1, Zenon DEF UnlockInv, InstancesExist, CallsKnown, Known, SignsWithKey, WillExpire
<1>3. CASE expire(u)
  <2>1. /\ keys' \in Seq(Instance) /\ Len(keys') = Len(keys)
        /\ \A i \in 1..Len(keys) : keys'[i].timed = keys[i].timed
        /\ unlocked' # None => unlocked' = unlocked /\ keys' = keys /\ unlocked # u
    BY <1>1, <1>3, expireKeeps, Zenon
  <2>2. InstancesExist'
    BY <1>1, <2>1, Zenon DEF UnlockInv, InstancesExist
  <2>3. CallsKnown'
    <3>1. CallsKnown /\ Len(keys) \in Nat /\ Len(keys') \in Nat /\ Len(keys') >= Len(keys)
      BY <2>1 DEF UnlockInv, InstancesExist
    <3> QED
      BY <1>1, <3>1, KnownStays, Zenon
  <2>4. SignsWithKey' /\ WillExpire'
    BY <1>1, <2>1, Zenon DEF UnlockInv, SignsWithKey, WillExpire
  <2> QED
    BY <2>2, <2>3, <2>4, Zenon DEF UnlockInv
<1> QED
  BY <1>2, <1>3, Zenon DEF Expires

\* What StoreKey is about to move into place.
LEMMA TempKnown ==
  ASSUME UnlockInv, NEW c \in Clients, WriteTemporary(c)
  PROVE  \E v : /\ call' = [call EXCEPT ![c] = v] /\ Known(v)
               /\ v.op = call[c].op /\ v.path = call[c].path /\ v.pc = "temp"
<1>1. PICK ok \in BOOLEAN :
        call' = [call EXCEPT ![c] = [call[c] EXCEPT !.pc = "temp",
                   !.temp = [EncryptKey("own", call[c].new) EXCEPT !.mac = ok]]]
  BY Zenon DEF WriteTemporary, UnlockInv, CallsKnown
<1> DEFINE t == [EncryptKey("own", call[c].new) EXCEPT !.mac = ok]
           v == [call[c] EXCEPT !.pc = "temp", !.temp = t]
<1>2. Known(call[c]) /\ call[c].op \in {"update", "import"}
  BY Zenon DEF WriteTemporary, UnlockInv, CallsKnown
<1>3. t \in KeyFile
  BY <1>2, Zenon DEF EncryptKey, KeyFile, Known
<1> HIDE DEF t
<1>4. Known(v) /\ v.op = call[c].op /\ v.path = call[c].path /\ v.pc = "temp"
  BY <1>2, <1>3, Zenon DEF Known, CallRecord
<1> HIDE DEF v
<1>5. call' = [call EXCEPT ![c] = v]
  BY <1>1, Zenon DEF v, t
<1> QED
  BY <1>4, <1>5, Zenon

\* Every step of a call keeps the invariant.
LEMMA ClientKeeps ==
  ASSUME UnlockInv, NEW c \in Clients, ClientNext(c)
  PROVE  UnlockInv'
<1>0. call[c] # None => Known(call[c])
  BY Zenon DEF UnlockInv, CallsKnown
<1>1. CASE Decrypted(c)
  <2>1. PICK op \in {"unlock", "timed unlock", "update", "delete", "sign"}, auth \in Passes, new \in Passes \cup {None} :
          Begin(c, Call(op, auth, new)) /\ (op = "update" => new \in Passes)
    BY <1>1, Zenon DEF Decrypted
  <2>2. PICK p \in Paths : call' = [call EXCEPT ![c] = [Call(op, auth, new) EXCEPT !.path = p]]
    BY <2>1, Zenon DEF Begin
  <2>3. Known([Call(op, auth, new) EXCEPT !.path = p])
    BY <2>1, Zenon DEF Call, Known, CallRecord
  <2> QED
    BY <2>1, <2>2, <2>3, CallKeeps, Zenon DEF Begin
<1>2. CASE TimedUnlock(c) \/ LockExpires(c)
  BY <1>2, TimedUnlockKeeps, LockExpiresKeeps, Zenon
<1>3. CASE LockReads(c)
  <2> DEFINE v == [Call("lock", None, None) EXCEPT !.inst = unlocked]
  <2>1. unlocked \in 1..Len(keys) /\ Len(keys) \in Nat
    BY <1>3 DEF LockReads, UnlockInv, InstancesExist
  <2>2. Known(v)
    <3>1. ASSUME NEW u \in 1..Len(keys), u \in Nat PROVE Known([Call("lock", None, None) EXCEPT !.inst = u])
      BY <3>1, Zenon DEF Call, Known, CallRecord
    <3>2. unlocked \in 1..Len(keys) /\ unlocked \in Nat
      BY <2>1
    <3> QED
      BY <3>1, <3>2, Zenon
  <2> HIDE DEF v
  <2>3. call' = [call EXCEPT ![c] = v]
    BY <1>3, Zenon DEF LockReads, v
  <2> QED
    BY <1>3, <2>2, <2>3, CallKeeps, Zenon DEF LockReads
<1>4. CASE SignWithPassphrase(c)
  BY <1>4, CallKeeps, Zenon DEF SignWithPassphrase, Return
<1>5. CASE WriteTemporary(c)
  <2>1. PICK v : call' = [call EXCEPT ![c] = v] /\ Known(v)
    BY <1>5, TempKnown, Zenon
  <2> QED
    BY <1>5, <2>1, CallKeeps, Zenon DEF WriteTemporary
<1>6. CASE Rename(c) \/ DeleteFile(c)
  <2> DEFINE v == [call[c] EXCEPT !.pc = "cache"]
  <2>1. Known(call[c])
    BY <1>0, <1>6, Zenon DEF Rename, DeleteFile
  <2>2. Known(v)
    <3>1. PICK r \in CallRecord : r = call[c]
      BY <2>1, Zenon DEF Known
    <3>2. PICK w : w = [r EXCEPT !.pc = "cache"]
      BY Zenon
    <3>3. w \in CallRecord /\ w.pc = "cache" /\ w.op = r.op /\ w.inst = r.inst /\ w.new = r.new
      BY <3>2 DEF CallRecord
    <3>4. v = w /\ Known(r)
      BY <2>1, <3>1, <3>2, Zenon
    <3>5. "cache" # "temp"
      OBVIOUS
    <3> QED
      BY <3>3, <3>4, <3>5, Zenon DEF Known
  <2> HIDE DEF v
  <2>3. call' = [call EXCEPT ![c] = v] \/ call' = [call EXCEPT ![c] = None]
    BY <1>6, Zenon DEF Rename, DeleteFile, Return, v
  <2> QED
    BY <1>6, <2>2, <2>3, CallKeeps, Zenon DEF Rename, DeleteFile
<1>8. CASE ChangeCached(c)
  BY <1>8, CallKeeps, Zenon DEF ChangeCached, Return
<1>9. CASE ImportChecks(c)
  <2>1. PICK p \in Paths, new \in Passes :
          call' = [call EXCEPT ![c] = [Call("import", None, new) EXCEPT !.path = p]]
    BY <1>9, Zenon DEF ImportChecks
  <2>2. Known([Call("import", None, new) EXCEPT !.path = p])
    BY Zenon DEF Call, Known, CallRecord
  <2> QED
    BY <1>9, <2>1, <2>2, CallKeeps, Zenon DEF ImportChecks
<1> QED
  BY <1>1, <1>2, <1>3, <1>4, <1>5, <1>6, <1>8, <1>9, Zenon DEF ClientNext

\* Every step keeps the invariant: calls, goroutines and the end of the program.
LEMMA UnlockStep == UnlockInv /\ [LockNext]_lockVars => UnlockInv'
<1> SUFFICES ASSUME UnlockInv, [LockNext]_lockVars PROVE UnlockInv'
  BY Zenon
<1>1. CASE \E c \in Clients : ClientNext(c)
  BY <1>1, ClientKeeps, Zenon
<1>2. CASE \E u \in timers : Expires(u)
  BY <1>2, ExpiresKeeps, Zenon
<1>3. CASE Scanned \/ UNCHANGED lockVars
  <2>1. UNCHANGED <<unlocked, keys, timers, call>>
    BY <1>3, Zenon DEF Scanned, lockVars
  <2> QED
    BY <2>1, Zenon DEF UnlockInv, InstancesExist, CallsKnown, Known, SignsWithKey, WillExpire
<1>4. CASE CrashKeys
  BY <1>4 DEF CrashKeys, UnlockInv, InstancesExist, CallsKnown, Known, SignsWithKey, WillExpire
<1> QED
  BY <1>1, <1>2, <1>3, <1>4, Zenon DEF LockNext

\* keystore.go: the key that SignHash and SignTx find in the map was not zeroed, and an address
\* unlocked for a time has a goroutine that will lock it and was not told to end, for every set
\* of clients and any number of calls.
THEOREM UnlockedIsUsable == LockSpec => [](SignsWithKey /\ WillExpire)
<1>1. LockInit => UnlockInv
  BY DEF LockInit, UnlockInv, InstancesExist, CallsKnown, SignsWithKey, WillExpire
<1>2. UnlockInv => SignsWithKey /\ WillExpire
  BY Zenon DEF UnlockInv
<1> QED
  BY <1>1, <1>2, UnlockStep, PTL DEF LockSpec

\* An address unlocked for good is locked by Lock or the end of the program only: the goroutine
\* of an earlier timed unlock expires nothing but its own key.
THEOREM UnlockedForGood == LockSpec => StaysUnlocked
<1> DEFINE OnlyLock == unlocked # None /\ ~keys[unlocked].timed /\ unlocked' # unlocked
                   => CrashKeys \/ \E c \in Clients : call[c] # None /\ call[c].op = "lock" /\ call'[c] = None
<1>1. LockInit => UnlockInv
  BY DEF LockInit, UnlockInv, InstancesExist, CallsKnown, SignsWithKey, WillExpire
<1>2. UnlockInv /\ [LockNext]_lockVars => [OnlyLock]_lockVars
  <2> SUFFICES ASSUME UnlockInv, LockNext, unlocked # None, ~keys[unlocked].timed, unlocked' # unlocked
               PROVE  CrashKeys \/ \E c \in Clients : call[c] # None /\ call[c].op = "lock" /\ call'[c] = None
    BY Zenon
  <2>1. CASE \E c \in Clients : ClientNext(c)
    <3>1. PICK c \in Clients : ClientNext(c)
      BY <2>1, Zenon
    <3>2. LockExpires(c)
      BY <3>1, Zenon DEF ClientNext, Decrypted, Begin, TimedUnlock, LockReads, SignWithPassphrase, WriteTemporary,
                  Rename, DeleteFile, ChangeCached, ImportChecks
    <3> QED
      BY <3>2, Zenon DEF LockExpires, Return, UnlockInv, CallsKnown
  <2>2. CASE \E u \in timers : Expires(u)
    BY <2>2, Zenon DEF Expires, expire, UnlockInv, InstancesExist
  <2> QED
    BY <2>1, <2>2, Zenon DEF LockNext, Scanned
<1> QED
  BY <1>1, <1>2, UnlockStep, PTL DEF LockSpec, StaysUnlocked
------------------------------------------------------------------------------
(* The files and the import of a key. *)

Importing(c) == call[c] # None /\ call[c].op = "import"

StoreShape == DOMAIN files = Paths /\ DOMAIN call = Clients /\ cached \subseteq Paths /\ back \in BOOLEAN

\* Every call but Lock is for a file; only Import and Delete go on to the cache.
PathsKnown ==
  \A c \in Clients : call[c] # None =>
    /\ call[c].path \in Paths \/ (call[c].op = "lock" /\ call[c].path = None)
    /\ call[c].pc = "cache" => call[c].op \in {"import", "delete"}

\* importMu is held by the one client that imports.
MutexHeld ==
  /\ importMu \in Clients \cup {None}
  /\ importMu # None => Importing(importMu)
  /\ \A c \in Clients : Importing(c) => importMu = c

\* Two files are never there; the one that is there is cached or about to be.
OneFile ==
  /\ \A p, q \in Paths : files[p] # None /\ files[q] # None => p = q
  /\ \A p \in Paths : files[p] # None =>
       p \in cached \/ \E c \in Clients : Importing(c) /\ call[c].pc = "cache" /\ call[c].path = p

\* While a key is imported there is no file, and nobody is at work on the new one.
Nothing ==
  \A c \in Clients : Importing(c) /\ call[c].pc # "cache" =>
    /\ \A p \in Paths : files[p] = None
    /\ \A d \in Clients : d # c /\ call[d] # None => call[d].path # call[c].path

\* Delete takes from the cache what is no longer a file.
Gone ==
  \A c \in Clients : call[c] # None /\ call[c].op = "delete" /\ call[c].pc = "cache" =>
    files[call[c].path] = None

StoreInv ==
  /\ StoreShape /\ PathsKnown /\ MutexHeld /\ FilesDecrypt
  /\ ~back => OneFile /\ Nothing /\ Gone

\* A step that leaves calls, files and cache alone.
LEMMA StoreFrame ==
  ASSUME StoreInv, UNCHANGED <<files, cached, call, importMu, back>>
  PROVE  StoreInv'
<1>1. StoreShape' /\ PathsKnown'
  BY Zenon DEF StoreInv, StoreShape, PathsKnown
<1>2. MutexHeld'
  BY Zenon DEF StoreInv, MutexHeld, Importing
<1>3. FilesDecrypt'
  BY Zenon DEF StoreInv, FilesDecrypt
<1>4. ~back' => OneFile' /\ Nothing' /\ Gone'
  BY DEF StoreInv, OneFile, Nothing, Gone, Importing
<1> QED
  BY <1>1, <1>2, <1>3, <1>4, Zenon DEF StoreInv

\* A call that begins for a file that is there, or a call of Lock.
LEMMA BeginStores ==
  ASSUME StoreInv, NEW c \in Clients, call[c] = None, NEW v, call' = [call EXCEPT ![c] = v],
         v.op # "import", v.pc = "got",
         \/ v.path \in Paths /\ files[v.path] # None
         \/ v.op = "lock" /\ v.path = None,
         UNCHANGED <<files, cached, importMu, back>>
  PROVE  StoreInv'
<1>1. DOMAIN call' = Clients /\ \A d \in Clients : call'[d] = IF d = c THEN v ELSE call[d]
  BY Zenon DEF StoreInv, StoreShape
<1>2. StoreShape'
  BY <1>1, Zenon DEF StoreInv, StoreShape
<1>3. PathsKnown'
  BY <1>1 DEF StoreInv, PathsKnown
<1>4. \A d \in Clients : Importing(d)' <=> Importing(d)
  BY <1>1, Zenon DEF Importing
<1>5. \A d \in Clients : Importing(d) => d # c /\ call'[d] = call[d]
  BY <1>1, Zenon DEF Importing
<1>6. MutexHeld'
  <2>1. ASSUME importMu # None PROVE Importing(importMu)'
    <3>1. PICK h \in Clients : h = importMu
      BY <2>1, Zenon DEF StoreInv, MutexHeld
    <3>2. Importing(h)
      BY <2>1, <3>1, Zenon DEF StoreInv, MutexHeld
    <3>3. call'[h] = call[h] /\ importMu' = h
      BY <1>5, <3>1, <3>2, Zenon
    <3> QED
      BY <3>2, <3>3, Zenon DEF Importing
  <2> QED
    BY <1>4, <2>1, Zenon DEF StoreInv, MutexHeld
<1>7. FilesDecrypt'
  BY Zenon DEF StoreInv, FilesDecrypt
<1>8. ASSUME ~back PROVE OneFile' /\ Nothing' /\ Gone'
  <2>1. OneFile'
    BY <1>4, <1>5, <1>8 DEF StoreInv, OneFile
  <2>2. Nothing'
    <3> SUFFICES ASSUME NEW d \in Clients, Importing(d), call[d].pc # "cache", call'[d] = call[d], d # c
                 PROVE  /\ \A p \in Paths : files[p] = None
                        /\ \A e \in Clients : e # d /\ call'[e] # None => call'[e].path # call'[d].path
      BY <1>4, <1>5, Zenon DEF Nothing
    <3>1. /\ \A p \in Paths : files[p] = None
          /\ \A e \in Clients : e # d /\ call[e] # None => call[e].path # call[d].path
      BY <1>8, Zenon DEF StoreInv, Nothing
    <3>2. v.path = None /\ call[d].path # None
      BY <3>1, LockAssumption, Zenon DEF StoreInv, PathsKnown, Importing
    <3> QED
      BY <1>1, <3>1, <3>2, Zenon
  <2>3. Gone'
    BY <1>1, <1>8 DEF StoreInv, Gone
  <2> QED
    BY <2>1, <2>2, <2>3, Zenon
<1> QED
  BY <1>2, <1>3, <1>6, <1>7, <1>8, Zenon DEF StoreInv

\* A call other than Import that returns.
LEMMA ReturnStores ==
  ASSUME StoreInv, NEW c \in Clients, ~Importing(c), call' = [call EXCEPT ![c] = None],
         UNCHANGED <<files, cached, importMu, back>>
  PROVE  StoreInv'
<1>1. DOMAIN call' = Clients /\ \A d \in Clients : call'[d] = IF d = c THEN None ELSE call[d]
  BY Zenon DEF StoreInv, StoreShape
<1>2. StoreShape' /\ PathsKnown'
  BY <1>1, Zenon DEF StoreInv, StoreShape, PathsKnown
<1>3. \A d \in Clients : Importing(d)' <=> Importing(d)
  BY <1>1, Zenon DEF Importing
<1>4. \A d \in Clients : Importing(d) => call'[d] = call[d]
  BY <1>1, Zenon
<1>5. MutexHeld'
  BY <1>3, <1>4, Zenon DEF StoreInv, MutexHeld, Importing
<1>6. FilesDecrypt'
  BY Zenon DEF StoreInv, FilesDecrypt
<1>7. ASSUME ~back PROVE OneFile' /\ Nothing' /\ Gone'
  <2>1. OneFile'
    BY <1>3, <1>4, <1>7 DEF StoreInv, OneFile
  <2>2. Nothing'
    BY <1>1, <1>3, <1>4, <1>7 DEF StoreInv, Nothing
  <2>3. Gone'
    BY <1>1, <1>7 DEF StoreInv, Gone
  <2> QED
    BY <2>1, <2>2, <2>3, Zenon
<1> QED
  BY <1>2, <1>5, <1>6, <1>7, Zenon DEF StoreInv

\* StoreKey writes the temporary file; no other client sees it.
LEMMA WriteStores ==
  ASSUME UnlockInv, StoreInv, NEW c \in Clients, WriteTemporary(c)
  PROVE  StoreInv'
<1>0. PICK v : /\ call' = [call EXCEPT ![c] = v] /\ Known(v)
               /\ v.op = call[c].op /\ v.path = call[c].path /\ v.pc = "temp"
  BY TempKnown, Zenon
<1>1. /\ call[c] # None /\ call[c].op \in {"update", "import"} /\ call[c].pc = "got"
      /\ UNCHANGED <<files, cached, importMu, back>>
  BY Zenon DEF WriteTemporary
<1>2. DOMAIN call' = Clients /\ \A d \in Clients : call'[d] = IF d = c THEN v ELSE call[d]
  BY <1>0, Zenon DEF StoreInv, StoreShape
<1>3. v # None
  BY <1>0, LockAssumption, Zenon DEF Known
<1>4. StoreShape'
  BY <1>1, <1>2, Zenon DEF StoreInv, StoreShape
<1>5. PathsKnown'
  BY <1>0, <1>1, <1>2 DEF StoreInv, PathsKnown
<1>6. /\ \A d \in Clients : call'[d] # None <=> call[d] # None
      /\ \A d \in Clients : call'[d].op = call[d].op /\ call'[d].path = call[d].path
      /\ \A d \in Clients : call'[d].pc = "cache" <=> call[d].pc = "cache"
  BY <1>0, <1>1, <1>2, <1>3, Zenon
<1>7. \A d \in Clients : Importing(d)' <=> Importing(d)
  BY <1>6, Zenon DEF Importing
<1>8. MutexHeld'
  BY <1>1, <1>6, <1>7, Zenon DEF StoreInv, MutexHeld, Importing
<1>9. FilesDecrypt'
  BY <1>1, Zenon DEF StoreInv, FilesDecrypt
<1>10. ASSUME ~back PROVE OneFile' /\ Nothing' /\ Gone'
  <2>1. OneFile'
    BY <1>1, <1>6, <1>7, <1>10 DEF StoreInv, OneFile
  <2>2. Nothing'
    BY <1>1, <1>6, <1>7, <1>10 DEF StoreInv, Nothing
  <2>3. Gone'
    BY <1>1, <1>6, <1>10 DEF StoreInv, Gone
  <2> QED
    BY <2>1, <2>2, <2>3, Zenon
<1> QED
  BY <1>1, <1>4, <1>5, <1>8, <1>9, <1>10, Zenon DEF StoreInv

\* Import returns and gives importMu back, after an error or with the file in the cache.
LEMMA ImportReturns ==
  ASSUME StoreInv, NEW c \in Clients, Importing(c), call' = [call EXCEPT ![c] = None],
         importMu' = None, UNCHANGED <<files, back>>, cached \subseteq cached', cached' \subseteq Paths,
         call[c].pc = "cache" => call[c].path \in cached'
  PROVE  StoreInv'
<1>1. DOMAIN call' = Clients /\ \A d \in Clients : call'[d] = IF d = c THEN None ELSE call[d]
  BY Zenon DEF StoreInv, StoreShape
<1>2. StoreShape' /\ PathsKnown'
  BY <1>1, Zenon DEF StoreInv, StoreShape, PathsKnown
<1>3. \A d \in Clients : Importing(d) => d = c
  BY Zenon DEF StoreInv, MutexHeld
<1>4. \A d \in Clients : ~Importing(d)'
  BY <1>1, <1>3, Zenon DEF Importing
<1>5. MutexHeld'
  BY <1>4, Zenon DEF MutexHeld
<1>6. FilesDecrypt'
  BY Zenon DEF StoreInv, FilesDecrypt
<1>7. ASSUME ~back PROVE OneFile' /\ Nothing' /\ Gone'
  <2>1. OneFile'
    BY <1>3, <1>7 DEF StoreInv, OneFile
  <2>2. Nothing'
    BY <1>4, Zenon DEF Nothing
  <2>3. Gone'
    BY <1>1, <1>7, Zenon DEF StoreInv, Gone
  <2> QED
    BY <2>1, <2>2, <2>3, Zenon
<1> QED
  BY <1>2, <1>5, <1>6, <1>7, Zenon DEF StoreInv

\* The temporary file is moved into place when it can be decrypted.
LEMMA RenameStores ==
  ASSUME UnlockInv, StoreInv, NEW c \in Clients, Rename(c)
  PROVE  StoreInv'
<1>1. call[c] # None /\ call[c].pc = "temp" /\ cached' = cached
  BY Zenon DEF Rename
<1>2. Known(call[c])
  BY <1>1, Zenon DEF UnlockInv, CallsKnown
<1>3. call[c].op \in {"update", "import"} /\ call[c].new \in Passes
  BY <1>1, <1>2, Zenon DEF Known
<1>4. PICK p \in Paths : p = call[c].path
  BY <1>1, <1>3, Zenon DEF StoreInv, PathsKnown
<1>5. CASE ~Verified(call[c].temp, call[c].new)
  <2>1. call' = [call EXCEPT ![c] = None] /\ UNCHANGED <<files, back>>
        /\ importMu' = IF call[c].op = "import" THEN None ELSE importMu
    BY <1>5, Zenon DEF Rename, Return
  <2>2. CASE call[c].op = "import"
    <3>1. Importing(c) /\ importMu' = None /\ cached' \subseteq Paths
      BY <1>1, <2>1, <2>2, Zenon DEF Importing, StoreInv, StoreShape
    <3> QED
      BY <1>1, <2>1, <3>1, ImportReturns, Zenon
  <2>3. CASE call[c].op # "import"
    <3>1. ~Importing(c) /\ importMu' = importMu
      BY <2>1, <2>3, Zenon DEF Importing
    <3> QED
      BY <1>1, <2>1, <3>1, ReturnStores, Zenon
  <2> QED
    BY <2>2, <2>3, Zenon
<1>6. CASE Verified(call[c].temp, call[c].new)
  <2>1. PICK k : k = call[c].temp
    BY Zenon
  <2>2. /\ files' = [files EXCEPT ![p] = k] /\ importMu' = importMu
        /\ back' = (back \/ (call[c].op = "update" /\ files[p] = None))
        /\ call' = IF call[c].op = "import" THEN [call EXCEPT ![c].pc = "cache"]
                   ELSE [call EXCEPT ![c] = None]
    BY <1>4, <1>6, <2>1, Zenon DEF Rename, Return
  <2>3. k # None /\ GetKey(k, call[c].new)
    BY <1>6, <2>1, Zenon DEF Verified, GetKey
  <2>4. DOMAIN files' = Paths /\ \A q \in Paths : files'[q] = IF q = p THEN k ELSE files[q]
    BY <2>2, Zenon DEF StoreInv, StoreShape
  <2>5. FilesDecrypt'
    BY <1>3, <2>3, <2>4, Zenon DEF StoreInv, FilesDecrypt
  <2>6. PICK v : v = IF call[c].op = "import" THEN [call[c] EXCEPT !.pc = "cache"] ELSE None
    BY Zenon
  <2>7. DOMAIN call' = Clients /\ \A d \in Clients : call'[d] = IF d = c THEN v ELSE call[d]
    BY <2>2, <2>6, Zenon DEF StoreInv, StoreShape
  <2>8. call[c].op = "import" => v \in CallRecord /\ v # None /\ v.op = "import" /\ v.pc = "cache" /\ v.path = p
    <3>1. call[c] \in CallRecord
      BY <1>2, Zenon DEF Known
    <3>2. ASSUME call[c].op = "import"
          PROVE  v \in CallRecord /\ v.op = "import" /\ v.pc = "cache" /\ v.path = p
      BY <1>4, <2>6, <3>1, <3>2, Zenon DEF CallRecord
    <3> QED
      BY <3>2, LockAssumption, Zenon
  <2>9. StoreShape'
    BY <1>1, <2>2, <2>4, <2>7, Zenon DEF StoreInv, StoreShape
  <2>10. PathsKnown'
    <3> SUFFICES ASSUME NEW d \in Clients, call'[d] # None
                 PROVE  /\ call'[d].path \in Paths \/ (call'[d].op = "lock" /\ call'[d].path = None)
                        /\ call'[d].pc = "cache" => call'[d].op \in {"import", "delete"}
      BY Zenon DEF PathsKnown
    <3>1. CASE d # c
      BY <2>7, <3>1, Zenon DEF StoreInv, PathsKnown
    <3>2. CASE d = c
      <4>1. call'[d] = v /\ v # None
        BY <2>7, <3>2, Zenon
      <4>2. v.op = "import" /\ v.path = p
        BY <2>6, <2>8, <4>1, Zenon
      <4> QED
        BY <1>4, <4>1, <4>2, Zenon
    <3> QED
      BY <3>1, <3>2, Zenon
  <2>11. \A d \in Clients : Importing(d)' <=> Importing(d)
    <3>1. Importing(c)' <=> Importing(c)
      BY <1>1, <2>6, <2>7, <2>8, Zenon DEF Importing
    <3>2. \A d \in Clients : d # c => (Importing(d)' <=> Importing(d))
      BY <2>7, Zenon DEF Importing
    <3> QED
      BY <3>1, <3>2, Zenon
  <2>12. MutexHeld'
    BY <2>2, <2>11, Zenon DEF StoreInv, MutexHeld
  <2>13. ASSUME ~back' PROVE OneFile' /\ Nothing' /\ Gone'
    <3>1. ~back /\ (call[c].op = "update" => files[p] # None)
      BY <2>2, <2>13, Zenon
    <3>2. OneFile /\ Nothing /\ Gone
      BY <3>1, Zenon DEF StoreInv
    <3>3. CASE call[c].op = "import"
      <4>1. Importing(c) /\ \A d \in Clients : Importing(d) => d = c
        BY <1>1, <3>3, Zenon DEF Importing, StoreInv, MutexHeld
      <4>2. /\ \A q \in Paths : files[q] = None
            /\ \A d \in Clients : d # c /\ call[d] # None => call[d].path # p
        BY <1>1, <1>4, <3>2, <4>1, Zenon DEF Nothing
      <4>3. \A q \in Paths : files'[q] # None => q = p
        BY <2>4, <4>2, Zenon
      <4>4. OneFile'
        <5>1. Importing(c)' /\ call'[c].pc = "cache" /\ call'[c].path = p
          BY <2>7, <2>8, <2>11, <3>3, <4>1, Zenon
        <5> QED
          BY <4>3, <5>1, Zenon DEF OneFile
      <4>5. Nothing'
        BY <2>7, <2>8, <2>11, <3>3, <4>1, Zenon DEF Nothing
      <4>6. ASSUME NEW d \in Clients, call'[d] # None, call'[d].op = "delete", call'[d].pc = "cache"
            PROVE  files'[call'[d].path] = None
        <5>1. d # c
          BY <2>7, <2>8, <3>3, <4>6, Zenon
        <5>2. call'[d] = call[d] /\ call[d].path # p /\ call[d].path \in Paths
          BY <2>7, <4>2, <4>6, <5>1, Zenon DEF StoreInv, PathsKnown
        <5> QED
          BY <2>4, <4>2, <5>2, Zenon
      <4> QED
        BY <4>4, <4>5, <4>6, Zenon DEF Gone
    <3>4. CASE call[c].op = "update"
      <4>1. files[p] # None /\ v = None /\ ~Importing(c)
        BY <2>6, <3>1, <3>4, Zenon DEF Importing
      <4>2. \A q \in Paths : files'[q] # None <=> files[q] # None
        BY <2>3, <2>4, <4>1, Zenon
      <4>3. \A d \in Clients : Importing(d) => call[d].pc = "cache" /\ call'[d] = call[d]
        BY <2>7, <3>2, <4>1, Zenon DEF Nothing
      <4>4. OneFile'
        BY <1>1, <2>11, <3>2, <4>2, <4>3 DEF OneFile
      <4>5. Nothing'
        BY <2>11, <4>3, Zenon DEF Nothing
      <4>6. Gone'
        BY <2>7, <3>2, <4>1, <4>2 DEF Gone, StoreInv, PathsKnown
      <4> QED
        BY <4>4, <4>5, <4>6, Zenon
    <3> QED
      BY <1>3, <3>3, <3>4, Zenon
  <2> QED
    BY <2>5, <2>9, <2>10, <2>12, <2>13, Zenon DEF StoreInv
<1> QED
  BY <1>5, <1>6, Zenon

\* Delete removes the file.
LEMMA DeleteStores ==
  ASSUME UnlockInv, StoreInv, NEW c \in Clients, DeleteFile(c)
  PROVE  StoreInv'
<1>1. /\ call[c] # None /\ call[c].op = "delete" /\ call[c].pc = "got"
      /\ UNCHANGED <<cached, importMu, back>>
  BY Zenon DEF DeleteFile
<1>2. PICK p \in Paths : p = call[c].path
  BY <1>1, Zenon DEF StoreInv, PathsKnown
<1>3. ~Importing(c)
  BY <1>1, Zenon DEF Importing
<1>4. CASE files[p] = None
  BY <1>1, <1>2, <1>3, <1>4, ReturnStores, Zenon DEF DeleteFile, Return
<1>5. CASE files[p] # None
  <2>1. PICK v : v = [call[c] EXCEPT !.pc = "cache"]
    BY Zenon
  <2>2. files' = [files EXCEPT ![p] = None] /\ call' = [call EXCEPT ![c] = v]
    BY <1>2, <1>5, <2>1, Zenon DEF DeleteFile
  <2>3. DOMAIN files' = Paths /\ \A q \in Paths : files'[q] = IF q = p THEN None ELSE files[q]
    BY <2>2, Zenon DEF StoreInv, StoreShape
  <2>4. DOMAIN call' = Clients /\ \A d \in Clients : call'[d] = IF d = c THEN v ELSE call[d]
    BY <2>2, Zenon DEF StoreInv, StoreShape
  <2>5. v.op = "delete" /\ v.pc = "cache" /\ v.path = p
    <3>1. call[c] \in CallRecord
      BY <1>1, Zenon DEF UnlockInv, CallsKnown, Known
    <3> QED
      BY <1>1, <1>2, <2>1, <3>1, Zenon DEF CallRecord
  <2>6. StoreShape'
    BY <1>1, <2>3, <2>4, Zenon DEF StoreInv, StoreShape
  <2>7. PathsKnown'
    BY <2>4, <2>5 DEF StoreInv, PathsKnown
  <2>8. \A d \in Clients : Importing(d)' <=> Importing(d)
    BY <1>3, <2>4, <2>5, Zenon DEF Importing
  <2>9. MutexHeld'
    BY <1>1, <2>8, Zenon DEF StoreInv, MutexHeld
  <2>10. FilesDecrypt'
    BY <2>3, Zenon DEF StoreInv, FilesDecrypt
  <2>11. ASSUME ~back PROVE OneFile' /\ Nothing' /\ Gone'
    <3>1. OneFile /\ Nothing /\ Gone
      BY <2>11, Zenon DEF StoreInv
    <3>2. \A d \in Clients : Importing(d) => call[d].pc = "cache" /\ call'[d] = call[d]
      BY <1>3, <1>5, <2>4, <3>1, Zenon DEF Nothing
    <3>3. OneFile'
      BY <1>1, <2>3, <2>8, <3>1, <3>2 DEF OneFile
    <3>4. Nothing'
      BY <2>8, <3>2, Zenon DEF Nothing
    <3>5. Gone'
      BY <2>3, <2>4, <2>5, <3>1 DEF Gone, StoreInv, PathsKnown
    <3> QED
      BY <3>3, <3>4, <3>5, Zenon
  <2> QED
    BY <1>1, <2>6, <2>7, <2>9, <2>10, <2>11, Zenon DEF StoreInv
<1> QED
  BY <1>4, <1>5, Zenon

\* Import adds its file to the cache, Delete takes it out.
LEMMA ChangeStores ==
  ASSUME StoreInv, NEW c \in Clients, ChangeCached(c)
  PROVE  StoreInv'
<1>1. /\ call[c] # None /\ call[c].pc = "cache" /\ call' = [call EXCEPT ![c] = None]
      /\ UNCHANGED <<files, back>>
  BY Zenon DEF ChangeCached, Return
<1>2. call[c].op \in {"import", "delete"} /\ (call[c].op = "import" => call[c].path \in Paths)
  BY <1>1, Zenon DEF StoreInv, PathsKnown
<1>3. CASE call[c].op = "import"
  <2>1. cached' = cached \cup {call[c].path} /\ importMu' = None /\ Importing(c)
    BY <1>1, <1>3, Zenon DEF ChangeCached, Importing
  <2>2. cached' \subseteq Paths
    BY <1>2, <1>3, <2>1, Zenon DEF StoreInv, StoreShape
  <2> QED
    BY <1>1, <2>1, <2>2, ImportReturns, Zenon
<1>4. CASE call[c].op = "delete"
  <2>1. cached' = cached \ {call[c].path} /\ importMu' = importMu /\ ~Importing(c)
    BY <1>1, <1>4, Zenon DEF ChangeCached, Importing
  <2>2. DOMAIN call' = Clients /\ \A d \in Clients : call'[d] = IF d = c THEN None ELSE call[d]
    BY <1>1, Zenon DEF StoreInv, StoreShape
  <2>3. StoreShape' /\ PathsKnown'
    BY <1>1, <2>1, <2>2, Zenon DEF StoreInv, StoreShape, PathsKnown
  <2>4. \A d \in Clients : (Importing(d)' <=> Importing(d)) /\ (Importing(d) => call'[d] = call[d])
    BY <2>1, <2>2, Zenon DEF Importing
  <2>5. MutexHeld'
    BY <2>1, <2>4, Zenon DEF StoreInv, MutexHeld
  <2>6. FilesDecrypt'
    BY <1>1, Zenon DEF StoreInv, FilesDecrypt
  <2>7. ASSUME ~back PROVE OneFile' /\ Nothing' /\ Gone'
    <3>1. OneFile /\ Nothing /\ Gone
      BY <2>7, Zenon DEF StoreInv
    <3>2. files[call[c].path] = None
      BY <1>1, <1>4, <3>1, Zenon DEF Gone
    <3>3. OneFile'
      BY <1>1, <2>1, <2>4, <3>1, <3>2 DEF OneFile
    <3>4. Nothing'
      BY <1>1, <2>2, <2>4, <3>1 DEF Nothing
    <3>5. Gone'
      BY <1>1, <2>2, <3>1, Zenon DEF Gone
    <3> QED
      BY <3>3, <3>4, <3>5, Zenon
  <2> QED
    BY <1>1, <2>3, <2>5, <2>6, <2>7, Zenon DEF StoreInv
<1> QED
  BY <1>2, <1>3, <1>4, Zenon

\* Import finds the address unknown and takes a name that no call uses.
LEMMA ImportStores ==
  ASSUME StoreInv, NEW c \in Clients, ImportChecks(c)
  PROVE  StoreInv'
<1>1. /\ call[c] = None /\ importMu = None /\ importMu' = c /\ cached = {}
      /\ UNCHANGED <<files, cached, back>>
  BY Zenon DEF ImportChecks, Idle
<1>2. PICK p \in Paths, new \in Passes :
        /\ \A d \in Clients : call[d] # None => call[d].path # p
        /\ call' = [call EXCEPT ![c] = [Call("import", None, new) EXCEPT !.path = p]]
  BY Zenon DEF ImportChecks
<1>3. PICK v : v = [Call("import", None, new) EXCEPT !.path = p]
  BY Zenon
<1>4. v \in CallRecord /\ v.op = "import" /\ v.pc = "got" /\ v.path = p
  BY <1>3, Zenon DEF Call, CallRecord
<1>5. v # None
  BY <1>4, LockAssumption, Zenon
<1>6. DOMAIN call' = Clients /\ \A d \in Clients : call'[d] = IF d = c THEN v ELSE call[d]
  BY <1>2, <1>3, Zenon DEF StoreInv, StoreShape
<1>7. \A d \in Clients : ~Importing(d)
  BY <1>1, LockAssumption, Zenon DEF StoreInv, MutexHeld
<1>8. \A d \in Clients : Importing(d)' <=> d = c
  BY <1>4, <1>5, <1>6, <1>7, Zenon DEF Importing
<1>9. StoreShape' /\ PathsKnown'
  BY <1>1, <1>4, <1>6, Zenon DEF StoreInv, StoreShape, PathsKnown
<1>10. MutexHeld'
  BY <1>1, <1>8, Zenon DEF MutexHeld
<1>11. FilesDecrypt'
  BY <1>1, Zenon DEF StoreInv, FilesDecrypt
<1>12. ASSUME ~back PROVE OneFile' /\ Nothing' /\ Gone'
  <2>1. \A q \in Paths : files[q] = None
    BY <1>1, <1>7, <1>12, Zenon DEF StoreInv, OneFile
  <2>2. OneFile' /\ Gone'
    BY <1>1, <1>4, <1>6, <1>12, <2>1 DEF OneFile, StoreInv, Gone
  <2>3. Nothing'
    BY <1>1, <1>2, <1>4, <1>6, <1>8, <2>1 DEF Nothing
  <2> QED
    BY <2>2, <2>3, Zenon
<1> QED
  BY <1>1, <1>9, <1>10, <1>11, <1>12, Zenon DEF StoreInv

\* A scan.
LEMMA ScanStores ==
  ASSUME StoreInv, Scanned
  PROVE  StoreInv'
<1>1. cached' = {p \in Paths : files[p] # None} /\ UNCHANGED <<files, call, importMu, back>>
  BY Zenon DEF Scanned
<1>2. StoreShape' /\ PathsKnown'
  BY <1>1, Zenon DEF StoreInv, StoreShape, PathsKnown
<1>3. MutexHeld' /\ FilesDecrypt'
  BY <1>1, Zenon DEF StoreInv, MutexHeld, Importing, FilesDecrypt
<1>4. ~back => OneFile' /\ Nothing' /\ Gone'
  BY <1>1 DEF StoreInv, OneFile, Nothing, Gone, Importing
<1> QED
  BY <1>1, <1>2, <1>3, <1>4, Zenon DEF StoreInv

\* The program ends, with whatever calls are in progress.
LEMMA CrashStores ==
  ASSUME StoreInv, CrashKeys
  PROVE  StoreInv'
<1>1. /\ cached' = {p \in Paths : files[p] # None} /\ call' = [c \in Clients |-> None]
      /\ importMu' = None /\ UNCHANGED <<files, back>>
  BY Zenon DEF CrashKeys
<1>2. StoreShape' /\ PathsKnown'
  BY <1>1, Zenon DEF StoreInv, StoreShape, PathsKnown
<1>3. MutexHeld' /\ FilesDecrypt'
  BY <1>1, Zenon DEF StoreInv, MutexHeld, Importing, FilesDecrypt
<1>4. ~back => OneFile' /\ Nothing' /\ Gone'
  BY <1>1 DEF StoreInv, OneFile, Nothing, Gone, Importing
<1> QED
  BY <1>1, <1>2, <1>3, <1>4, Zenon DEF StoreInv

\* Every step.
LEMMA StoreStep == UnlockInv /\ StoreInv /\ [LockNext]_lockVars => StoreInv'
<1> SUFFICES ASSUME UnlockInv, StoreInv, [LockNext]_lockVars PROVE StoreInv'
  BY Zenon
<1>1. ASSUME NEW c \in Clients, ClientNext(c) PROVE StoreInv'
  <2>1. CASE Decrypted(c)
    <3>1. PICK op \in {"unlock", "timed unlock", "update", "delete", "sign"}, auth \in Passes,
               new \in Passes \cup {None} : Begin(c, Call(op, auth, new))
      BY <2>1, Zenon DEF Decrypted
    <3>2. PICK p \in Paths : /\ GetKey(files[p], Call(op, auth, new).auth)
                             /\ call' = [call EXCEPT ![c] = [Call(op, auth, new) EXCEPT !.path = p]]
      BY <3>1, Zenon DEF Begin
    <3>3. PICK v : v = [Call(op, auth, new) EXCEPT !.path = p]
      BY Zenon
    <3>4. v.op # "import" /\ v.pc = "got" /\ v.path = p
      BY <3>3, Zenon DEF Call
    <3>5. call[c] = None /\ UNCHANGED <<files, cached, importMu, back>>
      BY <3>1, Zenon DEF Begin, Idle
    <3>6. files[p] # None
      BY <3>2, Zenon DEF GetKey
    <3>7. call' = [call EXCEPT ![c] = v]
      BY <3>2, <3>3, Zenon
    <3> QED
      BY <3>4, <3>5, <3>6, <3>7, BeginStores, Zenon
  <2>2. CASE TimedUnlock(c) \/ LockExpires(c) \/ SignWithPassphrase(c)
    <3>1. ~Importing(c)
      BY <2>2, Zenon DEF TimedUnlock, LockExpires, SignWithPassphrase, Importing
    <3>2. call' = [call EXCEPT ![c] = None] /\ UNCHANGED <<files, cached, importMu, back>>
      BY <2>2, Zenon DEF TimedUnlock, LockExpires, SignWithPassphrase, Return
    <3> QED
      BY <3>1, <3>2, ReturnStores, Zenon
  <2>3. CASE LockReads(c)
    <3>1. PICK v : v = [Call("lock", None, None) EXCEPT !.inst = unlocked]
      BY Zenon
    <3>2. v.op = "lock" /\ v.pc = "got" /\ v.path = None
      BY <3>1, Zenon DEF Call
    <3>3. call[c] = None /\ call' = [call EXCEPT ![c] = v] /\ UNCHANGED <<files, cached, importMu, back>>
      BY <2>3, <3>1, Zenon DEF LockReads, Idle
    <3> QED
      BY <3>2, <3>3, BeginStores, Zenon
  <2>4. CASE WriteTemporary(c) \/ Rename(c) \/ DeleteFile(c) \/ ChangeCached(c) \/ ImportChecks(c)
    BY <2>4, WriteStores, RenameStores, DeleteStores, ChangeStores, ImportStores, Zenon
  <2> QED
    BY <1>1, <2>1, <2>2, <2>3, <2>4, Zenon DEF ClientNext
<1>2. CASE \E u \in timers : Expires(u)
  BY <1>2, StoreFrame, Zenon DEF Expires
<1>3. CASE UNCHANGED lockVars
  BY <1>3, StoreFrame, Zenon DEF lockVars
<1> QED
  BY <1>1, <1>2, <1>3, ScanStores, CrashStores, Zenon DEF LockNext

\* The store starts with at most one file, which the cache has read.
LEMMA StoreInit == LockInit => StoreInv
<1> SUFFICES ASSUME LockInit PROVE StoreInv
  BY Zenon
<1>1. /\ files \in [Paths -> {None} \cup OldFiles] /\ \A p \in Paths \ {1} : files[p] = None
      /\ cached = {p \in Paths : files[p] # None}
      /\ call = [c \in Clients |-> None] /\ importMu = None /\ back = FALSE
  BY Zenon DEF LockInit
<1>2. StoreShape /\ PathsKnown
  BY <1>1, Zenon DEF StoreShape, PathsKnown
<1>3. MutexHeld /\ FilesDecrypt
  BY <1>1, Zenon DEF MutexHeld, Importing, FilesDecrypt
<1>4. OneFile /\ Nothing /\ Gone
  BY <1>1, Zenon DEF OneFile, Nothing, Gone, Importing
<1> QED
  BY <1>2, <1>3, <1>4, Zenon DEF StoreInv

\* keystore.go: for every set of clients, passphrases and files, any number of calls and a crash
\* at any point, the keys in memory and on disk are those that unlocking, importing and storing
\* promise.  importMu and the cache, which Delete changes only after the file, keep a key from
\* being stored twice, unless an Update brings back a file that was deleted under it.
THEOREM KeysAreSafe == LockSpec => []KeysSafe
<1>1. LockInit => UnlockInv
  BY DEF LockInit, UnlockInv, InstancesExist, CallsKnown, SignsWithKey, WillExpire
<1>2. UnlockInv /\ StoreInv => KeysSafe
  <2> SUFFICES ASSUME UnlockInv, StoreInv PROVE KeysSafe
    BY Zenon
  <2>1. LockTypeOK
    BY Zenon DEF UnlockInv, InstancesExist, StoreInv, StoreShape, MutexHeld, Importing, LockTypeOK
  <2>2. ImportedOnce
    <3>1. ASSUME ~back PROVE \A x, y \in {p \in Paths : files[p] # None} : x = y
      BY <3>1, Zenon DEF StoreInv, OneFile
    <3> QED
      BY <3>1, Zenon DEF ImportedOnce
  <2> QED
    BY <2>1, <2>2, Zenon DEF UnlockInv, StoreInv, KeysSafe
<1> QED
  BY <1>1, <1>2, UnlockStep, StoreInit, StoreStep, PTL DEF LockSpec

------------------------------------------------------------------------------
(* The back end. *)

\* The types of the variables.
BackShape ==
  /\ mode \in {"down", "starting", "up", "stopping"} /\ boots \in Nat
  /\ shards \subseteq Shards /\ chains \subseteq shards /\ closing \subseteq shards /\ dbs \subseteq shards
  /\ pools \in [Shards -> SUBSET ShardTxs] /\ journal \subseteq ShardTxs /\ included \subseteq ShardTxs
  /\ writer \in [Shards -> {None, "file", "replaced"}]
  /\ accepted \in [ShardTxs -> Nat] /\ published \in [ShardTxs -> Nat]
  /\ sending \in [ShardTxs -> Nat \cup {None}]
  /\ reopened \in BOOLEAN

\* One pool writes to the journal's file; a file is replaced only by another shard's pool.
Writers ==
  /\ \A s, z \in Shards : writer[s] = "file" /\ writer[z] = "file" => s = z
  /\ \A s \in Shards : writer[s] = "replaced" => \E z \in shards : z # s
  /\ \A s \in Shards : writer[s] # None => s \in shards
  /\ mode = "up" => \A s \in shards : writer[s] # None

\* A node that starts for the first time has nothing in its journal.
FirstBoot ==
  /\ boots = 0 => mode = "down" /\ journal = {}
  /\ boots = 1 /\ mode = "starting" => journal = {}
  /\ PoolOfShard

\* With one shard, what was accepted is in a block or in the journal, and while the node is
\* up, in a block or in the pool; the pool is in the journal.
Safe(t) ==
  /\ t.shard \in shards
  /\ t \in included \cup journal
  /\ mode = "up" => t \in included \cup pools[t.shard]

Locals ==
  OneShard =>
    /\ \A t \in ShardTxs : accepted[t] > 0 => Safe(t)
    /\ mode = "up" => \A s \in shards : pools[s] \subseteq journal

\* What is still being sent has been accepted once more than it was published.
Sending ==
  \A t \in ShardTxs :
    /\ published[t] + (IF sending[t] = None THEN 0 ELSE 1) <= accepted[t]
    /\ OneShard => accepted[t] <= 1

\* Which databases are open in each mode.
Bases ==
  /\ mode = "down" => chains = {} /\ dbs = {}
  /\ mode # "stopping" => closing = {}
  /\ mode = "starting" => dbs = shards /\ \A s \in shards : writer[s] # None <=> s \in chains
  /\ mode = "up" /\ ~reopened => dbs = chains
  /\ mode = "stopping" /\ ~reopened => chains = {} /\ dbs = closing

\* A query has seen every canonical block since it began.
Asked ==
  /\ canon \in TwoBlocks \cup {None} /\ query \in QueryRecord \cup {None}
  /\ query # None => /\ canon # None => canon \in query.saw
                     /\ query.pc \in {"read", "answer"} /\ query.required => query.hash \in query.saw

BackInv == BackShape /\ Writers /\ FirstBoot /\ Locals /\ Sending /\ Bases /\ Asked

\* The shard of a transaction is one of the shards.
LEMMA ShardOf == \A t \in ShardTxs : t.shard \in Shards
  BY DEF Shards

\* The invariant implies what is promised.
LEMMA BackFollows == BackInv => BackendConsistent
  <1> SUFFICES ASSUME BackInv PROVE BackendConsistent
    OBVIOUS
  <1> USE DEF BackInv
  <1>1. BackTypeOK
    BY Zenon DEF BackTypeOK, BackShape, Writers, Bases
  <1>2. PoolOfShard
    BY Zenon DEF FirstBoot
  <1>3. LocalsSurvive
    BY Zenon DEF LocalsSurvive, Locals, Safe, Kept
  <1>4. SentOnce
    BY DEF SentOnce, Sending, BackShape
  <1>5. DatabasesMatchChains
    BY DEF DatabasesMatchChains, Bases, BackShape
  <1>6. ReturnedWasCanonical
    BY Zenon DEF ReturnedWasCanonical, Asked
  <1> QED
    BY <1>1, <1>2, <1>3, <1>4, <1>5, <1>6 DEF BackendConsistent

\* The invariant holds before the first start.
LEMMA BackInitial == BackInit => BackInv
  <1> SUFFICES ASSUME BackInit PROVE BackInv
    OBVIOUS
  <1> USE DEF BackInit
  <1>1. BackShape
    BY DEF BackShape
  <1>2. Writers
    BY BackAssumption DEF Writers
  <1>3. FirstBoot
    BY DEF FirstBoot, PoolOfShard
  <1>4. Locals
    BY DEF Locals
  <1>5. Sending
    BY DEF Sending
  <1>6. Bases
    BY DEF Bases
  <1>7. Asked
    BY DEF Asked
  <1> QED
    BY <1>1, <1>2, <1>3, <1>4, <1>5, <1>6, <1>7 DEF BackInv

\* The parts that a step leaves alone.
LEMMA WritersKept == Writers /\ UNCHANGED <<writer, shards, mode>> => Writers'
  BY Zenon DEF Writers
\* What FirstBoot speaks of.
LEMMA FirstBootKept == FirstBoot /\ UNCHANGED <<boots, mode, journal, pools>> => FirstBoot'
  BY Zenon DEF FirstBoot, PoolOfShard
\* What Locals speaks of.
LEMMA LocalsKept == Locals /\ UNCHANGED <<shards, accepted, included, journal, mode, pools>> => Locals'
  BY Zenon DEF Locals, Safe, OneShard
\* What Sending speaks of.
LEMMA SendingKept == Sending /\ UNCHANGED <<shards, accepted, sending, published>> => Sending'
  BY Zenon DEF Sending, OneShard
\* What Bases speaks of.
LEMMA BasesKept == Bases /\ UNCHANGED <<shards, mode, writer, Chains>> => Bases'
  BY DEF Bases, Chains
\* What Asked speaks of.
LEMMA AskedKept == Asked /\ UNCHANGED Queries => Asked'
  BY Zenon DEF Asked, Queries

\* New opens every shard's database; no pool or chain is there yet.
LEMMA StartKeeps == BackInv /\ Start => BackInv'
  <1> SUFFICES ASSUME BackInv, Start PROVE BackInv'
    OBVIOUS
  <1> USE DEF BackInv, Start
  <1>1. BackShape'
    BY DEF BackShape, Sends
  <1>2. Writers'
    BY BackAssumption DEF Writers
  <1>3. FirstBoot'
    BY DEF FirstBoot, PoolOfShard, BackShape
  <1>4. Locals'
    BY DEF Locals, Safe, OneShard
  <1>5. Sending'
    BY Zenon, SendingKept DEF Sends
  <1>6. Bases'
    BY DEF Bases, BackShape
  <1>7. Asked'
    BY Zenon, AskedKept
  <1> QED
    BY Zenon, <1>1, <1>2, <1>3, <1>4, <1>5, <1>6, <1>7

\* The program ends at any point; the journal and the chain stay.
LEMMA CrashKeeps == BackInv /\ Crash => BackInv'
  <1> SUFFICES ASSUME BackInv, Crash PROVE BackInv'
    OBVIOUS
  <1> USE DEF BackInv, Crash
  <1>1. BackShape'
    BY DEF BackShape
  <1>2. Writers'
    BY BackAssumption DEF Writers
  <1>3. FirstBoot'
    BY DEF FirstBoot, PoolOfShard, BackShape
  <1>4. Locals'
    BY DEF Locals, Safe, OneShard
  <1>5. Sending'
    BY DEF Sending, BackShape, OneShard
  <1>6. Bases'
    BY DEF Bases, BackShape
  <1>7. Asked'
    BY Zenon, AskedKept
  <1> QED
    BY Zenon, <1>1, <1>2, <1>3, <1>4, <1>5, <1>6, <1>7

\* Stop ends the pools and swaps the collection's chains.
LEMMA StopKeeps == BackInv /\ StopBackend => BackInv'
  <1> SUFFICES ASSUME BackInv, StopBackend PROVE BackInv'
    OBVIOUS
  <1> USE DEF BackInv, StopBackend
  <1>1. BackShape'
    BY DEF BackShape, Sends
  <1>2. Writers'
    BY BackAssumption DEF Writers
  <1>3. FirstBoot'
    BY DEF FirstBoot, PoolOfShard, BackShape
  <1>4. Locals'
    BY DEF Locals, Safe, OneShard
  <1>5. Sending'
    BY Zenon, SendingKept DEF Sends
  <1>6. Bases'
    BY DEF Bases, BackShape
  <1>7. Asked'
    BY Zenon, AskedKept
  <1> QED
    BY Zenon, <1>1, <1>2, <1>3, <1>4, <1>5, <1>6, <1>7

\* Close closes one chain of the collection it swapped out.
LEMMA CloseChainKeeps == BackInv /\ CloseChain => BackInv'
  <1> SUFFICES ASSUME BackInv, CloseChain PROVE BackInv'
    OBVIOUS
  <1> USE DEF BackInv, CloseChain
  <1>1. BackShape'
    BY DEF BackShape, Sends, Pool, CloseOne
  <1>2. Writers'
    BY Zenon, WritersKept DEF Pool
  <1>3. FirstBoot'
    BY Zenon, FirstBootKept DEF Pool
  <1>4. Locals'
    BY Zenon, LocalsKept DEF Pool
  <1>5. Sending'
    BY Zenon, SendingKept DEF Sends, Pool
  <1>6. Bases'
    BY DEF Bases, BackShape, Pool, CloseOne
  <1>7. Asked'
    BY Zenon, AskedKept
  <1> QED
    BY Zenon, <1>1, <1>2, <1>3, <1>4, <1>5, <1>6, <1>7

\* ShardChain opens a shard's chain, CloseShardChain closes it.
LEMMA ShardChainKeeps == ASSUME BackInv, NEW s \in Shards, ShardChain(s) \/ CloseShardChain(s) PROVE BackInv'
  <1> USE DEF BackInv, ShardChain, CloseShardChain
  <1>1. BackShape'
    BY DEF BackShape, Sends, Pool, CloseOne
  <1>2. Writers'
    BY Zenon, WritersKept DEF Pool
  <1>3. FirstBoot'
    BY Zenon, FirstBootKept DEF Pool
  <1>4. Locals'
    BY Zenon, LocalsKept DEF Pool
  <1>5. Sending'
    BY Zenon, SendingKept DEF Sends, Pool
  <1>6. Bases'
    BY DEF Bases, BackShape, Pool, CloseOne
  <1>7. Asked'
    BY Zenon, AskedKept
  <1> QED
    BY Zenon, <1>1, <1>2, <1>3, <1>4, <1>5, <1>6, <1>7

\* Replacing the journal's file leaves one writer.
LEMMA RotatedWriters ==
  ASSUME BackShape, Writers, UNCHANGED shards, NEW s \in shards, NEW txs, FileRotated(s, txs)
  PROVE  /\ writer' \in [Shards -> {None, "file", "replaced"}] /\ journal' = txs
         /\ writer'[s] = "file"
         /\ \A z \in Shards : z # s => writer'[z] = (IF writer[z] = None THEN None ELSE "replaced")
         /\ \A z, y \in Shards : writer'[z] = "file" /\ writer'[y] = "file" => z = y
         /\ \A z \in Shards : writer'[z] = "replaced" => \E y \in shards : y # z
         /\ \A z \in Shards : writer'[z] # None => z \in shards
  BY BackAssumption DEF BackShape, Writers, FileRotated

\* NewTxPool of one shard loads the journal and rotates it.
LEMMA NewPoolKeeps == ASSUME BackInv, NEW s \in Shards, NewShardPool(s) PROVE BackInv'
  <1> USE DEF BackInv
  <1>1. PICK txs \in Loaded(s) : pools' = [pools EXCEPT ![s] = txs] /\ FileRotated(s, txs)
    BY Zenon DEF NewShardPool
  <1>2. /\ mode = "starting" /\ s \in shards /\ writer[s] = None
        /\ mode' = IF \A z \in shards \ {s} : writer[z] # None THEN "up" ELSE mode
        /\ chains' = chains \cup {s}
        /\ UNCHANGED <<shards, accepted, included, sending, published, closing, dbs, reopened, boots, canon, known, query, queries>>
    BY Zenon DEF NewShardPool, Sends, Queries
  <1>3. /\ txs \subseteq ShardTxs /\ txs \subseteq journal
        /\ \A t \in journal \ included : t.shard = s => t \in txs
    BY DEF Loaded, BackShape
  <1>4. /\ writer' \in [Shards -> {None, "file", "replaced"}] /\ journal' = txs
        /\ writer'[s] = "file"
        /\ \A z \in Shards : z # s => writer'[z] = (IF writer[z] = None THEN None ELSE "replaced")
        /\ \A z, y \in Shards : writer'[z] = "file" /\ writer'[y] = "file" => z = y
        /\ \A z \in Shards : writer'[z] = "replaced" => \E y \in shards : y # z
        /\ \A z \in Shards : writer'[z] # None => z \in shards
    BY Zenon, RotatedWriters, <1>1, <1>2
  <1>5. BackShape'
    BY <1>1, <1>2, <1>3, <1>4 DEF BackShape
  <1>6. Writers'
    BY BackAssumption, <1>2, <1>4 DEF Writers, BackShape
  <1>7. FirstBoot'
    BY <1>1, <1>2, <1>3, <1>4 DEF FirstBoot, PoolOfShard, BackShape
  <1>8. Locals'
    <2> SUFFICES ASSUME OneShard PROVE Locals'
      BY Zenon, <1>2 DEF Locals, OneShard
    <2>1. shards = {s}
      BY <1>2 DEF OneShard
    <2>2. \A t \in ShardTxs : accepted[t] > 0 => t.shard \in shards /\ t \in included \cup journal
      BY Zenon DEF Locals, Safe
    <2>3. \A t \in ShardTxs : accepted[t] > 0 => t.shard = s /\ t \in included \cup txs
      BY <2>1, <2>2, <1>3
    <2>4. pools'[s] = txs
      BY <1>1 DEF BackShape
    <2> QED
      BY <2>1, <2>2, <2>3, <2>4, <1>2, <1>4 DEF Locals, Safe, OneShard
  <1>9. Sending'
    BY Zenon, SendingKept, <1>2
  <1>10. Bases'
    BY BackAssumption, <1>2, <1>4 DEF Bases, BackShape
  <1>11. Asked'
    BY Zenon, AskedKept, <1>2 DEF Queries
  <1> QED
    BY Zenon, <1>5, <1>6, <1>7, <1>8, <1>9, <1>10, <1>11

\* The hourly rotation replaces the journal's file by what one pool holds.
LEMMA RotateKeeps == ASSUME BackInv, NEW s \in Shards, Rotate(s) PROVE BackInv'
  <1> USE DEF BackInv
  <1>1. /\ mode = "up" /\ s \in shards /\ FileRotated(s, pools[s])
        /\ UNCHANGED <<shards, mode, pools, accepted, included, sending, published, chains, closing, dbs, reopened, boots, canon, known, query, queries>>
    BY Zenon DEF Rotate, Sends, Chains, Queries
  <1>2. /\ writer' \in [Shards -> {None, "file", "replaced"}] /\ journal' = pools[s]
        /\ writer'[s] = "file"
        /\ \A z \in Shards : z # s => writer'[z] = (IF writer[z] = None THEN None ELSE "replaced")
        /\ \A z, y \in Shards : writer'[z] = "file" /\ writer'[y] = "file" => z = y
        /\ \A z \in Shards : writer'[z] = "replaced" => \E y \in shards : y # z
        /\ \A z \in Shards : writer'[z] # None => z \in shards
    BY Zenon, RotatedWriters, <1>1
  <1>3. BackShape'
    BY <1>1, <1>2 DEF BackShape
  <1>4. Writers'
    BY BackAssumption, <1>1, <1>2 DEF Writers, BackShape
  <1>5. FirstBoot'
    BY <1>1, <1>2 DEF FirstBoot, PoolOfShard, BackShape
  <1>6. Locals'
    <2> SUFFICES ASSUME OneShard PROVE Locals'
      BY Zenon, <1>1 DEF Locals, OneShard
    <2>1. shards = {s}
      BY <1>1 DEF OneShard
    <2>2. \A t \in ShardTxs : accepted[t] > 0 => t.shard = s /\ t \in included \cup pools[s]
      BY <1>1, <2>1 DEF Locals, Safe
    <2> QED
      BY <2>1, <2>2, <1>1, <1>2 DEF Locals, Safe, OneShard
  <1>7. Sending'
    BY Zenon, SendingKept, <1>1
  <1>8. Bases'
    BY <1>1 DEF Bases, BackShape
  <1>9. Asked'
    BY Zenon, AskedKept, <1>1 DEF Queries
  <1> QED
    BY Zenon, <1>3, <1>4, <1>5, <1>6, <1>7, <1>8, <1>9

\* A transaction that the pool takes in a node of one shard goes into the journal as well.
LEMMA AddsLocal ==
  ASSUME BackInv, NEW t \in ShardTxs, mode = "up", Admissible(t), ShardAddLocals(t), UNCHANGED <<shards, mode, boots>>
  PROVE  /\ pools' \in [Shards -> SUBSET ShardTxs] /\ journal' \subseteq ShardTxs /\ UNCHANGED writer
         /\ t.shard \in shards /\ t \notin included /\ t \notin pools[t.shard]
         /\ t \in pools'[t.shard] /\ journal \subseteq journal'
         /\ \A s \in Shards : pools[s] \subseteq pools'[s] /\ pools'[s] \subseteq pools[s] \cup {t}
         /\ OneShard => t \in journal'
         /\ FirstBoot'
  <1> USE DEF BackInv
  <1>1. /\ t.shard = t.to /\ t.shard \in shards /\ t.shard \in Shards
        /\ t \notin pools[t.shard] /\ t \notin included
        /\ pools' = [pools EXCEPT ![t.shard] = @ \cup {t}]
        /\ journal' = IF writer[t.shard] = "file" THEN journal \cup {t} ELSE journal
        /\ UNCHANGED writer
    BY Zenon, ShardOf DEF Admissible, ShardAddLocals, Routed
  <1>2. /\ pools' \in [Shards -> SUBSET ShardTxs] /\ journal' \subseteq ShardTxs
        /\ t \in pools'[t.shard] /\ journal \subseteq journal'
        /\ \A s \in Shards : pools[s] \subseteq pools'[s] /\ pools'[s] \subseteq pools[s] \cup {t}
        /\ \A s \in Shards : s # t.shard => pools'[s] = pools[s]
    BY <1>1 DEF BackShape
  <1>3. OneShard => writer[t.shard] = "file"
    BY <1>1 DEF OneShard, Writers, BackShape
  <1>4. boots # 0
    BY DEF FirstBoot
  <1>5. FirstBoot'
    BY <1>1, <1>2, <1>4 DEF FirstBoot, PoolOfShard
  <1> QED
    BY Zenon, <1>1, <1>2, <1>3, <1>5

\* What AddPendingTransaction and transactionMessageHandler have in common.
LEMMA AddsKeep ==
  ASSUME BackInv, NEW t \in ShardTxs, mode = "up", Admissible(t), ShardAddLocals(t),
         UNCHANGED <<shards, mode, boots, included, Chains, Queries>>,
         accepted' \in [ShardTxs -> Nat], \A u \in ShardTxs : accepted'[u] > 0 => accepted[u] > 0 \/ u = t,
         published' \in [ShardTxs -> Nat], sending' \in [ShardTxs -> Nat \cup {None}],
         Sending'
  PROVE  BackInv'
  <1> USE DEF BackInv
  <1>0. UNCHANGED <<shards, mode, boots>>
    OBVIOUS
  <1>1. /\ pools' \in [Shards -> SUBSET ShardTxs] /\ journal' \subseteq ShardTxs /\ UNCHANGED writer
        /\ t.shard \in shards /\ t \notin included /\ t \notin pools[t.shard]
        /\ t \in pools'[t.shard] /\ journal \subseteq journal'
        /\ \A s \in Shards : pools[s] \subseteq pools'[s] /\ pools'[s] \subseteq pools[s] \cup {t}
        /\ OneShard => t \in journal'
        /\ FirstBoot'
    BY Zenon, AddsLocal, <1>0
  <1>2. BackShape'
    BY Zenon, <1>1 DEF BackShape, Chains
  <1>3. Writers'
    BY Zenon, WritersKept, <1>1
  <1>4. Locals'
    <2> SUFFICES ASSUME OneShard PROVE Locals'
      BY Zenon DEF Locals, OneShard
    <2>1. ASSUME NEW u \in ShardTxs, accepted'[u] > 0 PROVE Safe(u)'
      <3>1. CASE u = t
        BY Zenon, <1>1, <3>1 DEF Safe
      <3>2. CASE u # t
        <4>1. Safe(u)
          BY Zenon, <2>1, <3>2 DEF Locals
        <4>2. u.shard \in Shards
          BY Zenon, ShardOf
        <4> QED
          BY <4>1, <4>2, <1>1 DEF Safe
      <3> QED
        BY Zenon, <3>1, <3>2
    <2>2. \A s \in shards : pools'[s] \subseteq journal'
      BY <1>1 DEF Locals, BackShape
    <2> QED
      BY Zenon, <2>1, <2>2 DEF Locals
  <1>5. Bases'
    BY Zenon, BasesKept, <1>1
  <1>6. Asked'
    BY Zenon, AskedKept
  <1> QED
    BY Zenon, <1>1, <1>2, <1>3, <1>4, <1>5, <1>6

\* AddPendingTransaction puts a transaction in the pool of its shard and in the journal, and sends
\* it.
LEMMA AddPendingKeeps == ASSUME BackInv, NEW t \in ShardTxs, AddPendingTransaction(t) PROVE BackInv'
  <1> USE DEF BackInv
  <1>1. /\ mode = "up" /\ Admissible(t) /\ sending[t] = None /\ ShardAddLocals(t)
        /\ accepted' = [accepted EXCEPT ![t] = @ + 1] /\ sending' = [sending EXCEPT ![t] = 0]
        /\ UNCHANGED <<shards, mode, included, published, boots, Chains, Queries>>
    BY Zenon DEF AddPendingTransaction
  <1>2. /\ accepted' \in [ShardTxs -> Nat] /\ accepted'[t] = accepted[t] + 1
        /\ \A u \in ShardTxs : u # t => accepted'[u] = accepted[u] /\ sending'[u] = sending[u]
        /\ sending' \in [ShardTxs -> Nat \cup {None}]
    BY <1>1 DEF BackShape
  <1>3. OneShard => accepted[t] = 0
    <2>1. t \notin included /\ t \notin pools[t.shard]
      BY Zenon, <1>1 DEF ShardAddLocals, Routed
    <2>2. OneShard => ~(accepted[t] > 0)
      BY <2>1, <1>1 DEF Locals, Safe
    <2> QED
      BY <2>2 DEF BackShape
  <1>4. Sending'
    <2> SUFFICES ASSUME NEW u \in ShardTxs
                 PROVE  /\ published[u] + (IF sending'[u] = None THEN 0 ELSE 1) <= accepted'[u]
                        /\ OneShard => accepted'[u] <= 1
      BY Zenon, <1>1 DEF Sending, OneShard
    <2>1. /\ published[u] + (IF sending[u] = None THEN 0 ELSE 1) <= accepted[u]
          /\ OneShard => accepted[u] <= 1
      BY Zenon DEF Sending
    <2>2. published[u] \in Nat /\ accepted[u] \in Nat
      BY Zenon DEF BackShape
    <2> QED
      BY <2>1, <2>2, <1>1, <1>2, <1>3
  <1>5. \A u \in ShardTxs : accepted'[u] > 0 => accepted[u] > 0 \/ u = t
    BY Zenon, <1>2
  <1>6. published' \in [ShardTxs -> Nat] /\ UNCHANGED <<shards, mode, boots, included, Chains, Queries>>
    BY Zenon, <1>1 DEF BackShape
  <1> QED
    BY Zenon, AddsKeep, <1>1, <1>2, <1>4, <1>5, <1>6

\* A transaction arrives from the network.
LEMMA MessageKeeps == ASSUME BackInv, NEW t \in ShardTxs, TransactionMessage(t) PROVE BackInv'
  <1> USE DEF BackInv
  <1>1. /\ mode = "up" /\ Admissible(t) /\ ShardAddLocals(t)
        /\ UNCHANGED <<shards, mode, boots, included, Chains, Queries>>
        /\ UNCHANGED <<accepted, sending, published>>
    BY Zenon DEF TransactionMessage, Sends
  <1>2. Sending'
    BY Zenon, SendingKept, <1>1
  <1>3. /\ accepted' \in [ShardTxs -> Nat] /\ published' \in [ShardTxs -> Nat]
        /\ sending' \in [ShardTxs -> Nat \cup {None}]
        /\ \A u \in ShardTxs : accepted'[u] > 0 => accepted[u] > 0 \/ u = t
    BY Zenon, <1>1 DEF BackShape
  <1> QED
    BY Zenon, AddsKeep, <1>1, <1>2, <1>3

\* One attempt of tryBroadcast.
LEMMA BroadcastKeeps == ASSUME BackInv, NEW t \in ShardTxs, Broadcast(t) PROVE BackInv'
  <1> USE DEF BackInv
  <1>0. /\ sending[t] # None
        /\ UNCHANGED <<shards, mode, pools, journal, writer, accepted, included, Chains, boots, Queries>>
    BY Zenon DEF Broadcast, Pool
  <1>1. /\ sending' \in [ShardTxs -> Nat \cup {None}] /\ published' \in [ShardTxs -> Nat]
        /\ \A u \in ShardTxs : u # t => sending'[u] = sending[u] /\ published'[u] = published[u]
        /\ \/ sending'[t] = None /\ published'[t] = published[t] + 1
           \/ published'[t] = published[t]
    <2>1. CASE sending' = [sending EXCEPT ![t] = None] /\ published' = [published EXCEPT ![t] = @ + 1]
      BY <2>1 DEF BackShape
    <2>2. CASE /\ sending' = [sending EXCEPT ![t] = IF @ + 1 < NumTryBroadCast THEN @ + 1 ELSE None]
               /\ UNCHANGED published
      <3>1. PICK s \in Nat : s = sending[t]
        BY Zenon, <1>0 DEF BackShape
      <3>2. (IF s + 1 < NumTryBroadCast THEN s + 1 ELSE None) \in Nat \cup {None}
        OBVIOUS
      <3>3. sending' = [sending EXCEPT ![t] = IF s + 1 < NumTryBroadCast THEN s + 1 ELSE None]
        BY Zenon, <2>2, <3>1
      <3>4. PICK x \in Nat \cup {None} : sending' = [sending EXCEPT ![t] = x]
        BY Zenon, <3>2, <3>3
      <3> QED
        BY Zenon, <2>2, <3>4 DEF BackShape
    <2> QED
      BY Zenon, <2>1, <2>2 DEF Broadcast, Sent
  <1>2. Sending'
    <2> SUFFICES ASSUME NEW u \in ShardTxs
                 PROVE  /\ published'[u] + (IF sending'[u] = None THEN 0 ELSE 1) <= accepted[u]
                        /\ OneShard => accepted[u] <= 1
      BY Zenon, <1>0 DEF Sending, OneShard
    <2>1. /\ published[u] + (IF sending[u] = None THEN 0 ELSE 1) <= accepted[u]
          /\ OneShard => accepted[u] <= 1
      BY Zenon DEF Sending
    <2>2. published[u] \in Nat /\ accepted[u] \in Nat
      BY Zenon DEF BackShape
    <2> QED
      BY <2>1, <2>2, <1>0, <1>1
  <1>3. BackShape'
    BY Zenon, <1>0, <1>1 DEF BackShape, Chains
  <1>4. Writers' /\ FirstBoot' /\ Locals' /\ Bases' /\ Asked'
    BY Zenon, WritersKept, FirstBootKept, LocalsKept, BasesKept, AskedKept, <1>0
  <1> QED
    BY Zenon, <1>2, <1>3, <1>4

\* A block takes a transaction out of its shard's pool.
LEMMA IncludeKeeps == ASSUME BackInv, NEW t \in ShardTxs, Include(t) PROVE BackInv'
  <1> USE DEF BackInv
  <1>1. /\ mode = "up" /\ included' = included \cup {t} /\ pools' = [pools EXCEPT ![t.shard] = @ \ {t}]
        /\ UNCHANGED <<shards, mode, journal, writer, accepted, sending, published, Chains, boots, Queries>>
    BY Zenon DEF Include, Sends
  <1>2. /\ pools' \in [Shards -> SUBSET ShardTxs]
        /\ \A s \in Shards : pools'[s] \subseteq pools[s] /\ pools[s] \subseteq pools'[s] \cup {t}
    BY ShardOf, <1>1 DEF BackShape
  <1>3. BackShape'
    BY <1>1, <1>2 DEF BackShape, Chains
  <1>4. FirstBoot'
    BY <1>1, <1>2 DEF FirstBoot, PoolOfShard
  <1>5. Locals'
    <2> SUFFICES ASSUME OneShard PROVE Locals'
      BY Zenon, <1>1 DEF Locals, OneShard
    <2>1. ASSUME NEW u \in ShardTxs, accepted[u] > 0 PROVE Safe(u)'
      <3>1. Safe(u)
        BY Zenon, <2>1 DEF Locals
      <3>2. u.shard \in Shards
        BY Zenon, ShardOf
      <3> QED
        BY <3>1, <3>2, <1>1, <1>2 DEF Safe
    <2>2. \A s \in shards : pools'[s] \subseteq journal'
      BY <1>1, <1>2 DEF Locals, BackShape
    <2> QED
      BY Zenon, <2>1, <2>2, <1>1 DEF Locals
  <1>6. Writers' /\ Sending' /\ Bases' /\ Asked'
    BY Zenon, WritersKept, SendingKept, BasesKept, AskedKept, <1>1
  <1> QED
    BY Zenon, <1>3, <1>4, <1>5, <1>6

\* A query and the chain below it leave the pools alone.
LEMMA QueryKeeps == BackInv /\ QueryStep => BackInv'
  <1> SUFFICES ASSUME BackInv, QueryStep PROVE BackInv'
    OBVIOUS
  <1> USE DEF BackInv
  <1>1. UNCHANGED <<shards, mode, pools, journal, writer, accepted, included, sending, published, Chains, boots>>
    BY Zenon DEF QueryStep, Insert, SetHead, Query, CheckCanonical, ReadRest, Answered, Pool, Sends
  <1>2. BackShape' /\ Writers' /\ FirstBoot' /\ Locals' /\ Sending' /\ Bases'
    <2>1. BackShape'
      BY Zenon, <1>1 DEF BackShape, Chains
    <2> QED
      BY Zenon, <2>1, <1>1, WritersKept, FirstBootKept, LocalsKept, SendingKept, BasesKept
  <1>3. Asked'
    <2>1. CASE Insert
      BY BackAssumption, <2>1 DEF Insert, Asked, QueryRecord
    <2>2. CASE SetHead
      BY <2>2 DEF SetHead, Asked
    <2>3. CASE Query
      BY <2>3 DEF Query, Asked, QueryRecord
    <2>4. CASE CheckCanonical
      BY BackAssumption, <2>4 DEF CheckCanonical, IsCanonical, Asked, QueryRecord
    <2>5. CASE ReadRest
      BY <2>5 DEF ReadRest, Asked, QueryRecord
    <2>6. CASE Answered
      BY Zenon, <2>6 DEF Answered, Asked
    <2> QED
      BY Zenon, <2>1, <2>2, <2>3, <2>4, <2>5, <2>6 DEF QueryStep
  <1> QED
    BY Zenon, <1>2, <1>3

\* Every step of the back end keeps the invariant.
LEMMA BackStep == BackInv /\ [BackNext]_backVars => BackInv'
  <1> SUFFICES ASSUME BackInv, [BackNext]_backVars PROVE BackInv'
    OBVIOUS
  <1>1. CASE UNCHANGED backVars
    <2>1. UNCHANGED <<shards, mode, pools, journal, writer, accepted, included, sending, published, chains,
                      closing, dbs, boots, reopened, canon, known, query, queries>>
      BY Zenon, <1>1 DEF backVars
    <2>2. UNCHANGED Chains /\ UNCHANGED Queries
      BY Zenon, <2>1 DEF Chains, Queries
    <2>3. BackShape'
      BY Zenon, <2>1 DEF BackInv, BackShape
    <2> QED
      BY Zenon, <2>1, <2>2, <2>3, WritersKept, FirstBootKept, LocalsKept, SendingKept, BasesKept, AskedKept DEF BackInv
  <1>2. CASE PoolStep
    BY Zenon, <1>2, StartKeeps, CrashKeeps, StopKeeps, CloseChainKeeps, ShardChainKeeps, NewPoolKeeps, RotateKeeps,
       AddPendingKeeps, MessageKeeps, BroadcastKeeps, IncludeKeeps DEF PoolStep
  <1> QED
    BY Zenon, <1>1, <1>2, QueryKeeps DEF BackNext

\* The service of a node keeps what it took: a pool has transactions of its own shard until
\* the first restart, with one shard an accepted transaction stays in pool or journal until
\* a block includes it, it is published at most once per acceptance, the open databases
\* are those of the chains, and an answer was canonical during the call.
THEOREM BackendIsConsistent == BackSpec => []BackendConsistent
  <1>1. BackSpec => []BackInv
    BY BackInitial, BackStep, PTL DEF BackSpec
  <1> QED
    BY <1>1, BackFollows, PTL

------------------------------------------------------------------------------
(* Signing: the senders that are recovered and cached. *)

TaskRecord == [feeder : Feeders, pos : Nat, inc : Nat]
Threads == 1..CacherThreads

\* The types of the variables but those of the cacher.
SignShape ==
  /\ batch \in Batches
  /\ senderOf \in [Objs -> SenderRecord \cup {None}]
  /\ Len(tasks) <= CacherThreads
  /\ asks \in [Askers -> AskRecord \cup {None}]

\* What is cached, and what is about to be cached or returned, is what the signer recovers.
SendersRight ==
  /\ \A o \in Objs : senderOf[o] # None => senderOf[o].from = SignerSender(senderOf[o].signer, batch[o])
  /\ \A w \in Threads : recovers[w] # None /\ recovers[w].addr # None =>
       recovers[w].addr = SignerSender(recovers[w].feeder.signer, batch[recovers[w].pos])
AnswerRight(a) ==
  asks[a] # None =>
    /\ asks[a].obj \in Objs
    /\ asks[a].addr = None => asks[a].from = SignerSender(a.signer, batch[asks[a].obj])
    /\ asks[a].addr # None => asks[a].addr = SignerSender(a.signer, batch[asks[a].obj])

\* The tasks of a batch, the transactions that one of n tasks goes over, and the tasks that a
\* call of recover has still to send.
Parts == TaskCount(Len(batch))
Class(n, o) == o % n
LeftOf(n, d) == IF d = None THEN 1..n ELSE IF d = RecoverReturned THEN {} ELSE d.next..n

\* The types, with k transactions in n tasks: fd feeds the channel ts, the threads are rs, and
\* ex counts the calls of Sender.  Tasks and threads are at transactions of the batch.
SendingAt(n, d) == d \notin {None, RecoverReturned} => d.tasks = n /\ d.next >= 1
Places(n, k, fd, ts, rs, ex) ==
  /\ fd \in [Feeders -> FeedRecord \cup {None}]
  /\ ts \in Seq(TaskRecord)
  /\ rs \in [Threads -> ThreadRecord \cup {None}]
  /\ ex \in [Feeders -> [1..k -> Nat]]
  /\ \A f \in Feeders : SendingAt(n, fd[f])
  /\ \A i \in 1..Len(ts) : ts[i].pos \in 1..k /\ ts[i].inc = n
  /\ \A w \in Threads : rs[w] # None => rs[w].pos \in 1..k /\ rs[w].inc = n

\* Two tasks of one feeder, wherever they are, go over different transactions.
TasksApart(n, ts) ==
  \A i, j \in 1..Len(ts) : i # j /\ ts[i].feeder = ts[j].feeder => Class(n, ts[i].pos) # Class(n, ts[j].pos)
ThreadsApart(n, rs) ==
  \A v, w \in Threads : v # w /\ rs[v] # None /\ rs[w] # None /\ rs[v].feeder = rs[w].feeder
    => Class(n, rs[v].pos) # Class(n, rs[w].pos)
TakenApart(n, ts, rs) ==
  \A w \in Threads, i \in 1..Len(ts) : rs[w] # None /\ rs[w].feeder = ts[i].feeder
    => Class(n, rs[w].pos) # Class(n, ts[i].pos)
SentApart(n, fd, ts) ==
  \A f \in Feeders : \A m \in LeftOf(n, fd[f]) : \A i \in 1..Len(ts) :
    ts[i].feeder = f => Class(n, ts[i].pos) # Class(n, m)
BegunApart(n, fd, rs) ==
  \A f \in Feeders : \A m \in LeftOf(n, fd[f]) : \A w \in Threads :
    rs[w] # None /\ rs[w].feeder = f => Class(n, rs[w].pos) # Class(n, m)
Apart(n, fd, ts, rs) ==
  /\ TasksApart(n, ts) /\ ThreadsApart(n, rs) /\ TakenApart(n, ts, rs)
  /\ SentApart(n, fd, ts) /\ BegunApart(n, fd, rs)

\* What a task has still to go over was not looked at, and nothing was looked at twice.
Ahead(n, r, o) == Class(n, o) = Class(n, r.pos) /\ (o > r.pos \/ (o = r.pos /\ r.addr = None))
Unseen(n, k, fd, ts, rs, ex) ==
  /\ \A f \in Feeders : \A m \in LeftOf(n, fd[f]) : \A o \in 1..k : Class(n, o) = Class(n, m) => ex[f][o] = 0
  /\ \A i \in 1..Len(ts) : \A o \in 1..k : Class(n, o) = Class(n, ts[i].pos) => ex[ts[i].feeder][o] = 0
  /\ \A w \in Threads : rs[w] # None => \A o \in 1..k : Ahead(n, rs[w], o) => ex[rs[w].feeder][o] = 0
  /\ \A f \in Feeders : \A o \in 1..k : ex[f][o] <= 1

Work(n, k, fd, ts, rs, ex) == Places(n, k, fd, ts, rs, ex) /\ Apart(n, fd, ts, rs) /\ Unseen(n, k, fd, ts, rs, ex)

SignInv ==
  /\ SignShape /\ SendersRight /\ (\A a \in Askers : AnswerRight(a))
  /\ Work(Parts, Len(batch), feeding, tasks, recovers, examined)

------------------------------------------------------------------------------
(* What a signature recovers to. *)

\* The signers are told apart by Equal.
LEMMA EqualSame ==
  ASSUME NEW s \in TxSigners, NEW t \in TxSigners, Equal(s, t)
  PROVE  s = t
BY DEF TxSigners, Equal, FrontierSigner, HomesteadSigner, NewEIP155Signer

\* The kinds of signers, and their chain ids.
LEMMA SignerKinds ==
  ASSUME NEW s \in TxSigners
  PROVE  \/ s = FrontierSigner /\ s.kind = "frontier"
         \/ s = HomesteadSigner /\ s.kind = "homestead"
         \/ s.kind = "eip155" /\ s.chain \in Nat /\ s = [kind |-> "eip155", chain |-> s.chain]
<1>1. ChainIds \subseteq Nat
  BY SignAssumption
<1> QED BY <1>1 DEF TxSigners, FrontierSigner, HomesteadSigner, NewEIP155Signer

\* The chain id is read back from V, whatever its length.
LEMMA ChainOfV ==
  ASSUME NEW c \in Nat, NEW p \in {0, 1}
  PROVE  deriveChainID(p + 35 + 2 * c) = c
<1>1. U64 \in Nat /\ U64 >= 64
  BY SignAssumption
<1> DEFINE v == p + 35 + 2 * c
<1>2. v \in Nat /\ v \notin {27, 28} /\ v - 35 \in Nat /\ (v - 35) \div 2 = c
  OBVIOUS
<1>3. v < U64 => (v - 35) % U64 = v - 35
  <2> HIDE DEF v
  <2> QED BY <1>1, <1>2
<1> HIDE DEF v
<1>4. deriveChainID(v) = c
  BY <1>2, <1>3 DEF deriveChainID
<1> QED BY <1>4 DEF v

\* Recovering is an address of a key or of a stranger, or fails.
LEMMA RecoverType ==
  ASSUME NEW h, NEW sig, NEW vb, NEW hs, sig # None => sig.key \in SigKeys
  PROVE  recoverPlain(h, sig, vb, hs) \in Addresses \cup {None}
BY Zenon DEF recoverPlain, ValidateSignatureValues, Ecrecover, Addresses

\* So is what a signer gives for a transaction of the batch.
LEMMA SenderType ==
  ASSUME batch \in Batches, NEW o \in Objs, NEW s
  PROVE  SignerSender(s, batch[o]) \in Addresses \cup {None}
<1>1. batch[o].sig # None => batch[o].sig.key \in SigKeys
  BY SignAssumption DEF Objs
<1>2. None \in Addresses \cup {None}
  OBVIOUS
<1> QED BY <1>1, <1>2, RecoverType, Zenon DEF SignerSender

\* With V 27 or 28 a good signature of the hash recovers to its key.
LEMMA RecoverPlainKey ==
  ASSUME NEW h, NEW sig, NEW p \in {0, 1}, NEW hs \in BOOLEAN, sig # None, sig.hash = h, sig.parity = p, sig.low
  PROVE  recoverPlain(h, sig, p + 27, hs) = sig.key
<1>1. ~(p + 27 < 0) /\ ~(p + 27 >= 256) /\ ((p + 27) - 27) % 256 = p
  OBVIOUS
<1> QED BY <1>1 DEF recoverPlain, ValidateSignatureValues, Ecrecover

\* Only with V 27 or 28 does recovering succeed.
LEMMA RecoverPlainV ==
  ASSUME NEW h, NEW sig, NEW vb \in Int, NEW hs, recoverPlain(h, sig, vb, hs) # None
  PROVE  sig # None /\ vb \in {27, 28, -27, -28}
<1> DEFINE size == IF vb < 0 THEN -vb ELSE vb
<1>1. ~(size >= 256) /\ sig # None /\ (size - 27) % 256 \in {0, 1}
  BY Zenon DEF recoverPlain, ValidateSignatureValues
<1>2. size \in 0..255
  BY <1>1
<1> HIDE DEF size
<1>3. size \in {27, 28}
  <2>1. CASE size < 27
    <3>1. (size - 27) % 256 = size - 27 + 256
      BY <1>2, <2>1
    <3> QED BY <1>1, <1>2, <2>1, <3>1
  <2>2. CASE size >= 27
    <3>1. (size - 27) % 256 = size - 27
      BY <1>2, <2>2
    <3> QED BY <1>1, <1>2, <2>2, <3>1
  <2> QED BY <1>2, <2>1, <2>2
<1> QED BY <1>1, <1>3 DEF size

\* The signer that signed recovers its key.
LEMMA SignedRecovers ==
  ASSUME batch \in Batches, NEW o \in Objs, NEW s \in TxSigners, s # NewEIP155Signer(0), NEW k \in SigKeys,
         batch[o] \in SignTx(batch[o].body, s, k)
  PROVE  SignerSender(s, batch[o]) = k
<1>1. PICK tx : tx = batch[o]
  OBVIOUS
<1>2. PICK g \in CryptoSign(SigHash(s, tx.body), k) : tx = [body |-> tx.body, v |-> SignatureValues(s, g.parity), sig |-> g]
  BY <1>1 DEF SignTx
<1>3. PICK p \in {0, 1} : g = [hash |-> SigHash(s, tx.body), key |-> k, parity |-> p, low |-> TRUE]
  BY <1>2 DEF CryptoSign
<1>4. g # None
  BY <1>1, <1>2, SignAssumption DEF Objs
<1>5. g.hash = SigHash(s, tx.body) /\ g.key = k /\ g.parity = p /\ g.low
  BY <1>3
<1>6. tx.sig = g /\ tx.v = SignatureValues(s, p)
  BY <1>2, <1>5
<1>7. \A hs \in BOOLEAN : recoverPlain(SigHash(s, tx.body), tx.sig, p + 27, hs) = k
  BY <1>4, <1>5, <1>6, RecoverPlainKey
<1>8. CASE s = FrontierSigner /\ s.kind = "frontier"
  <2>1. tx.v = p + 27
    BY <1>6, <1>8 DEF SignatureValues
  <2> QED BY <1>1, <1>7, <1>8, <2>1 DEF SignerSender
<1>9. CASE s = HomesteadSigner /\ s.kind = "homestead"
  <2>1. tx.v = p + 27
    BY <1>6, <1>9 DEF SignatureValues
  <2>2. SignerSender(s, tx) = recoverPlain(SigHash(s, tx.body), tx.sig, tx.v, TRUE)
    BY <1>9 DEF SignerSender
  <2> QED BY <1>1, <1>7, <2>1, <2>2
<1>10. CASE s.kind = "eip155" /\ s.chain \in Nat /\ s = [kind |-> "eip155", chain |-> s.chain]
  <2>1. s.chain # 0
    BY <1>10 DEF NewEIP155Signer
  <2>2. tx.v = p + 35 + 2 * s.chain
    BY <1>6, <1>10, <2>1 DEF SignatureValues
  <2>3. deriveChainID(tx.v) = s.chain
    BY <1>10, <2>2, ChainOfV
  <2>4. isProtectedV(tx.v)
    BY <1>10, <2>2 DEF isProtectedV
  <2>5. SignerSender(s, tx) = recoverPlain(SigHash(s, tx.body), tx.sig, tx.v - 2 * s.chain - 8, TRUE)
    BY <1>10, <2>3, <2>4 DEF SignerSender
  <2>6. tx.v - 2 * s.chain - 8 = p + 27
    BY <1>10, <2>2
  <2> QED BY <1>1, <1>7, <2>5, <2>6
<1> QED BY <1>8, <1>9, <1>10, SignerKinds

\* A V from which the chain id was taken is at most one above twice the chain id.
LEMMA ChainTaken ==
  ASSUME NEW v \in Nat, NEW c \in Nat, deriveChainID(v) = c, v \notin {27, 28},
         v - 2 * c - 8 \in {27, 28, -27, -28}
  PROVE  v - 2 * c - 35 \in {0, 1}
<1>1. U64 \in Nat /\ U64 >= 64
  BY SignAssumption
<1>2. SUFFICES ASSUME v - 2 * c - 8 \in {-27, -28} PROVE FALSE
  OBVIOUS
<1>3. (v - 35) \div 2 # c
  BY <1>2
<1>4. CASE v < U64 /\ v >= 35
  <2>1. (v - 35) % U64 = v - 35
    BY <1>1, <1>4
  <2> QED BY <1>3, <1>4, <2>1 DEF deriveChainID
<1>5. CASE v < U64 /\ v < 35
  <2>1. (v - 35) % U64 = v - 35 + U64
    BY <1>1, <1>5
  <2>2. (v - 35 + U64) \div 2 = c
    BY <1>5, <2>1 DEF deriveChainID
  <2> QED BY <1>1, <1>2, <2>2
<1>6. CASE ~(v < U64)
  BY <1>3, <1>6 DEF deriveChainID
<1> QED BY <1>4, <1>5, <1>6

\* A transaction that some signer recovers a sender of has a V that JSON accepts.
LEMMA RecoveredReads ==
  ASSUME NEW tx, tx.v \in Nat, NEW s \in TxSigners, SignerSender(s, tx) # None
  PROVE  UnmarshalJSON(tx)
<1>1. U64 \in Nat /\ U64 >= 64
  BY SignAssumption
<1>2. CASE ~isProtectedV(tx.v) \/ s.kind \in {"frontier", "homestead"}
  <2>1. \E h, hs : recoverPlain(h, tx.sig, tx.v, hs) # None
    BY <1>2, Zenon DEF SignerSender
  <2>2. tx.sig # None /\ tx.v \in {27, 28}
    BY <2>1, RecoverPlainV
  <2>3. (tx.v - 27) % 256 \in {0, 1}
    BY <2>2
  <2>4. ~isProtectedV(tx.v)
    BY <2>2 DEF isProtectedV
  <2> QED BY <2>2, <2>3, <2>4, Zenon DEF UnmarshalJSON, ValidateSignatureValues
<1>3. CASE isProtectedV(tx.v) /\ s.kind = "eip155" /\ s.chain \in Nat
  <2>1. s.kind # "frontier" /\ s.kind # "homestead"
    BY <1>3
  <2>2. deriveChainID(tx.v) = s.chain /\ recoverPlain(SigHash(s, tx.body), tx.sig, tx.v - 2 * s.chain - 8, TRUE) # None
    BY <1>3, <2>1, Zenon DEF SignerSender
  <2>3. PICK c \in Nat : c = s.chain
    BY <1>3
  <2>4. tx.sig # None /\ tx.v - 2 * c - 8 \in {27, 28, -27, -28}
    <3>1. tx.v - 2 * c - 8 \in Int
      BY <2>3
    <3>2. recoverPlain(SigHash(s, tx.body), tx.sig, tx.v - 2 * c - 8, TRUE) # None
      BY <2>2, <2>3, Zenon
    <3>3. PICK vb \in Int : vb = tx.v - 2 * c - 8
      BY <3>1
    <3>4. recoverPlain(SigHash(s, tx.body), tx.sig, vb, TRUE) # None
      BY <3>2, <3>3
    <3>5. tx.sig # None /\ vb \in {27, 28, -27, -28}
      BY <3>4, RecoverPlainV
    <3> QED BY <3>3, <3>5
  <2>5. tx.v - 2 * c - 35 \in {0, 1}
    BY <1>3, <2>2, <2>3, <2>4, ChainTaken DEF isProtectedV
  <2>6. PICK d \in {0, 1} : tx.v - 35 - 2 * c = d
    BY <2>5
  <2>7. (d % U64) % 256 = d
    BY <1>1
  <2> QED BY <1>3, <2>2, <2>3, <2>4, <2>6, <2>7, Zenon DEF UnmarshalJSON, ValidateSignatureValues
<1> QED BY <1>2, <1>3, SignerKinds

\* What the batch says of its transactions.
LEMMA BatchReads ==
  ASSUME batch \in Batches
  PROVE  RecoversSigner /\ JSONAccepts
<1>1. RecoversSigner
  BY SignedRecovers DEF RecoversSigner
<1>2. \A o \in Objs : batch[o].v \in Nat
  BY SignAssumption DEF Objs
<1>3. JSONAccepts
  BY <1>2, RecoveredReads, Zenon DEF JSONAccepts
<1> QED BY <1>1, <1>3

------------------------------------------------------------------------------
(* The tasks of a call of recover. *)

\* A batch that is not empty has at least one task, and no more than transactions.
LEMMA PartsAre ==
  ASSUME batch \in Batches
  PROVE  Len(batch) \in Nat /\ Parts \in Nat /\ Parts <= Len(batch) /\ (Len(batch) > 0 => Parts > 0)
<1>1. Len(batch) \in Nat /\ CacherThreads \in Nat \ {0}
  BY SignAssumption
<1>2. PICK k \in Nat, c \in Nat \ {0} : k = Len(batch) /\ c = CacherThreads
  BY <1>1
<1>3. CASE k < c * 4
  <2>1. Parts = (k + 3) \div 4
    BY <1>2, <1>3 DEF Parts, TaskCount
  <2> QED BY <1>2, <2>1
<1>4. CASE ~(k < c * 4)
  <2>1. Parts = c
    BY <1>2, <1>4 DEF Parts, TaskCount
  <2> QED BY <1>2, <1>4, <2>1
<1> QED BY <1>3, <1>4

\* A product with a positive factor is at least the other factor.
LEMMA AtLeast ==
  ASSUME NEW n \in Nat, n > 0, NEW d \in Int, d >= 1
  PROVE  n * d >= n
<1>1. n * d = n + n * (d - 1) /\ n * (d - 1) >= 0
  OBVIOUS
<1> QED BY <1>1

\* The next transaction of a task is one of its own.
LEMMA ClassNext ==
  ASSUME NEW n \in Nat, n > 0, NEW p \in Nat
  PROVE  Class(n, p + n) = Class(n, p)
<1>1. PICK q, r, x, y : q = p \div n /\ r = p % n /\ x = (p + n) \div n /\ y = (p + n) % n
  OBVIOUS
<1>2. q \in Int /\ r \in 0..(n - 1) /\ p = n * q + r
  BY <1>1
<1>3. x \in Int /\ y \in 0..(n - 1) /\ p + n = n * x + y
  BY <1>1
<1>4. n * (x - q - 1) = r - y /\ n * (q + 1 - x) = y - r
  BY <1>2, <1>3
<1>5. ~(x - q - 1 >= 1) /\ ~(q + 1 - x >= 1)
  BY <1>2, <1>3, <1>4, AtLeast
<1>6. x - q - 1 = 0
  BY <1>2, <1>3, <1>5
<1>7. r = y
  BY <1>2, <1>3, <1>4, <1>6
<1> QED BY <1>1, <1>7 DEF Class

\* The first transactions of the tasks are different ones.
LEMMA ClassApart ==
  ASSUME NEW n \in Nat, NEW m \in 1..n, NEW l \in 1..n, m # l
  PROVE  Class(n, m) # Class(n, l)
<1>1. \A x \in 1..n : x < n => x % n = x
  OBVIOUS
<1>2. n > 0 => n % n = 0
  OBVIOUS
<1>3. CASE m < n /\ l < n
  BY <1>1, <1>3 DEF Class
<1>4. CASE m = n /\ l < n
  BY <1>1, <1>2, <1>4 DEF Class
<1>5. CASE l = n /\ m < n
  BY <1>1, <1>2, <1>5 DEF Class
<1> QED BY <1>3, <1>4, <1>5

\* A call that has no more to send than before disturbs nothing.
LEMMA FeedKeeps ==
  ASSUME NEW n, NEW k, NEW fd, NEW ts, NEW rs, NEW ex, Work(n, k, fd, ts, rs, ex),
         NEW f \in Feeders, NEW d \in FeedRecord, SendingAt(n, d), LeftOf(n, d) \subseteq LeftOf(n, fd[f])
  PROVE  Work(n, k, [fd EXCEPT ![f] = d], ts, rs, ex)
<1>1. PICK fe : fe = [fd EXCEPT ![f] = d]
  OBVIOUS
<1>2. fd \in [Feeders -> FeedRecord \cup {None}]
  BY DEF Work, Places
<1>3. fe \in [Feeders -> FeedRecord \cup {None}]
  BY <1>1, <1>2
<1>4. fe[f] = d /\ \A g \in Feeders : g # f => fe[g] = fd[g]
  BY <1>1, <1>2
<1>5. \A g \in Feeders : LeftOf(n, fe[g]) \subseteq LeftOf(n, fd[g]) /\ SendingAt(n, fe[g])
  BY <1>4, Zenon DEF Work, Places
<1>6. Places(n, k, fe, ts, rs, ex)
  BY <1>3, <1>5, Zenon DEF Work, Places
<1>7. Apart(n, fe, ts, rs)
  BY <1>5, Zenon DEF Work, Apart, SentApart, BegunApart
<1>8. Unseen(n, k, fe, ts, rs, ex)
  BY <1>5, Zenon DEF Work, Unseen
<1> QED BY <1>1, <1>6, <1>7, <1>8 DEF Work

\* The elements of a sequence.
LEMMA SeqElements ==
  ASSUME NEW S, NEW s \in Seq(S)
  PROVE  \A i \in 1..Len(s) : s[i] \in S
OBVIOUS

\* A sequence with one element more.
Longer(s, e, t) ==
  /\ t \in Seq(TaskRecord) /\ Len(s) \in Nat /\ Len(t) = Len(s) + 1 /\ t[Len(t)] = e
  /\ \A i \in 1..Len(s) : t[i] = s[i]
  /\ \A i \in 1..Len(t) : (i \in 1..Len(s) /\ t[i] = s[i]) \/ (i = Len(t) /\ t[i] = e)

\* The channel with one task more.
LEMMA AppendIs ==
  ASSUME NEW s \in Seq(TaskRecord), NEW e \in TaskRecord
  PROVE  Longer(s, e, Append(s, e))
BY DEF Longer

\* What is left after a task, and the task before it.
LEMMA LeftAfter ==
  ASSUME NEW n \in Nat, NEW m \in 1..n
  PROVE  /\ m \in m..n /\ m + 1 >= 1 /\ (m + 1)..n \subseteq m..n
         /\ \A l \in (m + 1)..n : l \in 1..n /\ m # l
OBVIOUS

\* The record of a task.
LEMMA NewTask ==
  ASSUME NEW f \in Feeders, NEW m \in Nat, NEW n \in Nat
  PROVE  /\ [feeder |-> f, pos |-> m, inc |-> n] \in TaskRecord
         /\ [feeder |-> f, pos |-> m, inc |-> n].feeder = f
         /\ [feeder |-> f, pos |-> m, inc |-> n].pos = m
         /\ [feeder |-> f, pos |-> m, inc |-> n].inc = n
BY DEF TaskRecord

\* Sending the next task.
LEMMA SendKeeps ==
  ASSUME NEW n \in Nat, NEW k \in Nat, n <= k, NEW fd, NEW ts, NEW rs, NEW ex, Work(n, k, fd, ts, rs, ex),
         NEW f \in Feeders, fd[f] \notin {None, RecoverReturned}, NEW m, m = fd[f].next, m <= n
  PROVE  Work(n, k, [fd EXCEPT ![f] = [next |-> m + 1, tasks |-> n]],
              Append(ts, [feeder |-> f, pos |-> m, inc |-> n]), rs, ex)
<1>1. PICK d, t : d = [next |-> m + 1, tasks |-> n] /\ t = [feeder |-> f, pos |-> m, inc |-> n]
  OBVIOUS
<1>2. fd \in [Feeders -> FeedRecord \cup {None}] /\ ts \in Seq(TaskRecord) /\ SendingAt(n, fd[f])
  BY DEF Work, Places
<1>3. fd[f] \in FeedRecord
  BY <1>2
<1>4. m \in 1..n /\ m \in 1..k /\ m + 1 \in Nat
  BY <1>2, <1>3 DEF SendingAt, FeedRecord
<1>5. d \in FeedRecord /\ d # None /\ d # RecoverReturned /\ d.next = m + 1 /\ d.tasks = n
  <2>1. d \in FeedRecord /\ d.next = m + 1 /\ d.tasks = n
    BY <1>1, <1>4 DEF FeedRecord
  <2>2. d.next # 0
    BY <1>4, <2>1
  <2>3. d # None
    BY <2>1, SignAssumption, Zenon
  <2>4. RecoverReturned.next = 0
    BY DEF RecoverReturned
  <2> QED BY <2>1, <2>2, <2>3, <2>4, Zenon
<1>6. LeftOf(n, d) = (m + 1)..n /\ LeftOf(n, fd[f]) = m..n
  BY <1>5 DEF LeftOf
<1>7. SendingAt(n, d) /\ LeftOf(n, d) \subseteq LeftOf(n, fd[f])
  <2>1. m + 1 >= 1 /\ (m + 1)..n \subseteq m..n
    BY <1>4, LeftAfter, Zenon
  <2> QED BY <1>5, <1>6, <2>1, Zenon DEF SendingAt
<1>8. PICK fe : fe = [fd EXCEPT ![f] = d]
  OBVIOUS
<1>9. Work(n, k, fe, ts, rs, ex)
  BY <1>5, <1>7, <1>8, FeedKeeps
<1>10. fe[f] = d /\ \A g \in Feeders : g # f => fe[g] = fd[g]
  BY <1>2, <1>8
<1>11. m \in LeftOf(n, fd[f])
  <2>1. m \in m..n
    BY <1>4, LeftAfter, Zenon
  <2> QED BY <1>6, <2>1, Zenon
<1>12. PICK tt : tt = Append(ts, t)
  OBVIOUS
<1>13. t \in TaskRecord /\ t.feeder = f /\ t.pos = m /\ t.inc = n
  <2>1. m \in Nat
    BY <1>4
  <2> QED BY <1>1, <2>1, NewTask, Zenon
<1>14. /\ tt \in Seq(TaskRecord) /\ Len(tt) = Len(ts) + 1 /\ tt[Len(tt)] = t
       /\ \A i \in 1..Len(ts) : tt[i] = ts[i]
  <2>1. Longer(ts, t, tt)
    BY <1>2, <1>12, <1>13, AppendIs, Zenon
  <2> QED BY <2>1, Zenon DEF Longer
<1>15. \A i \in 1..Len(tt) : (i \in 1..Len(ts) /\ tt[i] = ts[i]) \/ (i = Len(tt) /\ tt[i] = t)
  <2>1. Longer(ts, t, tt)
    BY <1>2, <1>12, <1>13, AppendIs, Zenon
  <2> QED BY <2>1, Zenon DEF Longer
<1>16. Places(n, k, fe, tt, rs, ex)
  BY <1>4, <1>9, <1>13, <1>14, <1>15, Zenon DEF Work, Places
<1>17. Apart(n, fe, tt, rs)
  <2>0. /\ TasksApart(n, ts) /\ ThreadsApart(n, rs) /\ TakenApart(n, ts, rs) /\ SentApart(n, fd, ts)
        /\ BegunApart(n, fd, rs) /\ SentApart(n, fe, ts) /\ BegunApart(n, fe, rs)
    BY <1>9, Zenon DEF Work, Apart
  <2>1. \A i \in 1..Len(ts) : ts[i].feeder = f => Class(n, ts[i].pos) # Class(n, m)
    BY <1>11, <2>0, Zenon DEF SentApart
  <2>2. \A w \in Threads : rs[w] # None /\ rs[w].feeder = f => Class(n, rs[w].pos) # Class(n, m)
    BY <1>11, <2>0, Zenon DEF BegunApart
  <2>3. \A l \in LeftOf(n, d) : Class(n, m) # Class(n, l)
    <3>1. \A l \in LeftOf(n, d) : l \in 1..n /\ m # l
      BY <1>4, <1>6, LeftAfter, Zenon
    <3> QED BY <1>4, <3>1, ClassApart, Zenon
  <2>4. TasksApart(n, tt)
    <3> SUFFICES ASSUME NEW i \in 1..Len(tt), NEW j \in 1..Len(tt), i # j, tt[i].feeder = tt[j].feeder
                 PROVE  Class(n, tt[i].pos) # Class(n, tt[j].pos)
      BY Zenon DEF TasksApart
    <3>1. CASE i \in 1..Len(ts) /\ tt[i] = ts[i] /\ j \in 1..Len(ts) /\ tt[j] = ts[j]
      BY <2>0, <3>1, Zenon DEF TasksApart
    <3>2. CASE i \in 1..Len(ts) /\ tt[i] = ts[i] /\ j = Len(tt) /\ tt[j] = t
      BY <1>13, <2>1, <3>2, Zenon
    <3>3. CASE i = Len(tt) /\ tt[i] = t /\ j \in 1..Len(ts) /\ tt[j] = ts[j]
      BY <1>13, <2>1, <3>3, Zenon
    <3>4. (i \in 1..Len(ts) /\ tt[i] = ts[i]) \/ (i = Len(tt) /\ tt[i] = t)
      BY <1>15, Zenon
    <3>5. (j \in 1..Len(ts) /\ tt[j] = ts[j]) \/ (j = Len(tt) /\ tt[j] = t)
      BY <1>15, Zenon
    <3>6. ~(i = Len(tt) /\ j = Len(tt))
      OBVIOUS
    <3> QED BY <3>1, <3>2, <3>3, <3>4, <3>5, <3>6, Zenon
  <2>5. TakenApart(n, tt, rs)
    <3> SUFFICES ASSUME NEW w \in Threads, NEW i \in 1..Len(tt), rs[w] # None, rs[w].feeder = tt[i].feeder
                 PROVE  Class(n, rs[w].pos) # Class(n, tt[i].pos)
      BY Zenon DEF TakenApart
    <3>1. CASE i \in 1..Len(ts) /\ tt[i] = ts[i]
      BY <2>0, <3>1, Zenon DEF TakenApart
    <3>2. CASE tt[i] = t
      BY <1>13, <2>2, <3>2, Zenon
    <3> QED BY <1>15, <3>1, <3>2, Zenon
  <2>6. SentApart(n, fe, tt)
    <3> SUFFICES ASSUME NEW g \in Feeders, NEW l \in LeftOf(n, fe[g]), NEW i \in 1..Len(tt), tt[i].feeder = g
                 PROVE  Class(n, tt[i].pos) # Class(n, l)
      BY Zenon DEF SentApart
    <3>1. CASE i \in 1..Len(ts) /\ tt[i] = ts[i]
      BY <2>0, <3>1, Zenon DEF SentApart
    <3>2. CASE tt[i] = t
      BY <1>10, <1>13, <2>3, <3>2, Zenon
    <3> QED BY <1>15, <3>1, <3>2, Zenon
  <2> QED BY <2>0, <2>4, <2>5, <2>6, Zenon DEF Apart
<1>18. Unseen(n, k, fe, tt, rs, ex)
  <2>1. \A o \in 1..k : Class(n, o) = Class(n, m) => ex[f][o] = 0
    BY <1>11, Zenon DEF Work, Unseen
  <2>2. \A i \in 1..Len(tt) : \A o \in 1..k : Class(n, o) = Class(n, tt[i].pos) => ex[tt[i].feeder][o] = 0
    <3> SUFFICES ASSUME NEW i \in 1..Len(tt), NEW o \in 1..k, Class(n, o) = Class(n, tt[i].pos)
                 PROVE  ex[tt[i].feeder][o] = 0
      BY Zenon
    <3>1. CASE i \in 1..Len(ts) /\ tt[i] = ts[i]
      <4>1. \A j \in 1..Len(ts) : \A q \in 1..k : Class(n, q) = Class(n, ts[j].pos) => ex[ts[j].feeder][q] = 0
        BY <1>9, Zenon DEF Work, Unseen
      <4> QED BY <3>1, <4>1, Zenon
    <3>2. CASE tt[i] = t
      BY <1>13, <2>1, <3>2, Zenon
    <3> QED BY <1>15, <3>1, <3>2, Zenon
  <2> QED BY <1>9, <2>2, Zenon DEF Work, Unseen
<1> QED BY <1>1, <1>8, <1>12, <1>16, <1>17, <1>18 DEF Work

\* A thread takes the first task of the channel.
LEMMA TakeKeeps ==
  ASSUME NEW n \in Nat, NEW k \in Nat, NEW fd, NEW ts, NEW rs, NEW ex, Work(n, k, fd, ts, rs, ex), ts # <<>>,
         NEW w \in Threads, rs[w] = None
  PROVE  Work(n, k, fd, Tail(ts), [rs EXCEPT ![w] = RecoverAt(Head(ts), Head(ts).pos, None)], ex)
<1>1. ts \in Seq(TaskRecord) /\ rs \in [Threads -> ThreadRecord \cup {None}]
  BY DEF Work, Places
<1>2. PICK tt, h, r, re : tt = Tail(ts) /\ h = Head(ts) /\ r = RecoverAt(h, h.pos, None) /\ re = [rs EXCEPT ![w] = r]
  OBVIOUS
<1>3. /\ tt \in Seq(TaskRecord) /\ h \in TaskRecord /\ h = ts[1] /\ 1 \in 1..Len(ts)
      /\ \A i \in 1..Len(tt) : i + 1 \in 1..Len(ts) /\ i + 1 # 1 /\ tt[i] = ts[i + 1]
  BY <1>1, <1>2
<1>4. \A i, j \in 1..Len(tt) : i # j => i + 1 # j + 1
  BY <1>3
<1>5. r \in ThreadRecord /\ r # None /\ r.feeder = h.feeder /\ r.pos = h.pos /\ r.inc = h.inc /\ r.addr = None
  <2>1. r \in ThreadRecord /\ r.feeder = h.feeder /\ r.pos = h.pos /\ r.inc = h.inc /\ r.addr = None
    BY <1>2, <1>3 DEF RecoverAt, ThreadRecord, TaskRecord
  <2> QED BY <2>1, SignAssumption
<1>6. re \in [Threads -> ThreadRecord \cup {None}] /\ re[w] = r /\ \A v \in Threads : v # w => re[v] = rs[v]
  BY <1>1, <1>2, <1>5
<1>7. Places(n, k, fd, tt, re, ex)
  <2>1. /\ \A i \in 1..Len(ts) : ts[i].pos \in 1..k /\ ts[i].inc = n
        /\ \A v \in Threads : rs[v] # None => rs[v].pos \in 1..k /\ rs[v].inc = n
    BY Zenon DEF Work, Places
  <2>2. \A i \in 1..Len(tt) : tt[i].pos \in 1..k /\ tt[i].inc = n
    BY <1>3, <2>1, Zenon
  <2>3. r.pos \in 1..k /\ r.inc = n
    BY <1>3, <1>5, <2>1, Zenon
  <2>4. \A v \in Threads : re[v] # None => re[v].pos \in 1..k /\ re[v].inc = n
    BY <1>6, <2>1, <2>3, Zenon
  <2> QED BY <1>3, <1>6, <2>2, <2>4, Zenon DEF Work, Places
<1>8. Apart(n, fd, tt, re)
  <2>0. /\ TasksApart(n, ts) /\ ThreadsApart(n, rs) /\ TakenApart(n, ts, rs)
        /\ SentApart(n, fd, ts) /\ BegunApart(n, fd, rs)
    BY Zenon DEF Work, Apart
  <2>1. TasksApart(n, tt)
    <3> SUFFICES ASSUME NEW i \in 1..Len(tt), NEW j \in 1..Len(tt), i # j, tt[i].feeder = tt[j].feeder
                 PROVE  Class(n, tt[i].pos) # Class(n, tt[j].pos)
      BY Zenon DEF TasksApart
    <3>1. i + 1 # j + 1 /\ tt[i] = ts[i + 1] /\ tt[j] = ts[j + 1] /\ i + 1 \in 1..Len(ts) /\ j + 1 \in 1..Len(ts)
      BY <1>3, <1>4, Zenon
    <3> QED BY <2>0, <3>1, Zenon DEF TasksApart
  <2>2. \A v \in Threads : v # w /\ rs[v] # None /\ rs[v].feeder = h.feeder => Class(n, rs[v].pos) # Class(n, h.pos)
    BY <1>3, <2>0, Zenon DEF TakenApart
  <2>3. ThreadsApart(n, re)
    <3> SUFFICES ASSUME NEW u \in Threads, NEW v \in Threads, u # v, re[u] # None, re[v] # None,
                        re[u].feeder = re[v].feeder
                 PROVE  Class(n, re[u].pos) # Class(n, re[v].pos)
      BY Zenon DEF ThreadsApart
    <3>1. CASE u # w /\ v # w
      BY <1>6, <2>0, <3>1, Zenon DEF ThreadsApart
    <3>2. CASE u = w
      <4>1. re[u] = r /\ re[v] = rs[v]
        BY <1>6, <3>2
      <4> QED BY <1>5, <2>2, <3>2, <4>1, Zenon
    <3>3. CASE v = w
      <4>1. re[v] = r /\ re[u] = rs[u]
        BY <1>6, <3>3
      <4> QED BY <1>5, <2>2, <3>3, <4>1, Zenon
    <3> QED BY <3>1, <3>2, <3>3
  <2>4. \A i \in 1..Len(tt) : h.feeder = tt[i].feeder => Class(n, h.pos) # Class(n, tt[i].pos)
    BY <1>3, <2>0, Zenon DEF TasksApart
  <2>5. TakenApart(n, tt, re)
    <3> SUFFICES ASSUME NEW v \in Threads, NEW i \in 1..Len(tt), re[v] # None, re[v].feeder = tt[i].feeder
                 PROVE  Class(n, re[v].pos) # Class(n, tt[i].pos)
      BY Zenon DEF TakenApart
    <3>1. CASE v # w
      <4>1. re[v] = rs[v] /\ i + 1 \in 1..Len(ts) /\ tt[i] = ts[i + 1]
        BY <1>3, <1>6, <3>1, Zenon
      <4> QED BY <2>0, <4>1, Zenon DEF TakenApart
    <3>2. CASE v = w
      BY <1>5, <1>6, <2>4, <3>2, Zenon
    <3> QED BY <3>1, <3>2
  <2>6. SentApart(n, fd, tt)
    <3> SUFFICES ASSUME NEW g \in Feeders, NEW l \in LeftOf(n, fd[g]), NEW i \in 1..Len(tt), tt[i].feeder = g
                 PROVE  Class(n, tt[i].pos) # Class(n, l)
      BY Zenon DEF SentApart
    <3>1. i + 1 \in 1..Len(ts) /\ tt[i] = ts[i + 1]
      BY <1>3, Zenon
    <3> QED BY <2>0, <3>1, Zenon DEF SentApart
  <2>7. BegunApart(n, fd, re)
    <3> SUFFICES ASSUME NEW f \in Feeders, NEW m \in LeftOf(n, fd[f]), NEW v \in Threads, re[v] # None, re[v].feeder = f
                 PROVE  Class(n, re[v].pos) # Class(n, m)
      BY Zenon DEF BegunApart
    <3>1. CASE v # w
      BY <1>6, <2>0, <3>1, Zenon DEF BegunApart
    <3>2. CASE v = w
      <4>0. 1 \in 1..Len(ts)
        BY <1>3, Zenon
      <4>1. ts[1].feeder = f => Class(n, ts[1].pos) # Class(n, m)
        BY <2>0, <4>0, Zenon DEF SentApart
      <4>2. re[v] = r
        BY <1>6, <3>2
      <4> QED BY <1>3, <1>5, <4>1, <4>2, Zenon
    <3> QED BY <3>1, <3>2
  <2> QED BY <2>1, <2>3, <2>5, <2>6, <2>7, Zenon DEF Apart
<1>9. Unseen(n, k, fd, tt, re, ex)
  <2>1. \A i \in 1..Len(tt) : \A o \in 1..k : Class(n, o) = Class(n, tt[i].pos) => ex[tt[i].feeder][o] = 0
    <3> SUFFICES ASSUME NEW i \in 1..Len(tt) PROVE \A o \in 1..k : Class(n, o) = Class(n, tt[i].pos) => ex[tt[i].feeder][o] = 0
      BY Zenon
    <3>1. i + 1 \in 1..Len(ts) /\ tt[i] = ts[i + 1]
      BY <1>3, Zenon
    <3>2. \A j \in 1..Len(ts) : \A o \in 1..k : Class(n, o) = Class(n, ts[j].pos) => ex[ts[j].feeder][o] = 0
      BY Zenon DEF Work, Unseen
    <3> QED BY <3>1, <3>2, Zenon
  <2>2. \A v \in Threads : re[v] # None => \A o \in 1..k : Ahead(n, re[v], o) => ex[re[v].feeder][o] = 0
    <3>1. \A o \in 1..k : Class(n, o) = Class(n, h.pos) => ex[h.feeder][o] = 0
      BY <1>3, Zenon DEF Work, Unseen
    <3>2. \A o \in 1..k : Ahead(n, re[w], o) => ex[re[w].feeder][o] = 0
      BY <1>5, <1>6, <3>1, Zenon DEF Ahead
    <3>3. \A v \in Threads : v # w /\ re[v] # None => \A o \in 1..k : Ahead(n, re[v], o) => ex[re[v].feeder][o] = 0
      <4>1. \A v \in Threads : rs[v] # None => \A o \in 1..k : Ahead(n, rs[v], o) => ex[rs[v].feeder][o] = 0
        BY Zenon DEF Work, Unseen
      <4> QED BY <1>6, <4>1
    <3> QED BY <3>2, <3>3, Zenon
  <2> QED BY <2>1, <2>2, Zenon DEF Work, Unseen
<1> QED BY <1>2, <1>7, <1>8, <1>9 DEF Work

\* What the thread r looks at is the only change of the calls of Sender.
OneSeen(ex, ey, r) ==
  \A f \in DOMAIN ex : \A o \in DOMAIN ex[f] : ey[f][o] = ex[f][o] \/ (f = r.feeder /\ o = r.pos)
SeenNow(k, ex, ey, r) == ey \in [Feeders -> [1..k -> Nat]] /\ OneSeen(ex, ey, r) /\ ey[r.feeder][r.pos] <= 1

\* A thread ends, or goes on with its own transactions: what it looked at last is behind it.
LEMMA MoveKeeps ==
  ASSUME NEW n \in Nat, NEW k \in Nat, NEW fd, NEW ts, NEW rs, NEW ex, Work(n, k, fd, ts, rs, ex),
         NEW w \in Threads, rs[w] # None, NEW r \in ThreadRecord \cup {None}, NEW ey \in [Feeders -> [1..k -> Nat]],
         OneSeen(ex, ey, rs[w]), ey[rs[w].feeder][rs[w].pos] <= 1,
         r # None => /\ r.feeder = rs[w].feeder /\ r.pos \in 1..k /\ r.inc = n /\ Class(n, r.pos) = Class(n, rs[w].pos)
                     /\ \A o \in 1..k : Ahead(n, r, o) => Ahead(n, rs[w], o) /\ o # rs[w].pos
  PROVE  Work(n, k, fd, ts, [rs EXCEPT ![w] = r], ey)
<1>1. /\ rs \in [Threads -> ThreadRecord \cup {None}] /\ ex \in [Feeders -> [1..k -> Nat]]
      /\ ts \in Seq(TaskRecord)
  BY DEF Work, Places
<1>2. PICK re, z : re = [rs EXCEPT ![w] = r] /\ z = rs[w]
  OBVIOUS
<1>3. re \in [Threads -> ThreadRecord \cup {None}] /\ re[w] = r /\ \A v \in Threads : v # w => re[v] = rs[v]
  BY <1>1, <1>2
<1>4. z # None /\ z.pos \in 1..k /\ \A f \in Feeders : \A o \in 1..k : ey[f][o] = ex[f][o] \/ (f = z.feeder /\ o = z.pos)
  <2>1. \A f \in Feeders : \A o \in 1..k : ey[f][o] = ex[f][o] \/ (f = z.feeder /\ o = z.pos)
    BY <1>1, <1>2 DEF OneSeen
  <2> QED BY <1>2, <2>1, Zenon DEF Work, Places
<1>5. \A i \in 1..Len(ts) : ts[i].feeder \in Feeders
  <2>1. \A i \in 1..Len(ts) : ts[i] \in TaskRecord
    BY <1>1, SeqElements, Zenon
  <2> QED BY <2>1 DEF TaskRecord
<1>6. \A v \in Threads : rs[v] # None => rs[v].feeder \in Feeders
  BY <1>1 DEF ThreadRecord
<1>7. Places(n, k, fd, ts, re, ey)
  BY <1>2, <1>3, Zenon DEF Work, Places
<1>8. Apart(n, fd, ts, re)
  <2>0. /\ TasksApart(n, ts) /\ ThreadsApart(n, rs) /\ TakenApart(n, ts, rs)
        /\ SentApart(n, fd, ts) /\ BegunApart(n, fd, rs)
    BY Zenon DEF Work, Apart
  <2>1. \A v \in Threads : re[v] # None =>
          rs[v] # None /\ re[v].feeder = rs[v].feeder /\ Class(n, re[v].pos) = Class(n, rs[v].pos)
    <3> TAKE v \in Threads
    <3>1. CASE v = w
      BY <1>3, <3>1, Zenon
    <3>2. CASE v # w
      BY <1>3, <3>2, Zenon
    <3> QED BY <3>1, <3>2
  <2>2. ThreadsApart(n, re)
    BY <2>0, <2>1, Zenon DEF ThreadsApart
  <2>3. TakenApart(n, ts, re)
    BY <2>0, <2>1, Zenon DEF TakenApart
  <2>4. BegunApart(n, fd, re)
    <3> SUFFICES ASSUME NEW f \in Feeders, NEW m \in LeftOf(n, fd[f]), NEW v \in Threads, re[v] # None, re[v].feeder = f
                 PROVE  Class(n, re[v].pos) # Class(n, m)
      BY Zenon DEF BegunApart
    <3>1. rs[v] # None /\ rs[v].feeder = f /\ Class(n, re[v].pos) = Class(n, rs[v].pos)
      BY <2>1, Zenon
    <3> QED BY <2>0, <3>1, Zenon DEF BegunApart
  <2> QED BY <2>0, <2>2, <2>3, <2>4, Zenon DEF Apart
<1>9. Unseen(n, k, fd, ts, re, ey)
  <2>1. \A f \in Feeders : \A m \in LeftOf(n, fd[f]) : \A o \in 1..k : Class(n, o) = Class(n, m) => ey[f][o] = 0
    <3> TAKE f \in Feeders
    <3> TAKE m \in LeftOf(n, fd[f])
    <3> TAKE o \in 1..k
    <3> HAVE Class(n, o) = Class(n, m)
    <3>1. ~(f = z.feeder /\ o = z.pos)
      <4>1. BegunApart(n, fd, rs)
        BY DEF Work, Apart
      <4>2. rs[w].feeder = f => Class(n, rs[w].pos) # Class(n, m)
        BY <4>1, Zenon DEF BegunApart
      <4> QED BY <1>2, <4>2, Zenon
    <3>2. ex[f][o] = 0
      BY Zenon DEF Work, Unseen
    <3> QED BY <1>4, <3>1, <3>2, Zenon
  <2>2. \A i \in 1..Len(ts) : \A o \in 1..k : Class(n, o) = Class(n, ts[i].pos) => ey[ts[i].feeder][o] = 0
    <3> TAKE i \in 1..Len(ts)
    <3> TAKE o \in 1..k
    <3> HAVE Class(n, o) = Class(n, ts[i].pos)
    <3>1. ~(ts[i].feeder = z.feeder /\ o = z.pos)
      <4>1. TakenApart(n, ts, rs)
        BY DEF Work, Apart
      <4>2. rs[w].feeder = ts[i].feeder => Class(n, rs[w].pos) # Class(n, ts[i].pos)
        BY <4>1, Zenon DEF TakenApart
      <4> QED BY <1>2, <4>2, Zenon
    <3>2. ex[ts[i].feeder][o] = 0
      BY Zenon DEF Work, Unseen
    <3> QED BY <1>4, <1>5, <3>1, <3>2, Zenon
  <2>3. ASSUME NEW v \in Threads, re[v] # None, NEW o \in 1..k, Ahead(n, re[v], o)
        PROVE  ey[re[v].feeder][o] = 0
    <3>1. CASE v # w
      <4>1. re[v] = rs[v] /\ rs[v] # None
        BY <1>3, <2>3, <3>1
      <4>2. ~(rs[v].feeder = z.feeder /\ o = z.pos)
        <5>1. ThreadsApart(n, rs)
          BY DEF Work, Apart
        <5>2. Class(n, o) = Class(n, rs[v].pos)
          BY <2>3, <4>1, Zenon DEF Ahead
        <5>3. rs[v].feeder = rs[w].feeder => Class(n, rs[v].pos) # Class(n, rs[w].pos)
          BY <3>1, <4>1, <5>1, Zenon DEF ThreadsApart
        <5> QED BY <1>2, <5>2, <5>3, Zenon
      <4>3. ex[rs[v].feeder][o] = 0
        BY <2>3, <4>1, Zenon DEF Work, Unseen
      <4> QED BY <1>4, <1>6, <4>1, <4>2, <4>3, Zenon
    <3>2. CASE v = w
      <4>1. r # None /\ Ahead(n, r, o) /\ re[v] = r
        BY <1>3, <2>3, <3>2
      <4>2. r.feeder = z.feeder /\ Ahead(n, z, o) /\ o # z.pos
        BY <1>2, <4>1
      <4>3. ex[z.feeder][o] = 0
        BY <1>2, <4>2, Zenon DEF Work, Unseen
      <4>4. z.feeder \in Feeders
        BY <1>2, <1>6
      <4>5. ey[z.feeder][o] = ex[z.feeder][o]
        BY <1>4, <4>2, <4>4
      <4> QED BY <4>1, <4>2, <4>3, <4>5
    <3> QED BY <3>1, <3>2
  <2>4. \A f \in Feeders : \A o \in 1..k : ey[f][o] <= 1
    <3> TAKE f \in Feeders
    <3> TAKE o \in 1..k
    <3>1. CASE ey[f][o] = ex[f][o]
      <4>1. ex[f][o] <= 1
        BY Zenon DEF Work, Unseen
      <4> QED BY <3>1, <4>1
    <3>2. CASE f = z.feeder /\ o = z.pos
      BY <1>2, <3>2
    <3> QED BY <1>4, <3>1, <3>2, Zenon
  <2> QED BY <2>1, <2>2, <2>3, <2>4, Zenon DEF Unseen
<1> QED BY <1>2, <1>7, <1>8, <1>9 DEF Work

\* The thread goes on to its next transaction, or ends.
LEMMA NextIsAhead ==
  ASSUME NEW n \in Nat, n > 0, NEW k \in Nat, NEW z \in ThreadRecord, z.pos \in 1..k, z.inc = n,
         NEW r, r = IF RecoverAt(z, NextPos(z), None).pos > k THEN None ELSE RecoverAt(z, NextPos(z), None)
  PROVE  /\ r \in ThreadRecord \cup {None}
         /\ r # None => /\ r.addr = None /\ r.feeder = z.feeder /\ r.pos \in 1..k /\ r.inc = n
                        /\ Class(n, r.pos) = Class(n, z.pos)
                        /\ \A o \in 1..k : Ahead(n, r, o) => Ahead(n, z, o) /\ o # z.pos
<1>1. PICK p : p = z.pos + n
  OBVIOUS
<1>2. z.pos \in Nat /\ p \in Nat /\ NextPos(z) = p
  BY <1>1 DEF NextPos
<1>3. PICK x : x = RecoverAt(z, NextPos(z), None)
  OBVIOUS
<1>4. x \in ThreadRecord /\ x.addr = None /\ x.feeder = z.feeder /\ x.pos = p /\ x.inc = n
  BY <1>2, <1>3 DEF RecoverAt, ThreadRecord
<1>5. Class(n, p) = Class(n, z.pos)
  BY <1>1, <1>2, ClassNext
<1>6. SUFFICES ASSUME r # None PROVE r = x /\ x.pos \in 1..k /\ \A o \in 1..k : Ahead(n, x, o) => Ahead(n, z, o) /\ o # z.pos
  BY <1>3, <1>4, <1>5
<1>7. r = x /\ ~(p > k)
  BY <1>3, <1>4, <1>6
<1>8. x.pos \in 1..k
  BY <1>1, <1>2, <1>4, <1>7
<1>9. ASSUME NEW o \in 1..k, Ahead(n, x, o) PROVE Ahead(n, z, o) /\ o # z.pos
  <2>1. Class(n, o) = Class(n, z.pos) /\ o >= p
    <3>1. Class(n, o) = Class(n, p) /\ (o > p \/ o = p)
      BY <1>4, <1>9, Zenon DEF Ahead
    <3>2. o >= p
      BY <1>2, <3>1
    <3> QED BY <1>5, <3>1, <3>2, Zenon
  <2>2. o > z.pos
    BY <1>1, <1>2, <2>1
  <2>3. o # z.pos
    BY <1>2, <2>2
  <2> QED BY <2>1, <2>2, <2>3, Zenon DEF Ahead
<1> QED BY <1>7, <1>8, <1>9

GoesOn(n, k, z, r) ==
  /\ r \in ThreadRecord \cup {None}
  /\ r # None => /\ r.addr = None /\ r.feeder = z.feeder /\ r.pos \in 1..k /\ r.inc = n
                 /\ Class(n, r.pos) = Class(n, z.pos)
                 /\ \A o \in 1..k : Ahead(n, r, o) => Ahead(n, z, o) /\ o # z.pos

\* The same, in one word.
LEMMA NextGoesOn ==
  ASSUME NEW n \in Nat, n > 0, NEW k \in Nat, NEW z \in ThreadRecord, z.pos \in 1..k, z.inc = n,
         NEW r, r = IF RecoverAt(z, NextPos(z), None).pos > k THEN None ELSE RecoverAt(z, NextPos(z), None)
  PROVE  GoesOn(n, k, z, r)
BY NextIsAhead DEF GoesOn

------------------------------------------------------------------------------
(* The steps. *)

\* The rest of the state: what is cached, and the callers of Sender.
Answering == SignShape /\ SendersRight /\ \A a \in Askers : AnswerRight(a)

\* What is cached for the batch was recovered.
CacheRight(so) ==
  /\ so \in [Objs -> SenderRecord \cup {None}]
  /\ \A q \in Objs : so[q] # None => so[q].from = SignerSender(so[q].signer, batch[q])

\* What the signers give does not change.
LEMMA NothingCached ==
  ASSUME Answering, UNCHANGED <<batch, senderOf, recovers, asks>>, Len(tasks') <= CacherThreads
  PROVE  Answering'
<1>1. SignShape'
  BY Zenon DEF Answering, SignShape, Objs
<1>2. SendersRight'
  BY Zenon DEF Answering, SendersRight, Objs
<1>3. (\A a \in Askers : AnswerRight(a))'
  BY Zenon DEF Answering, AnswerRight, Objs
<1> QED BY <1>1, <1>2, <1>3 DEF Answering

\* Callers of Sender keep their own answer.
LEMMA AsksKeep ==
  ASSUME Answering, UNCHANGED <<batch, tasks, recovers>>, NEW a \in Askers, NEW v \in AskRecord \cup {None},
         asks' = [asks EXCEPT ![a] = v], senderOf' \in [Objs -> SenderRecord \cup {None}],
         \A o \in Objs : senderOf'[o] # None => senderOf'[o].from = SignerSender(senderOf'[o].signer, batch[o]),
         v # None => /\ v.obj \in Objs
                     /\ v.addr = None => v.from = SignerSender(a.signer, batch[v.obj])
                     /\ v.addr # None => v.addr = SignerSender(a.signer, batch[v.obj])
  PROVE  Answering'
<1>1. asks \in [Askers -> AskRecord \cup {None}]
  BY DEF Answering, SignShape
<1>2. asks' \in [Askers -> AskRecord \cup {None}] /\ asks'[a] = v /\ \A b \in Askers : b # a => asks'[b] = asks[b]
  BY <1>1
<1>3. Objs' = Objs
  BY Zenon DEF Objs
<1>4. SignShape'
  BY <1>2, <1>3, Zenon DEF Answering, SignShape
<1>5. SendersRight'
  BY <1>3, Zenon DEF Answering, SendersRight
<1>6. ASSUME NEW b \in Askers PROVE AnswerRight(b)'
  <2>1. CASE b # a
    BY <1>2, <1>3, <2>1, Zenon DEF Answering, AnswerRight
  <2>2. CASE b = a
    BY <1>2, <1>3, <2>2, Zenon DEF AnswerRight
  <2> QED BY <2>1, <2>2
<1> QED BY <1>4, <1>5, <1>6, Zenon DEF Answering

\* Storing what a signer recovers.
LEMMA StoreRight ==
  ASSUME Answering, NEW o \in Objs, NEW s \in TxSigners, NEW addr, addr = SignerSender(s, batch[o]), addr # None,
         NEW so, so = [senderOf EXCEPT ![o] = [signer |-> s, from |-> addr]]
  PROVE  CacheRight(so)
<1>1. batch \in Batches /\ senderOf \in [Objs -> SenderRecord \cup {None}]
  BY DEF Answering, SignShape
<1>2. addr \in Addresses
  BY <1>1, SenderType
<1>3. PICK e : e = [signer |-> s, from |-> addr]
  OBVIOUS
<1>4. e \in SenderRecord /\ e.signer = s /\ e.from = addr
  BY <1>2, <1>3 DEF SenderRecord
<1>5. so \in [Objs -> SenderRecord \cup {None}] /\ so[o] = e /\ \A q \in Objs : q # o => so[q] = senderOf[q]
  BY <1>1, <1>3, <1>4
<1>6. ASSUME NEW q \in Objs, so[q] # None PROVE so[q].from = SignerSender(so[q].signer, batch[q])
  <2>1. CASE q # o
    <3>1. so[q] = senderOf[q]
      BY <1>5, <2>1
    <3> QED BY <1>6, <3>1, Zenon DEF Answering, SendersRight
  <2>2. CASE q = o
    BY <1>4, <1>5, <2>2, Zenon
  <2> QED BY <2>1, <2>2
<1> QED BY <1>5, <1>6, Zenon DEF CacheRight

\* The calls of Sender.
LEMMA AskKeeps ==
  ASSUME Answering, NEW a \in Askers, Ask(a) \/ AskStores(a) \/ AskReturns(a)
  PROVE  Answering' /\ UNCHANGED <<batch, feeding, tasks, recovers, examined>>
<1>1. /\ batch \in Batches /\ senderOf \in [Objs -> SenderRecord \cup {None}]
      /\ asks \in [Askers -> AskRecord \cup {None}] /\ AnswerRight(a)
      /\ \A o \in Objs : senderOf[o] # None => senderOf[o].from = SignerSender(senderOf[o].signer, batch[o])
  BY Zenon DEF Answering, SignShape, SendersRight
<1>2. a.signer \in TxSigners /\ None \notin Addresses /\ None \notin AskRecord
  BY SignAssumption
<1>3. Objs \subseteq Nat
  BY DEF Objs
<1>4. CASE Ask(a)
  <2>0. PICK o \in Objs : asks' = [asks EXCEPT ![a] =
          IF Cached(a.signer, o) THEN [obj |-> o, addr |-> None, from |-> senderOf[o].from]
          ELSE [obj |-> o, addr |-> SignerSender(a.signer, batch[o]), from |-> None]]
    BY <1>4, Zenon DEF Ask
  <2>1. PICK v : /\ asks' = [asks EXCEPT ![a] = v]
                 /\ v = IF Cached(a.signer, o) THEN [obj |-> o, addr |-> None, from |-> senderOf[o].from]
                        ELSE [obj |-> o, addr |-> SignerSender(a.signer, batch[o]), from |-> None]
    BY <2>0, Zenon
  <2>2. CASE Cached(a.signer, o)
    <3>1. senderOf[o] \in SenderRecord /\ senderOf[o] # None /\ Equal(senderOf[o].signer, a.signer)
      BY <1>1, <2>2 DEF Cached
    <3>2. senderOf[o].signer \in TxSigners /\ senderOf[o].from \in Addresses
      BY <3>1 DEF SenderRecord
    <3>3. senderOf[o].signer = a.signer
      BY <1>2, <3>1, <3>2, EqualSame
    <3>4. senderOf[o].from = SignerSender(a.signer, batch[o])
      BY <1>1, <3>1, <3>3, Zenon
    <3>5. v = [obj |-> o, addr |-> None, from |-> senderOf[o].from]
      BY <2>1, <2>2
    <3>6. v \in AskRecord /\ v.obj = o /\ v.addr = None /\ v.from = senderOf[o].from
      BY <1>3, <3>2, <3>5 DEF AskRecord
    <3>7. UNCHANGED <<batch, senderOf, feeding, tasks, recovers, examined>>
      BY <1>4 DEF Ask
    <3>8. Answering'
      BY <1>1, <2>1, <3>4, <3>6, <3>7, AsksKeep, Zenon
    <3> QED BY <3>7, <3>8
  <2>3. CASE ~Cached(a.signer, o)
    <3>1. PICK addr : addr = SignerSender(a.signer, batch[o])
      OBVIOUS
    <3>2. addr \in Addresses \cup {None}
      BY <1>1, <3>1, SenderType
    <3>3. v = [obj |-> o, addr |-> addr, from |-> None]
      BY <2>1, <2>3, <3>1
    <3>4. v \in AskRecord /\ v.obj = o /\ v.addr = addr /\ v.from = None
      BY <1>3, <3>2, <3>3 DEF AskRecord
    <3>5. UNCHANGED <<batch, senderOf, feeding, tasks, recovers, examined>>
      BY <1>4 DEF Ask
    <3>6. Answering'
      BY <1>1, <2>1, <3>1, <3>4, <3>5, AsksKeep, Zenon
    <3> QED BY <3>5, <3>6
  <2> QED BY <2>2, <2>3
<1>5. CASE AskStores(a)
  <2>1. PICK o, addr : o = asks[a].obj /\ addr = asks[a].addr
    OBVIOUS
  <2>2. asks[a] # None /\ addr # None /\ o \in Objs /\ addr = SignerSender(a.signer, batch[o])
    BY <1>1, <1>5, <2>1, Zenon DEF AskStores, AnswerRight
  <2>3. PICK v : v = [obj |-> o, addr |-> None, from |-> addr]
    OBVIOUS
  <2>4. addr \in Addresses
    BY <1>1, <2>2, SenderType
  <2>5. v \in AskRecord /\ v.obj = o /\ v.addr = None /\ v.from = addr
    BY <1>3, <2>2, <2>3, <2>4 DEF AskRecord
  <2>6. /\ senderOf' = [senderOf EXCEPT ![o] = [signer |-> a.signer, from |-> addr]]
        /\ asks' = [asks EXCEPT ![a] = v] /\ UNCHANGED <<batch, feeding, tasks, recovers, examined>>
    BY <1>5, <2>1, <2>3 DEF AskStores
  <2>7. /\ senderOf' \in [Objs -> SenderRecord \cup {None}]
        /\ \A q \in Objs : senderOf'[q] # None => senderOf'[q].from = SignerSender(senderOf'[q].signer, batch[q])
    <3>1. PICK so : so = [senderOf EXCEPT ![o] = [signer |-> a.signer, from |-> addr]]
      OBVIOUS
    <3>2. PICK s \in TxSigners : s = a.signer
      BY <1>2
    <3>3. so = [senderOf EXCEPT ![o] = [signer |-> s, from |-> addr]] /\ addr = SignerSender(s, batch[o])
      BY <2>2, <3>1, <3>2
    <3>4. CacheRight(so)
      BY <2>2, <3>3, StoreRight
    <3>5. senderOf' = so
      BY <2>6, <3>1
    <3> QED BY <3>4, <3>5, Zenon DEF CacheRight
  <2>8. Answering'
    BY <2>2, <2>5, <2>6, <2>7, AsksKeep, Zenon
  <2> QED BY <2>6, <2>8
<1>6. CASE AskReturns(a)
  <2>1. PICK v : v = None
    OBVIOUS
  <2>2. asks' = [asks EXCEPT ![a] = v] /\ UNCHANGED <<batch, senderOf, feeding, tasks, recovers, examined>>
    BY <1>6, <2>1 DEF AskReturns
  <2>3. v \in AskRecord \cup {None}
    BY <2>1
  <2>4. Answering'
    <3>1. senderOf' \in [Objs -> SenderRecord \cup {None}]
      BY <1>1, <2>2
    <3>2. \A o \in Objs : senderOf'[o] # None => senderOf'[o].from = SignerSender(senderOf'[o].signer, batch[o])
      BY <1>1, <2>2, Zenon
    <3> QED BY <2>1, <2>2, <2>3, <3>1, <3>2, AsksKeep
  <2> QED BY <2>2, <2>4
<1> QED BY <1>4, <1>5, <1>6

\* The steps of recover.
LEMMA RecoverKeeps ==
  ASSUME SignInv, NEW f \in Feeders, Recover(f) \/ RecoverSends(f)
  PROVE  SignInv'
<1>1. Answering /\ Work(Parts, Len(batch), feeding, tasks, recovers, examined)
  BY DEF SignInv, Answering
<1>2. batch \in Batches /\ Len(tasks) <= CacherThreads /\ CacherThreads \in Nat /\ None \notin FeedRecord
  BY <1>1, SignAssumption DEF Answering, SignShape
<1>3. PICK n, k : n = Parts /\ k = Len(batch)
  OBVIOUS
<1>4. n \in Nat /\ k \in Nat /\ n <= k /\ (k > 0 => n > 0)
  BY <1>2, <1>3, PartsAre
<1>5. Work(n, k, feeding, tasks, recovers, examined)
  BY <1>1, <1>3
<1>6. UNCHANGED <<batch, senderOf, recovers, asks, examined>>
  BY DEF Recover, RecoverSends
<1>7. feeding \in [Feeders -> FeedRecord \cup {None}] /\ tasks \in Seq(TaskRecord) /\ SendingAt(n, feeding[f])
  BY <1>5 DEF Work, Places
<1>8. RecoverReturned \in FeedRecord /\ SendingAt(n, RecoverReturned) /\ LeftOf(n, RecoverReturned) = {}
  <2>1. RecoverReturned \in FeedRecord
    BY DEF RecoverReturned, FeedRecord
  <2>2. RecoverReturned # None
    BY <1>2, <2>1
  <2> QED BY <2>1, <2>2, Zenon DEF SendingAt, LeftOf
<1>9. Work(n, k, feeding', tasks', recovers, examined) /\ Len(tasks') <= CacherThreads
  <2>1. CASE Recover(f)
    <3>1. PICK d : /\ d = IF k = 0 THEN RecoverReturned ELSE [next |-> 1, tasks |-> n]
                   /\ feeding' = [feeding EXCEPT ![f] = d] /\ feeding[f] = None /\ tasks' = tasks
      BY <1>3, <2>1 DEF Recover, Parts
    <3>2. LeftOf(n, feeding[f]) = 1..n
      BY <3>1 DEF LeftOf
    <3>3. d \in FeedRecord /\ SendingAt(n, d) /\ LeftOf(n, d) \subseteq 1..n
      <4>1. CASE k = 0
        BY <1>8, <3>1, <4>1
      <4>2. CASE k # 0
        <5>1. d \in FeedRecord /\ d.next = 1 /\ d.tasks = n
          BY <1>4, <3>1, <4>2 DEF FeedRecord
        <5>2. d # None /\ d # RecoverReturned
          <6>1. d # None /\ RecoverReturned.next = 0
            BY <1>2, <5>1 DEF RecoverReturned
          <6>2. 1 # 0
            OBVIOUS
          <6> QED BY <5>1, <6>1, <6>2, Zenon
        <5> QED BY <5>1, <5>2 DEF SendingAt, LeftOf
      <4> QED BY <4>1, <4>2
    <3> QED BY <1>2, <1>5, <3>1, <3>2, <3>3, FeedKeeps, Zenon
  <2>2. CASE RecoverSends(f) /\ feeding[f].next > feeding[f].tasks
    <3>1. feeding' = [feeding EXCEPT ![f] = RecoverReturned] /\ tasks' = tasks
      BY <2>2, Zenon DEF RecoverSends
    <3>2. {} \subseteq LeftOf(n, feeding[f])
      OBVIOUS
    <3> QED BY <1>2, <1>5, <1>8, <3>1, <3>2, FeedKeeps, Zenon
  <2>3. CASE RecoverSends(f) /\ ~(feeding[f].next > feeding[f].tasks)
    <3>1. PICK m : m = feeding[f].next
      OBVIOUS
    <3>2. feeding[f] \notin {None, RecoverReturned}
      BY <2>3, Zenon DEF RecoverSends
    <3>3. feeding[f].tasks = n /\ m \in Nat
      BY <1>7, <3>1, <3>2 DEF SendingAt, FeedRecord
    <3>4. m <= n
      BY <1>4, <2>3, <3>1, <3>3
    <3>5. /\ Len(tasks) < CacherThreads /\ tasks' = Append(tasks, [feeder |-> f, pos |-> m, inc |-> n])
          /\ feeding' = [feeding EXCEPT ![f] = [next |-> m + 1, tasks |-> n]]
      BY <2>3, <3>1, <3>3, Zenon DEF RecoverSends
    <3>6. [feeder |-> f, pos |-> m, inc |-> n] \in TaskRecord
      BY <1>4, <3>3 DEF TaskRecord
    <3>7. Len(tasks') <= CacherThreads
      <4>1. Len(tasks') = Len(tasks) + 1 /\ Len(tasks) \in Nat
        <5>1. PICK t : t = [feeder |-> f, pos |-> m, inc |-> n]
          BY Zenon
        <5>2. Longer(tasks, t, tasks')
          BY <1>7, <3>5, <3>6, <5>1, AppendIs, Zenon
        <5> QED BY <5>2, Zenon DEF Longer
      <4> QED BY <1>2, <3>5, <4>1
    <3>8. Work(n, k, feeding', tasks', recovers, examined)
      BY <1>4, <1>5, <3>1, <3>2, <3>4, <3>5, SendKeeps
    <3> QED BY <3>7, <3>8
  <2> QED BY <2>1, <2>2, <2>3, Zenon
<1>10. Answering'
  BY <1>1, <1>6, <1>9, NothingCached, Zenon
<1>11. Parts' = n /\ Len(batch)' = k
  BY <1>3, <1>6 DEF Parts
<1>12. (Work(Parts, Len(batch), feeding, tasks, recovers, examined))'
  BY <1>6, <1>9, <1>11, Zenon
<1> QED BY <1>10, <1>12, Zenon DEF SignInv, Answering

\* A change of one thread and of what is cached leaves the rest right.
LEMMA ThreadRight ==
  ASSUME Answering, UNCHANGED <<batch, asks>>, NEW w \in Threads, NEW r \in ThreadRecord \cup {None},
         recovers \in [Threads -> ThreadRecord \cup {None}], recovers' = [recovers EXCEPT ![w] = r],
         Len(tasks') <= CacherThreads, senderOf' \in [Objs -> SenderRecord \cup {None}],
         \A o \in Objs : senderOf'[o] # None => senderOf'[o].from = SignerSender(senderOf'[o].signer, batch[o]),
         (r # None /\ r.addr # None) => r.addr = SignerSender(r.feeder.signer, batch[r.pos])
  PROVE  Answering'
<1>1. recovers'[w] = r /\ \A v \in Threads : v # w => recovers'[v] = recovers[v]
  OBVIOUS
<1>2. Objs' = Objs
  BY Zenon DEF Objs
<1>3. SignShape'
  BY <1>2, Zenon DEF Answering, SignShape
<1>4. ASSUME NEW v \in Threads, recovers'[v] # None /\ recovers'[v].addr # None
      PROVE  recovers'[v].addr = SignerSender(recovers'[v].feeder.signer, batch[recovers'[v].pos])
  <2>1. CASE v = w
    BY <1>1, <1>4, <2>1, Zenon
  <2>2. CASE v # w
    <3>1. recovers'[v] = recovers[v]
      BY <1>1, <2>2
    <3> QED BY <1>4, <3>1, Zenon DEF Answering, SendersRight
  <2> QED BY <2>1, <2>2
<1>5. SendersRight'
  BY <1>2, <1>4, Zenon DEF SendersRight
<1>6. (\A a \in Askers : AnswerRight(a))'
  BY <1>2, Zenon DEF Answering, AnswerRight
<1> QED BY <1>3, <1>5, <1>6 DEF Answering

\* Looking at the transaction at the thread's place, once.
LEMMA SeenOnce ==
  ASSUME NEW n \in Nat, NEW k \in Nat, NEW fd, NEW ts, NEW rs, NEW ex, Work(n, k, fd, ts, rs, ex),
         NEW w \in Threads, rs[w] # None, rs[w].addr = None, NEW g, NEW p, g = rs[w].feeder, p = rs[w].pos,
         NEW ey, ey = [ex EXCEPT ![g] = [ex[g] EXCEPT ![p] = @ + 1]]
  PROVE  SeenNow(k, ex, ey, rs[w])
<1>1. /\ rs \in [Threads -> ThreadRecord \cup {None}] /\ ex \in [Feeders -> [1..k -> Nat]]
      /\ p \in 1..k /\ \A o \in 1..k : Ahead(n, rs[w], o) => ex[g][o] = 0
  BY Zenon DEF Work, Places, Unseen
<1>2. g \in Feeders
  BY <1>1 DEF ThreadRecord
<1>3. ex[g][p] = 0
  BY <1>1, Zenon DEF Ahead
<1>4. PICK row : row = [ex[g] EXCEPT ![p] = 1]
  OBVIOUS
<1>5. ex[g] \in [1..k -> Nat]
  BY <1>1, <1>2
<1>6. row \in [1..k -> Nat] /\ row[p] = 1 /\ \A o \in 1..k : o # p => row[o] = ex[g][o]
  BY <1>1, <1>4, <1>5
<1>7. ey = [ex EXCEPT ![g] = row]
  <2>1. ex[g][p] + 1 = 1
    BY <1>3
  <2>2. ey = [ex EXCEPT ![g] = [ex[g] EXCEPT ![p] = ex[g][p] + 1]]
    BY Zenon
  <2> QED BY <1>4, <2>1, <2>2, Zenon
<1>8. ey \in [Feeders -> [1..k -> Nat]] /\ ey[g] = row /\ \A f \in Feeders : f # g => ey[f] = ex[f]
  <2>1. PICK F, R : F = Feeders /\ R = [1..k -> Nat]
    OBVIOUS
  <2>2. ex \in [F -> R] /\ row \in R /\ g \in F
    BY <1>1, <1>2, <1>6, <2>1
  <2>3. ey \in [F -> R]
    BY <1>7, <2>2, Zenon
  <2>4. ey[g] = row /\ \A f \in F : f # g => ey[f] = ex[f]
    BY <1>7, <2>2, Zenon
  <2> QED BY <2>1, <2>3, <2>4, Zenon
<1>9. \A f \in Feeders : \A o \in 1..k : ey[f][o] = ex[f][o] \/ (f = g /\ o = p)
  BY <1>6, <1>8
<1>10. DOMAIN ex = Feeders /\ \A f \in Feeders : DOMAIN ex[f] = 1..k
  BY <1>1
<1>11. OneSeen(ex, ey, rs[w])
  BY <1>9, <1>10, Zenon DEF OneSeen
<1>12. ey[g][p] <= 1
  <2>1. ey[g][p] = 1
    BY <1>6, <1>8, Zenon
  <2> QED BY <2>1
<1> QED BY <1>8, <1>11, <1>12, Zenon DEF SeenNow

\* The steps of a thread.
LEMMA CacheKeeps ==
  ASSUME SignInv, NEW w \in Threads, CacheTakes(w) \/ CacheLooks(w) \/ CacheStores(w)
  PROVE  SignInv'
<1>1. Answering /\ Work(Parts, Len(batch), feeding, tasks, recovers, examined)
  BY DEF SignInv, Answering
<1>2. /\ batch \in Batches /\ Len(tasks) <= CacherThreads /\ CacherThreads \in Nat
      /\ None \notin ThreadRecord /\ None \notin Addresses
      /\ senderOf \in [Objs -> SenderRecord \cup {None}]
      /\ \A o \in Objs : senderOf[o] # None => senderOf[o].from = SignerSender(senderOf[o].signer, batch[o])
  BY <1>1, SignAssumption DEF Answering, SignShape, SendersRight
<1>3. PICK n, k : n = Parts /\ k = Len(batch)
  OBVIOUS
<1>4. n \in Nat /\ k \in Nat /\ n <= k /\ (k > 0 => n > 0)
  BY <1>2, <1>3, PartsAre
<1>5. Work(n, k, feeding, tasks, recovers, examined)
  BY <1>1, <1>3
<1>6. UNCHANGED <<batch, feeding, asks>>
  BY DEF CacheTakes, CacheLooks, CacheStores
<1>7. /\ recovers \in [Threads -> ThreadRecord \cup {None}] /\ tasks \in Seq(TaskRecord)
      /\ examined \in [Feeders -> [1..k -> Nat]]
  BY <1>5 DEF Work, Places
<1>8. Objs = 1..k
  BY <1>3 DEF Objs
<1>9. PICK z : z = recovers[w]
  OBVIOUS
<1>10. z # None => /\ z \in ThreadRecord /\ z.feeder \in Feeders /\ z.pos \in 1..k /\ z.inc = n /\ n > 0
                   /\ z.feeder.signer \in TxSigners
  <2> HAVE z # None
  <2>1. z.pos \in 1..k /\ z.inc = n
    BY <1>5, <1>9, Zenon DEF Work, Places
  <2>2. z \in ThreadRecord
    BY <1>7, <1>9
  <2>3. z.feeder \in Feeders
    BY <2>2 DEF ThreadRecord
  <2>4. z.feeder.signer \in TxSigners
    BY <2>3, SignAssumption
  <2>5. n > 0
    BY <1>4, <2>1
  <2> QED BY <2>1, <2>2, <2>3, <2>4, <2>5
<1>11. PICK nx : nx = IF RecoverAt(z, NextPos(z), None).pos > k THEN None ELSE RecoverAt(z, NextPos(z), None)
  OBVIOUS
<1>12. Advanced(w) => recovers' = [recovers EXCEPT ![w] = nx]
  BY <1>3, <1>9, <1>11, Zenon DEF Advanced
<1>13. Answering' /\ Work(n, k, feeding, tasks', recovers', examined')
  <2>1. CASE CacheTakes(w)
    <3>1. PICK h, r : h = Head(tasks) /\ r = RecoverAt(h, h.pos, None)
      OBVIOUS
    <3>2. /\ recovers[w] = None /\ tasks # <<>> /\ recovers' = [recovers EXCEPT ![w] = r]
          /\ tasks' = Tail(tasks) /\ senderOf' = senderOf /\ examined' = examined
      BY <2>1, <3>1 DEF CacheTakes
    <3>3. h \in TaskRecord /\ Len(tasks') <= CacherThreads
      BY <1>2, <1>7, <3>1, <3>2
    <3>4. r \in ThreadRecord /\ r.addr = None
      BY <3>1, <3>3 DEF RecoverAt, ThreadRecord, TaskRecord
    <3>5. Answering'
      BY <1>1, <1>2, <1>6, <1>7, <3>2, <3>3, <3>4, ThreadRight
    <3>6. Work(n, k, feeding, Tail(tasks), [recovers EXCEPT ![w] = r], examined)
      BY <1>4, <1>5, <3>1, <3>2, TakeKeeps
    <3> QED BY <3>2, <3>5, <3>6
  <2>2. CASE CacheLooks(w)
    <3>1. z # None /\ z.addr = None /\ UNCHANGED <<senderOf, tasks>>
      BY <1>9, <2>2, Zenon DEF CacheLooks
    <3>2. examined' = [examined EXCEPT ![z.feeder] = [examined[z.feeder] EXCEPT ![z.pos] = @ + 1]]
      BY <1>9, <2>2, Zenon DEF CacheLooks
    <3>3. PICK ey : ey = examined'
      OBVIOUS
    <3>4. ey \in [Feeders -> [1..k -> Nat]] /\ OneSeen(examined, ey, recovers[w]) /\ ey[z.feeder][z.pos] <= 1
      <4>1. PICK g, p : g = z.feeder /\ p = z.pos
        OBVIOUS
      <4>2. ey = [examined EXCEPT ![g] = [examined[g] EXCEPT ![p] = @ + 1]] /\ g = recovers[w].feeder /\ p = recovers[w].pos
        BY <1>9, <3>2, <3>3, <4>1, Zenon
      <4>3. SeenNow(k, examined, ey, recovers[w])
        BY <1>4, <1>5, <1>9, <3>1, <4>2, SeenOnce, Zenon
      <4> QED BY <1>9, <4>3, Zenon DEF SeenNow
    <3>5. PICK addr : addr = SignerSender(z.feeder.signer, batch[z.pos])
      OBVIOUS
    <3>6. recovers' = [recovers EXCEPT ![w] = nx] \/ (addr # None /\ recovers' = [recovers EXCEPT ![w] = RecoverAt(z, z.pos, addr)])
      BY <1>9, <1>12, <2>2, <3>5, Zenon DEF CacheLooks
    <3>7. CASE recovers' = [recovers EXCEPT ![w] = nx]
      <4>1. /\ nx \in ThreadRecord \cup {None}
            /\ nx # None => /\ nx.addr = None /\ nx.feeder = z.feeder /\ nx.pos \in 1..k /\ nx.inc = n
                            /\ Class(n, nx.pos) = Class(n, z.pos)
                            /\ \A o \in 1..k : Ahead(n, nx, o) => Ahead(n, z, o) /\ o # z.pos
        <5>1. GoesOn(n, k, z, nx)
          BY <1>4, <1>10, <1>11, <3>1, NextGoesOn, Zenon
        <5> QED BY <5>1, Zenon DEF GoesOn
      <4>2. Answering'
        BY <1>1, <1>2, <1>6, <1>7, <3>1, <3>7, <4>1, ThreadRight
      <4>3. Work(n, k, feeding, tasks, [recovers EXCEPT ![w] = nx], ey)
        BY <1>4, <1>5, <1>9, <3>1, <3>4, <4>1, MoveKeeps, Zenon
      <4> QED BY <3>1, <3>3, <3>7, <4>2, <4>3
    <3>8. CASE addr # None /\ recovers' = [recovers EXCEPT ![w] = RecoverAt(z, z.pos, addr)]
      <4>1. PICK r : r = RecoverAt(z, z.pos, addr)
        OBVIOUS
      <4>2. addr \in Addresses \cup {None}
        BY <1>2, <1>8, <1>10, <3>1, <3>5, SenderType
      <4>3. r \in ThreadRecord /\ r.addr = addr /\ r.feeder = z.feeder /\ r.pos = z.pos /\ r.inc = n
        BY <1>10, <3>1, <4>1, <4>2 DEF RecoverAt, ThreadRecord
      <4>4. \A o \in 1..k : Ahead(n, r, o) => Ahead(n, z, o) /\ o # z.pos
        <5>1. z.pos \in Nat
          BY <1>10, <3>1
        <5>2. \A o \in 1..k : Ahead(n, r, o) => Class(n, o) = Class(n, z.pos) /\ o > z.pos
          BY <3>8, <4>3, Zenon DEF Ahead
        <5>3. \A o \in 1..k : o > z.pos => o # z.pos
          BY <5>1
        <5> QED BY <5>2, <5>3, Zenon DEF Ahead
      <4>5. Answering'
        BY <1>1, <1>2, <1>6, <1>7, <3>1, <3>5, <3>8, <4>1, <4>3, ThreadRight
      <4>6. r \in ThreadRecord \cup {None}
        BY <4>3
      <4>7. Work(n, k, feeding, tasks, [recovers EXCEPT ![w] = r], ey)
        BY <1>4, <1>5, <1>9, <1>10, <3>1, <3>4, <4>3, <4>4, <4>6, MoveKeeps, Zenon
      <4> QED BY <3>1, <3>3, <3>8, <4>1, <4>5, <4>7
    <3> QED BY <3>6, <3>7, <3>8
  <2>3. CASE CacheStores(w)
    <3>1. z # None /\ z.addr # None /\ UNCHANGED <<tasks, examined>> /\ recovers' = [recovers EXCEPT ![w] = nx]
      BY <1>9, <1>12, <2>3, Zenon DEF CacheStores
    <3>2. senderOf' = [senderOf EXCEPT ![z.pos] = [signer |-> z.feeder.signer, from |-> z.addr]]
      BY <1>9, <2>3, Zenon DEF CacheStores
    <3>3. z.addr = SignerSender(z.feeder.signer, batch[z.pos])
      BY <1>1, <1>9, <3>1, Zenon DEF Answering, SendersRight
    <3>4. PICK so, p, s, addr : so = senderOf' /\ p = z.pos /\ s = z.feeder.signer /\ addr = z.addr
      OBVIOUS
    <3>5. /\ p \in Objs /\ s \in TxSigners /\ addr = SignerSender(s, batch[p]) /\ addr # None
          /\ so = [senderOf EXCEPT ![p] = [signer |-> s, from |-> addr]]
      BY <1>8, <1>10, <3>1, <3>2, <3>3, <3>4
    <3>6. CacheRight(so)
      BY <1>1, <3>5, StoreRight
    <3>7. /\ nx \in ThreadRecord \cup {None}
          /\ nx # None => /\ nx.addr = None /\ nx.feeder = z.feeder /\ nx.pos \in 1..k /\ nx.inc = n
                          /\ Class(n, nx.pos) = Class(n, z.pos)
                          /\ \A o \in 1..k : Ahead(n, nx, o) => Ahead(n, z, o) /\ o # z.pos
      <4>1. GoesOn(n, k, z, nx)
        BY <1>4, <1>10, <1>11, <3>1, NextGoesOn, Zenon
      <4> QED BY <4>1, Zenon DEF GoesOn
    <3>8. Answering'
      <4>1. /\ senderOf' \in [Objs -> SenderRecord \cup {None}]
            /\ \A q \in Objs : senderOf'[q] # None => senderOf'[q].from = SignerSender(senderOf'[q].signer, batch[q])
        BY <3>4, <3>6, Zenon DEF CacheRight
      <4> QED BY <1>1, <1>2, <1>6, <1>7, <3>1, <3>7, <4>1, ThreadRight
    <3>9. OneSeen(examined, examined, recovers[w])
      BY DEF OneSeen
    <3>10. examined[z.feeder][z.pos] <= 1
      BY <1>5, <1>10, <3>1, Zenon DEF Work, Unseen
    <3>11. Work(n, k, feeding, tasks, [recovers EXCEPT ![w] = nx], examined)
      BY <1>4, <1>5, <1>7, <1>9, <3>1, <3>7, <3>9, <3>10, MoveKeeps, Zenon
    <3> QED BY <3>1, <3>8, <3>11
  <2> QED BY <2>1, <2>2, <2>3
<1>14. Parts' = n /\ Len(batch)' = k
  BY <1>3, <1>6 DEF Parts
<1>15. (Work(Parts, Len(batch), feeding, tasks, recovers, examined))'
  BY <1>6, <1>13, <1>14, Zenon
<1> QED BY <1>13, <1>15, Zenon DEF SignInv, Answering

\* At the start nothing is cached, sent or asked.
LEMMA SignStarts == ASSUME SignInit PROVE SignInv
<1>1. batch \in Batches /\ Len(tasks) = 0 /\ CacherThreads \in Nat \ {0} /\ Len(batch) \in Nat
  BY SignAssumption DEF SignInit
<1>2. SignShape
  BY <1>1 DEF SignInit, SignShape, Objs
<1>3. SendersRight /\ \A a \in Askers : AnswerRight(a)
  BY DEF SignInit, SendersRight, AnswerRight, Objs, Threads
<1>4. PICK n, k : n = Parts /\ k = Len(batch)
  OBVIOUS
<1>5. /\ tasks \in Seq(TaskRecord) /\ \A i \in 1..Len(tasks) : FALSE
      /\ \A w \in Threads : recovers[w] = None
      /\ \A f \in Feeders : feeding[f] = None
  BY <1>1 DEF SignInit, Threads
<1>6. Places(n, k, feeding, tasks, recovers, examined)
  <2>1. /\ feeding \in [Feeders -> FeedRecord \cup {None}] /\ recovers \in [Threads -> ThreadRecord \cup {None}]
        /\ examined \in [Feeders -> [1..k -> Nat]]
    BY <1>4 DEF SignInit, Threads
  <2> QED BY <1>5, <2>1, Zenon DEF Places, SendingAt
<1>7. Apart(n, feeding, tasks, recovers)
  BY <1>5, Zenon DEF Apart, TasksApart, ThreadsApart, TakenApart, SentApart, BegunApart
<1>8. \A f \in Feeders : \A o \in 1..k : examined[f][o] = 0 /\ examined[f][o] <= 1
  BY <1>4 DEF SignInit
<1>9. Unseen(n, k, feeding, tasks, recovers, examined)
  BY <1>5, <1>8, Zenon DEF Unseen
<1> QED BY <1>2, <1>3, <1>4, <1>6, <1>7, <1>9 DEF SignInv, Work

\* The inductive step.
LEMMA SignSteps == ASSUME SignInv, [SignNext]_signVars PROVE SignInv'
<1>1. CASE CacherNext
  BY <1>1, RecoverKeeps, CacheKeeps, Zenon DEF CacherNext, Threads
<1>2. CASE AskNext
  <2>1. Answering
    BY DEF SignInv, Answering
  <2>2. Answering' /\ UNCHANGED <<batch, feeding, tasks, recovers, examined>>
    BY <1>2, <2>1, AskKeeps, Zenon DEF AskNext
  <2> QED BY <2>2, Zenon DEF SignInv, Answering, Parts
<1>3. CASE UNCHANGED signVars
  <2>1. Answering /\ Len(tasks') <= CacherThreads /\ UNCHANGED <<batch, senderOf, recovers, asks>>
    BY <1>3 DEF SignInv, Answering, SignShape, signVars
  <2>2. Answering'
    BY <2>1, NothingCached
  <2>3. UNCHANGED <<batch, feeding, tasks, recovers, examined>>
    BY <1>3 DEF signVars
  <2> QED BY <2>2, <2>3, Zenon DEF SignInv, Answering, Parts
<1> QED BY <1>1, <1>2, <1>3 DEF SignNext

\* The invariant says what is wanted.
LEMMA SignMeans == ASSUME SignInv PROVE SendersConsistent
<1>1. /\ batch \in Batches /\ senderOf \in [Objs -> SenderRecord \cup {None}] /\ Len(tasks) <= CacherThreads
      /\ asks \in [Askers -> AskRecord \cup {None}] /\ recovers \in [Threads -> ThreadRecord \cup {None}]
  BY DEF SignInv, SignShape, Work, Places
<1>2. \A w \in Threads : recovers[w] # None => recovers[w].pos \in Objs
  BY Zenon DEF SignInv, Work, Places, Objs
<1>3. \A a \in Askers : asks[a] # None => asks[a].obj \in Objs
  BY Zenon DEF SignInv, AnswerRight
<1>4. \A o \in Objs : senderOf[o] # None => senderOf[o].signer \in TxSigners /\ senderOf[o].from \in Addresses
  BY <1>1 DEF SenderRecord
<1>5. \A a \in Askers : asks[a] # None => {asks[a].addr, asks[a].from} \subseteq Addresses \cup {None}
  BY <1>1 DEF AskRecord
<1>6. \A w \in Threads : recovers[w] # None => recovers[w].addr \in Addresses \cup {None}
  BY <1>1 DEF ThreadRecord
<1>7. SignTypeOK
  BY <1>1, <1>2, <1>3, <1>4, <1>5, <1>6, Zenon DEF SignTypeOK, Threads
<1>8. RecoversSigner /\ JSONAccepts
  BY <1>1, BatchReads
<1>9. AnswersRecovered
  BY Zenon DEF SignInv, AnswerRight, AnswersRecovered
<1>10. RecoveredOnce
  BY Zenon DEF SignInv, Work, Unseen, RecoveredOnce, Objs
<1> QED BY <1>7, <1>8, <1>9, <1>10 DEF SendersConsistent

\* Whatever signers, batches, threads and callers there are: a transaction that SignTx signed
\* is recovered to its signer, for a chain id of any length; Sender returns what the signer it
\* was called with recovers, although the callers and the threads of the cacher overwrite one
\* another's cached senders between the load and the store; and the tasks that recover splits
\* a batch into never look at one transaction twice.
THEOREM SendersAreConsistent == SignSpec => []SendersConsistent
<1>1. SignInit => SignInv
  BY SignStarts
<1>2. SignInv /\ [SignNext]_signVars => SignInv'
  BY SignSteps
<1>3. SignInv => SendersConsistent
  BY SignMeans
<1> QED BY <1>1, <1>2, <1>3, PTL DEF SignSpec
==============================================================================
