------------------------------- MODULE KeyLock -------------------------------
(***************************************************************************)
(* One address of the key store: its key files, the decrypted key that is  *)
(* kept while the address is unlocked, and the goroutines that lock it     *)
(* again (accounts/keystore/keystore.go, key.go, passphrase.go).           *)
(*                                                                         *)
(* A key file is a record of the fields that decide whether it can be      *)
(* decrypted; a ciphertext carries its passphrase and its key.  Several    *)
(* clients call at a time; every file access and every locked section is   *)
(* a step of its own, and the program may crash between two of them.       *)
(***************************************************************************)
EXTENDS Integers, Sequences, Absent

CONSTANTS Clients,
          Passes,      \* passphrases
          Paths,       \* file names, natural numbers
          OldFiles,    \* the key files that the directory may start with
          MaxCalls    \* bound: calls

VARIABLES files,     \* path -> None or key file
          cached,    \* the paths in the account cache
          unlocked,  \* None or the instance of the decrypted key in the map
          keys,      \* sequence of instances: [timed, abort, zero]
          timers,    \* instances with an expire goroutine
          call,      \* client -> None or the call in progress
          importMu,  \* the client that holds it
          calls,
          back       \* history: an Update put back a file that was deleted meanwhile

lockVars == <<files, cached, unlocked, keys, timers, call, importMu, calls, back>>

\* The key files that the store writes, and the calls in progress.
KeyFile == [version : {3}, kdf : {"scrypt"}, prf : {None}, cipher : {"aes-128-ctr"}, mac : BOOLEAN,
            pass : Passes \cup {None}, key : {"own"}]

CallRecord ==
  [op : {"unlock", "timed unlock", "update", "delete", "sign", "lock", "import"},
   pc : {"got", "temp", "cache"}, auth : Passes \cup {None}, new : Passes \cup {None},
   temp : KeyFile \cup {None}, inst : Nat \cup {None}, path : Paths \cup {None}]

\* None is no client, file name or call.
ASSUME LockAssumption == None \notin Clients \cup Paths /\ None \notin CallRecord

------------------------------------------------------------------------------
(* passphrase.go *)

\* EncryptKey: version 3, scrypt, aes-128-ctr.
EncryptKey(key, auth) ==
  [version |-> 3, kdf |-> "scrypt", prf |-> None, cipher |-> "aes-128-ctr",
   mac |-> TRUE, pass |-> auth, key |-> key]

\* getKDFKey: a key is derived with the two functions that are known.
getKDFKey(k) == k.kdf = "scrypt" \/ (k.kdf = "pbkdf2" /\ k.prf = "hmac-sha256")

\* DecryptDataV3, decryptKeyV1: the MAC tells the passphrase and a damaged text.
MacMatches(k, auth) == k.mac /\ k.pass = auth

decryptKeyV3(k, auth) == k.version = 3 /\ k.cipher = "aes-128-ctr" /\ getKDFKey(k) /\ MacMatches(k, auth)

decryptKeyV1(k, auth) == getKDFKey(k) /\ MacMatches(k, auth)

\* DecryptKey: the key, None for an error.
DecryptKey(k, auth) ==
  IF IF k.version = 1 THEN decryptKeyV1(k, auth) ELSE decryptKeyV3(k, auth) THEN k.key ELSE None

\* GetKey for the address whose key is "own".
GetKey(k, auth) == k # None /\ DecryptKey(k, auth) = "own"

\* accountCache.find for the address: the one path that is cached.
Find(p) == cached = {p}

------------------------------------------------------------------------------
(* The map of unlocked keys. *)

Idle(c) == call[c] = None /\ calls < MaxCalls

\* getDecryptedKey for the call that begins; it returns at once on an error.
Begin(c, rec) ==
  /\ Idle(c) /\ calls' = calls + 1
  /\ \E p \in Paths :
       /\ Find(p) /\ GetKey(files[p], rec.auth)
       /\ call' = [call EXCEPT ![c] = [rec EXCEPT !.path = p]]
  /\ UNCHANGED <<files, cached, unlocked, keys, timers, importMu, back>>

Call(op, auth, new) ==
  [op |-> op, pc |-> "got", auth |-> auth, new |-> new, temp |-> None, inst |-> None, path |-> None]

Decrypted(c) ==
  \E auth \in Passes :
    \/ \E op \in {"unlock", "timed unlock"} : Begin(c, Call(op, auth, None))
    \/ \E new \in Passes : Begin(c, Call("update", auth, new))
    \/ Begin(c, Call("delete", auth, None))
    \/ Begin(c, Call("sign", auth, None))

Return(c) == call' = [call EXCEPT ![c] = None]

\* Mutant: no goroutine is started when one was running.
TimedUnlock_NoTimer(c) ==
  /\ call[c] # None /\ call[c].op \in {"unlock", "timed unlock"}
  /\ LET timed == call[c].op = "timed unlock"
     IN  IF unlocked # None /\ ~keys[unlocked].timed
         THEN UNCHANGED <<unlocked, keys, timers>>
         ELSE /\ keys' = Append(keys, [timed |-> timed, abort |-> FALSE, zero |-> FALSE])
              /\ unlocked' = Len(keys) + 1
              /\ timers' = IF timed /\ unlocked = None THEN timers \cup {Len(keys) + 1} ELSE timers
  /\ Return(c)
  /\ UNCHANGED <<files, cached, importMu, calls, back>>

\* The locked section of TimedUnlock.  An address that is unlocked for good stays so;
\* otherwise the goroutine of the old key is told to end and the new key replaces it.
TimedUnlock(c) ==
  /\ call[c] # None /\ call[c].op \in {"unlock", "timed unlock"}
  /\ LET new == Len(keys) + 1
         timed == call[c].op = "timed unlock"
     IN  IF unlocked # None /\ ~keys[unlocked].timed
         THEN UNCHANGED <<unlocked, keys, timers>>
         ELSE /\ keys' = Append(IF unlocked = None THEN keys ELSE [keys EXCEPT ![unlocked].abort = TRUE],
                                [timed |-> timed, abort |-> FALSE, zero |-> FALSE])
              /\ unlocked' = new
              /\ timers' = IF timed THEN timers \cup {new} ELSE timers
  /\ Return(c)
  /\ UNCHANGED <<files, cached, importMu, calls, back>>

\* Mutant: the key is dropped without a look at which one it is.
expire_Any(u) ==
  IF unlocked = None THEN UNCHANGED <<unlocked, keys>>
  ELSE unlocked' = None /\ keys' = [keys EXCEPT ![unlocked].zero = TRUE]

\* Mutant: the key is zeroed before it is known to be the one in the map to drop.
expire_Stays(u) ==
  keys' = [keys EXCEPT ![u].zero = TRUE] /\ UNCHANGED unlocked

\* The timer's branch of expire for the instance u.
expire(u) ==
  IF unlocked = u THEN unlocked' = None /\ keys' = [keys EXCEPT ![u].zero = TRUE]
  ELSE UNCHANGED <<unlocked, keys>>

\* Lock reads the map, and expires what it saw after it has released the lock.
LockReads(c) ==
  /\ Idle(c) /\ unlocked # None
  /\ calls' = calls + 1
  /\ call' = [call EXCEPT ![c] = [Call("lock", None, None) EXCEPT !.inst = unlocked]]
  /\ UNCHANGED <<files, cached, unlocked, keys, timers, importMu, back>>

\* Either branch may be taken when the key was replaced meanwhile.
LockExpires(c) ==
  /\ call[c] # None /\ call[c].op = "lock"
  /\ \/ expire(call[c].inst)
     \/ keys[call[c].inst].abort /\ UNCHANGED <<unlocked, keys>>
  /\ Return(c)
  /\ UNCHANGED <<files, cached, timers, importMu, calls, back>>

\* Mutant: the goroutine waits for abort only.
Expires_OnAbort(u) ==
  /\ u \in timers /\ keys[u].abort
  /\ timers' = timers \ {u}
  /\ UNCHANGED <<files, cached, unlocked, keys, call, importMu, calls, back>>

\* The goroutine of a timed unlock.
Expires(u) ==
  /\ u \in timers
  /\ \/ expire(u)
     \/ keys[u].abort /\ UNCHANGED <<unlocked, keys>>
  /\ timers' = timers \ {u}
  /\ UNCHANGED <<files, cached, call, importMu, calls, back>>

\* SignHash and SignTx with the passphrase sign with a key of their own.
SignWithPassphrase(c) ==
  /\ call[c] # None /\ call[c].op = "sign"
  /\ Return(c)
  /\ UNCHANGED <<files, cached, unlocked, keys, timers, importMu, calls, back>>

------------------------------------------------------------------------------
(* The files. *)

\* Mutant: the temporary file is not read back.
Verified_Never(k, auth) == TRUE

\* StoreKey reads the temporary file back.
Verified(k, auth) == GetKey(k, auth)

\* StoreKey writes a temporary file, which the disk may damage, ...
WriteTemporary(c) ==
  /\ call[c] # None /\ call[c].op \in {"update", "import"} /\ call[c].pc = "got"
  /\ \E ok \in BOOLEAN :
       call' = [call EXCEPT ![c] = [@ EXCEPT !.pc = "temp",
                  !.temp = [EncryptKey("own", call[c].new) EXCEPT !.mac = ok]]]
  /\ UNCHANGED <<files, cached, unlocked, keys, timers, importMu, calls, back>>

\* ... and moves it into place when it is good.  Import goes on to cache.add.
Rename(c) ==
  /\ call[c] # None /\ call[c].pc = "temp"
  /\ IF Verified(call[c].temp, call[c].new)
     THEN /\ files' = [files EXCEPT ![call[c].path] = call[c].temp]
          /\ back' = (back \/ (call[c].op = "update" /\ files[call[c].path] = None))
          /\ IF call[c].op = "import"
             THEN call' = [call EXCEPT ![c].pc = "cache"] /\ UNCHANGED importMu
             ELSE Return(c) /\ UNCHANGED importMu
     ELSE /\ Return(c) /\ UNCHANGED <<files, back>>
          /\ importMu' = IF call[c].op = "import" THEN None ELSE importMu
  /\ UNCHANGED <<cached, unlocked, keys, timers, calls>>

\* Delete removes the file, if it is still there, and then the cache entry.
DeleteFile(c) ==
  /\ call[c] # None /\ call[c].op = "delete" /\ call[c].pc = "got"
  /\ IF files[call[c].path] = None THEN Return(c) /\ UNCHANGED files
     ELSE /\ files' = [files EXCEPT ![call[c].path] = None]
          /\ call' = [call EXCEPT ![c].pc = "cache"]
  /\ UNCHANGED <<cached, unlocked, keys, timers, importMu, calls, back>>

\* Mutant: importMu is not released.
ChangeCached_KeepsMutex(c) ==
  /\ call[c] # None /\ call[c].pc = "cache"
  /\ cached' = IF call[c].op = "import" THEN cached \cup {call[c].path} ELSE cached \ {call[c].path}
  /\ Return(c)
  /\ UNCHANGED <<files, unlocked, keys, timers, importMu, calls, back>>

ChangeCached(c) ==
  /\ call[c] # None /\ call[c].pc = "cache"
  /\ cached' = IF call[c].op = "import" THEN cached \cup {call[c].path} ELSE cached \ {call[c].path}
  /\ importMu' = IF call[c].op = "import" THEN None ELSE importMu
  /\ Return(c)
  /\ UNCHANGED <<files, unlocked, keys, timers, calls, back>>

\* A scan of the directory brings the cache up to date.
Scanned ==
  /\ cached' = {p \in Paths : files[p] # None}
  /\ cached' # cached
  /\ UNCHANGED <<files, unlocked, keys, timers, call, importMu, calls, back>>

\* Mutant: Import takes no mutex.
ImportChecks_NoMutex(c) ==
  /\ Idle(c)
  /\ calls' = calls + 1
  /\ cached = {} /\ UNCHANGED importMu
  /\ \E p \in Paths, new \in Passes :
       /\ \A q \in Paths : files[q] # None => q < p
       /\ \A d \in Clients : call[d] # None => call[d].path # p
       /\ call' = [call EXCEPT ![c] = [Call("import", None, new) EXCEPT !.path = p]]
  /\ UNCHANGED <<files, cached, unlocked, keys, timers, back>>

\* Import and ImportECDSA: under importMu, and only when the address is not known.  The
\* name of the new file is later than all others.
ImportChecks(c) ==
  /\ Idle(c) /\ importMu = None
  /\ calls' = calls + 1
  /\ cached = {} /\ importMu' = c
  /\ \E p \in Paths, new \in Passes :
       /\ \A q \in Paths : files[q] # None => q < p
       /\ \A d \in Clients : call[d] # None => call[d].path # p
       /\ call' = [call EXCEPT ![c] = [Call("import", None, new) EXCEPT !.path = p]]
  /\ UNCHANGED <<files, cached, unlocked, keys, timers, back>>

\* The program ends and starts again: the files stay, and the first scan reads them.
CrashKeys ==
  /\ calls < MaxCalls
  /\ cached' = {p \in Paths : files[p] # None}
  /\ unlocked' = None /\ keys' = <<>> /\ timers' = {}
  /\ call' = [c \in Clients |-> None] /\ importMu' = None
  /\ calls' = calls + 1
  /\ UNCHANGED <<files, back>>

LockInit ==
  /\ files \in [Paths -> {None} \cup OldFiles] /\ \A p \in Paths \ {1} : files[p] = None
  /\ cached = {p \in Paths : files[p] # None}
  /\ unlocked = None /\ keys = <<>> /\ timers = {}
  /\ call = [c \in Clients |-> None] /\ importMu = None /\ calls = 0 /\ back = FALSE

ClientNext(c) ==
  \/ Decrypted(c) \/ TimedUnlock(c) \/ LockReads(c) \/ LockExpires(c) \/ SignWithPassphrase(c)
  \/ WriteTemporary(c) \/ Rename(c) \/ DeleteFile(c) \/ ChangeCached(c) \/ ImportChecks(c)

LockNext ==
  \/ \E c \in Clients : ClientNext(c)
  \/ \E u \in timers : Expires(u)
  \/ Scanned \/ CrashKeys

\* The timers fire; nobody has to call.
LockFairness == WF_lockVars(\E u \in timers : Expires(u))

LockSpec == LockInit /\ [][LockNext]_lockVars /\ LockFairness

------------------------------------------------------------------------------
(* Properties. *)

\* The instances exist, a timer belongs to a timed one, and the mutex to a client.
LockTypeOK ==
  /\ unlocked # None => unlocked \in 1..Len(keys)
  /\ timers \subseteq {u \in 1..Len(keys) : keys[u].timed}
  /\ cached \subseteq Paths
  /\ importMu \in Clients \cup {None}
  /\ importMu # None => call[importMu] # None /\ call[importMu].op = "import"

\* The key that SignHash and SignTx find in the map has not been zeroed, however Lock,
\* TimedUnlock and the expire goroutines follow each other.
SignsWithKey == unlocked # None => ~keys[unlocked].zero

\* An address unlocked for a time has a goroutine that will lock it, which nobody has
\* told to end.
WillExpire == unlocked # None /\ keys[unlocked].timed => unlocked \in timers /\ ~keys[unlocked].abort

\* An address unlocked for good is locked by a call of Lock or the end of the program,
\* and by nothing else: no timer of an earlier unlock reaches it.
StaysUnlocked ==
  [][ unlocked # None /\ ~keys[unlocked].timed /\ unlocked' # unlocked
      => CrashKeys \/ \E c \in Clients : call[c] # None /\ call[c].op = "lock" /\ call'[c] = None ]_lockVars

\* A key file that could be decrypted can be decrypted: StoreKey replaces it by a file
\* it has read back, in one step.  The files it starts with are the exception.
FilesDecrypt ==
  \A p \in Paths : files[p] # None /\ files[p] \notin OldFiles
                   => \E auth \in Passes : GetKey(files[p], auth)

\* importMu keeps two imports of a key from storing it twice.  Only an Update that was
\* under way when the key was deleted can add a second file.
ImportedOnce == ~back => \A p, q \in Paths : files[p] # None /\ files[q] # None => p = q

\* A timed unlock ends.
UnlockEnds ==
  \A u \in 1..MaxCalls :
    unlocked = u /\ u \in timers ~> unlocked # u

\* The keys in memory and on disk are those that unlocking, importing and storing
\* promise, whatever calls overlap.
KeysSafe == LockTypeOK /\ SignsWithKey /\ WillExpire /\ FilesDecrypt /\ ImportedOnce
=============================================================================
