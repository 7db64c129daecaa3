------------------------------ MODULE KeyCache ------------------------------
(***************************************************************************)
(* The key directory and the account cache that follows it                 *)
(* (accounts/keystore/account_cache.go, file_cache.go, watch.go, and the   *)
(* operations of keystore.go that change both).                            *)
(*                                                                         *)
(* An account is a pair <<file, address>>; file names are numbers, so that *)
(* the order of the URLs is the order of the numbers.  Two scans of the    *)
(* directory can run at a time, the one of a caller of maybeReload and the *)
(* one of the watcher, and a user's operation changes the file and the     *)
(* cache in two steps.                                                     *)
(***************************************************************************)
EXTENDS Integers, Sequences, FiniteSets, SequencesExt, Absent

CONSTANTS KeyFiles,     \* file names, an interval of the naturals
          KeyAddrs,     \* addresses
          MaxEdits,     \* bound: changes of the directory by others; nobody changes it
                        \* any more once odd is not empty
          NewFiles,     \* the names that keyFileName gives, each once
          MaxChanges    \* bound: edits and operations through the key store together

ASSUME KeyAssumption == KeyFiles \subseteq Nat /\ IsFiniteSet(KeyFiles)

Scanners == {"reload", "watch"}

VARIABLES disk,      \* file -> None or [addr, mod]
          edits, ops,
          fresh,     \* the names not yet given
          all,       \* accountCache.all, sorted by file
          fileC,     \* fileCache: [all, lastMod]
          watcher,   \* [st, ev, debounce]
          throttled, \* the throttle timer has not fired since the last reload
          scan,      \* Scanners -> None or the scan in progress
          user,      \* the user's operation in progress
          odd        \* history: why the cache may stay behind the directory

keyVars == <<disk, edits, ops, fresh, all, fileC, watcher, throttled, scan, user, odd>>


Present == {f \in KeyFiles : disk[f] # None}
OnDisk == {<<f, disk[f].addr>> : f \in Present}
Changes == edits + ops

\* The account read from a file, None when the file is gone.
readAccount(f) == IF disk[f] = None THEN None ELSE <<f, disk[f].addr>>

------------------------------------------------------------------------------
(* Sorted lists of accounts. *)

\* sort.Search: the first position whose file is not below f.
FirstFrom(s, f) ==
  LET at == {i \in 1..Len(s) : s[i][1] >= f}
  IN  IF at = {} THEN Len(s) + 1 ELSE CHOOSE i \in at : \A j \in at : i <= j

\* Mutant: a new account goes to the front.
add_Front(s, a) == IF a \in ToSet(s) THEN s ELSE <<a>> \o s

\* accountCache.add
add(s, a) ==
  LET i == FirstFrom(s, a[1])
  IN  IF i <= Len(s) /\ s[i] = a THEN s ELSE InsertAt(s, i, a)

\* removeAccount
removeAccount(s, a) ==
  IF \E i \in 1..Len(s) : s[i] = a
  THEN RemoveAt(s, CHOOSE i \in 1..Len(s) : s[i] = a /\ \A j \in 1..(i - 1) : s[j] # a)
  ELSE s

\* accountCache.deleteByFile
deleteByFile(s, f) ==
  LET i == FirstFrom(s, f)
  IN  IF i <= Len(s) /\ s[i][1] = f THEN RemoveAt(s, i) ELSE s

------------------------------------------------------------------------------
(* The directory. *)

\* A change is seen by the watcher from the moment it watches the directory.  It is
\* lost on everybody when the watcher is only being started: the scan of the call that
\* starts it lists the directory at once.
Touch(why) ==
  /\ watcher' = IF watcher.st \in {"watching", "running"} THEN [watcher EXCEPT !.ev = TRUE]
                ELSE watcher
  /\ odd' = IF watcher.st = "starting"
            THEN odd \cup why \cup {"unwatched"} ELSE odd \cup why

PutFile(f, a) == disk' = [disk EXCEPT ![f] = [addr |-> a, mod |-> Changes + 1]]

Unlink(f) == disk' = [disk EXCEPT ![f] = None]

\* Somebody else creates, replaces or removes a key file.  Of a file that NewAccount
\* put into the cache and no scan has seen yet, a scan cannot tell that it went.
Edit ==
  /\ edits < MaxEdits /\ Changes < MaxChanges /\ odd = {} /\ edits' = edits + 1
  /\ \E f \in KeyFiles \ fresh :
       /\ \/ \E a \in KeyAddrs : PutFile(f, a) /\ (f \in Present => disk[f].addr # a)
          \/ f \in Present /\ Unlink(f)
       /\ Touch(IF f \in NewFiles \ fileC.all THEN {"unseen"} ELSE {})
  /\ UNCHANGED <<ops, fresh, all, fileC, throttled, scan, user>>

------------------------------------------------------------------------------
(* scanAccounts, in the hands of one of the two scanners. *)

\* fileCache.scan: the listing is taken before the lock.
StartScan(s) ==
  scan' = [scan EXCEPT ![s] = [pc |-> "diff", todo |-> <<>>, got |-> None,
                               files |-> [f \in KeyFiles |-> IF disk[f] = None THEN None
                                                             ELSE disk[f].mod]]]

\* Mutant: files that went are not compared.
Diffs_NoDeletes(files, fc) ==
  LET now == {f \in KeyFiles : files[f] # None}
      creates == now \ fc.all
      updates1 == {f \in now : files[f] > fc.lastMod} \ creates
  IN  [creates |-> creates, deletes |-> {}, updates |-> updates1]

\* The three sets of fileCache.scan.
Diffs(files, fc) ==
  LET now == {f \in KeyFiles : files[f] # None}
      creates == now \ fc.all
      updates1 == {f \in now : files[f] > fc.lastMod} \ creates
  IN  [creates |-> creates, deletes |-> fc.all \ now, updates |-> updates1]

\* The differences, in the order they are applied: an update first deletes.
Work(d) ==
  LET seq(S, k) == [i \in 1..Cardinality(S) |-> <<k, SetToSeq(S)[i]>>]
      up(S) == [i \in 1..(2 * Cardinality(S)) |->
                  <<IF i % 2 = 1 THEN "delete" ELSE "create", SetToSeq(S)[(i + 1) \div 2]>>]
  IN  seq(d.creates, "create") \o seq(d.deletes, "delete") \o up(d.updates)

\* History: another scan has listed the directory and is not through.
Overlap(s) ==
  IF \E t \in Scanners \ {s} : scan[t] # None /\ scan[t].pc # "end" THEN {"overlap"} ELSE {}

Diff(s) ==
  /\ scan[s] # None /\ scan[s].pc = "diff"
  /\ LET files == scan[s].files
         now == {f \in KeyFiles : files[f] # None}
         last == {files[f] : f \in now} \cup {0}
         work == Work(Diffs(files, fileC))
     IN  /\ fileC' = [all |-> now, lastMod |-> CHOOSE t \in last : \A u \in last : t >= u]
         /\ odd' = odd \cup Overlap(s)
         /\ scan' = [scan EXCEPT ![s] = [@ EXCEPT !.files = <<>>, !.todo = work,
                                           !.pc = IF work = <<>> THEN "end" ELSE "work"]]
  /\ UNCHANGED <<disk, edits, ops, fresh, all, watcher, throttled, user>>

\* One difference: a created file is read, and added in a later step.
Apply(s) ==
  /\ scan[s] # None /\ scan[s].pc = "work"
  /\ LET kind == Head(scan[s].todo)[1]
         f == Head(scan[s].todo)[2]
         rest == [scan[s] EXCEPT !.todo = Tail(@), !.pc = IF Tail(scan[s].todo) = <<>> THEN "end" ELSE @]
     IN  IF kind = "delete"
         THEN all' = deleteByFile(all, f) /\ scan' = [scan EXCEPT ![s] = rest]
         ELSE UNCHANGED all /\ scan' = [scan EXCEPT ![s] =
                IF readAccount(f) = None THEN rest
                ELSE [rest EXCEPT !.pc = "add", !.got = readAccount(f)]]
  /\ UNCHANGED <<disk, edits, ops, fresh, fileC, watcher, throttled, user, odd>>

\* History: the file already has an entry, for another address.
Twice(a) ==
  IF \E i \in 1..Len(all) : all[i][1] = a[1] /\ all[i] # a THEN {"two entries"} ELSE {}

AddRead(s) ==
  /\ scan[s] # None /\ scan[s].pc = "add"
  /\ all' = add(all, scan[s].got)
  /\ odd' = odd \cup Twice(scan[s].got)
  /\ scan' = [scan EXCEPT ![s] = [@ EXCEPT !.got = None,
                                    !.pc = IF scan[s].todo = <<>> THEN "end" ELSE "work"]]
  /\ UNCHANGED <<disk, edits, ops, fresh, fileC, watcher, throttled, user>>

------------------------------------------------------------------------------
(* watcher.loop *)

\* notify.Watch fails when the directory is not there yet.
WatchFails ==
  /\ watcher.st = "starting" /\ Present = {}
  /\ watcher' = [watcher EXCEPT !.st = "off"]
  /\ UNCHANGED <<disk, edits, ops, fresh, all, fileC, throttled, scan, user, odd>>

Watch ==
  /\ \/ watcher.st = "starting" /\ watcher' = [watcher EXCEPT !.st = "watching"]
     \/ watcher.st = "watching" /\ watcher' = [watcher EXCEPT !.st = "running"]
  /\ UNCHANGED <<disk, edits, ops, fresh, all, fileC, throttled, scan, user, odd>>

\* An event starts the delay, unless it is running; the loop is in a scan otherwise.
TakeEvent ==
  /\ watcher.st = "running" /\ watcher.ev /\ scan["watch"] = None
  /\ watcher' = [watcher EXCEPT !.ev = FALSE, !.debounce = TRUE]
  /\ UNCHANGED <<disk, edits, ops, fresh, all, fileC, throttled, scan, user, odd>>

Debounced ==
  /\ watcher.st = "running" /\ watcher.debounce /\ scan["watch"] = None
  /\ StartScan("watch")
  /\ UNCHANGED <<disk, edits, ops, fresh, all, fileC, watcher, throttled, user, odd>>

EndWatchScan ==
  /\ scan["watch"] # None /\ scan["watch"].pc = "end"
  /\ scan' = [scan EXCEPT !["watch"] = None]
  /\ watcher' = [watcher EXCEPT !.debounce = FALSE]
  /\ UNCHANGED <<disk, edits, ops, fresh, all, fileC, throttled, user, odd>>

------------------------------------------------------------------------------
(* maybeReload *)

\* maybeReload: TRUE when the caller has to scan.
Reloads == watcher.st # "running" /\ ~throttled

StartReload ==
  /\ watcher' = IF watcher.st = "off" THEN [watcher EXCEPT !.st = "starting"] ELSE watcher
  /\ throttled' = TRUE
  /\ StartScan("reload")

\* Mutant: the timer is not reset after a reload.
ThrottleFires_NotReset == throttled /\ FALSE /\ UNCHANGED keyVars

ThrottleFires ==
  /\ throttled
  /\ throttled' = FALSE
  /\ UNCHANGED <<disk, edits, ops, fresh, all, fileC, watcher, scan, user, odd>>

------------------------------------------------------------------------------
(* The operations of the key store. *)

\* Find, HasAddress and Accounts scan when nobody watches.
Query ==
  /\ Reloads /\ scan["reload"] = None /\ StartReload
  /\ UNCHANGED <<disk, edits, ops, fresh, all, fileC, user, odd>>

QueryScanned ==
  /\ scan["reload"] # None /\ scan["reload"].pc = "end"
  /\ scan' = [scan EXCEPT !["reload"] = None]
  /\ UNCHANGED <<disk, edits, ops, fresh, all, fileC, watcher, throttled, user, odd>>

Free == user # None => user.pc = "done"

UserVars == <<edits, all, fileC, throttled, scan>>

\* NewAccount, Import, ImportECDSA and ImportPreSaleKey: the key file comes first.
NewAccount ==
  /\ Free /\ Changes < MaxChanges /\ odd = {} /\ fresh # {}
  /\ \E a \in KeyAddrs, f \in fresh :
       /\ PutFile(f, a)
       /\ fresh' = fresh \ {f}
       /\ user' = [op |-> "add", pc |-> "cache", acct |-> <<f, a>>]
  /\ ops' = ops + 1
  /\ Touch({})
  /\ UNCHANGED UserVars

\* Delete: the key is found and decrypted, and its file removed.
Delete ==
  /\ Free /\ Changes < MaxChanges /\ odd = {}
  /\ \E i \in 1..Len(all) :
       /\ readAccount(all[i][1]) = all[i]
       /\ Unlink(all[i][1])
       /\ user' = [op |-> "delete", pc |-> "cache", acct |-> all[i]]
  /\ ops' = ops + 1
  /\ Touch({})
  /\ UNCHANGED fresh /\ UNCHANGED UserVars

\* cache.add or cache.delete, then refreshWallets.
ChangeCache ==
  /\ ~Free
  /\ LET a == user.acct
         there == readAccount(a[1]) = a
     IN  /\ all' = IF user.op = "add" THEN add(all, a) ELSE removeAccount(all, a)
         /\ odd' = odd \cup (IF there = (user.op = "add") THEN {} ELSE {"late change"})
                       \cup (IF user.op = "add" THEN Twice(a) ELSE {})
  /\ user' = [user EXCEPT !.pc = "done"]
  /\ UNCHANGED <<disk, edits, ops, fresh, fileC, watcher, throttled, scan>>

KeyInit ==
  /\ disk \in {d \in [KeyFiles -> {None} \cup [addr : KeyAddrs, mod : {0}]] :
                 \A f \in NewFiles : d[f] = None}
  /\ edits = 0 /\ ops = 0 /\ fresh = NewFiles
  /\ all = <<>> /\ fileC = [all |-> {}, lastMod |-> -1]
  /\ watcher = [st |-> "starting", ev |-> FALSE, debounce |-> FALSE] /\ throttled = TRUE
  /\ scan = [s \in Scanners |-> IF s = "watch" THEN None ELSE [pc |-> "diff", todo |-> <<>>,
               got |-> None, files |-> [f \in KeyFiles |-> IF disk[f] = None THEN None ELSE 0]]]
  /\ user = None /\ odd = {}

ScanStep(s) == Diff(s) \/ Apply(s) \/ AddRead(s)
WatchStep == Watch \/ WatchFails \/ TakeEvent \/ Debounced \/ EndWatchScan

KeyNext ==
  \/ \E s \in Scanners : ScanStep(s)
  \/ WatchStep
  \/ ThrottleFires \/ Query \/ QueryScanned
  \/ NewAccount \/ Delete \/ ChangeCache \/ Edit

\* The goroutines and the timers go on; nobody has to change the directory.
KeyFairness ==
  /\ \A s \in Scanners : WF_keyVars(ScanStep(s))
  /\ WF_keyVars(WatchStep) /\ WF_keyVars(ThrottleFires) /\ WF_keyVars(ChangeCache)
  /\ WF_keyVars(Query) /\ WF_keyVars(QueryScanned)

KeySpec == KeyInit /\ [][KeyNext]_keyVars /\ KeyFairness

------------------------------------------------------------------------------
(* Properties. *)

KeyAccounts == KeyFiles \X KeyAddrs

\* The cache holds accounts sorted by URL, and its state is well formed.
KeyTypeOK ==
  /\ all \in Seq(KeyAccounts)
  /\ \A i, j \in 1..Len(all) : i < j => all[i][1] <= all[j][1]
  /\ fileC.all \subseteq KeyFiles
  /\ watcher.st \in {"off", "starting", "watching", "running"}
  /\ \A s \in Scanners : scan[s] # None => scan[s].pc \in {"diff", "work", "add", "end"}

\* Nothing is under way between the directory and the cache.
CacheSettled ==
  /\ watcher.st = "running" /\ ~watcher.ev /\ ~watcher.debounce
  /\ scan = [s \in Scanners |-> None]
  /\ Free

\* maybeReload trusts a running watcher: when no event, delay or scan is left, the
\* cache is the directory.  The exceptions are the four recorded in odd: a change
\* between the first listing and notify.Watch, two scans at a time, a cache.add or
\* cache.delete that comes after the file changed again, and a new file that changes
\* before the first scan saw it.
CacheIsDirectory == CacheSettled /\ odd = {} => ToSet(all) = OnDisk /\ Len(all) = Cardinality(OnDisk)

\* Once the directory is left alone, the cache becomes what is in it, whether the
\* directory can be watched or not.
CatchesUp == <>[](odd = {} => ToSet(all) = OnDisk)
=============================================================================
