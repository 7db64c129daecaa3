-------------------------- MODULE BackgroundProofs --------------------------
(*****************************************************************************)
(* What runs in the background, each for itself: the retries of a sender,    *)
(* for every number of retries, blocks and messages; the permits and         *)
(* messages of startMessageHandle, for every set of topics and messages,     *)
(* every capacity and any number of goroutines; the promise of the index     *)
(* tail, for chains of every length, any number of rewinds, launches and     *)
(* crashes, and every txLookupLimit; and the service manager with the search *)
(* for peers, for every set of hosts.                                        *)
(*****************************************************************************)
EXTENDS MessageSender, Gossip, TxIndex, PeerFinder, FiniteSetTheorems, TLAPS

------------------------------------------------------------------------------
(* The retries: StopRetry stops every earlier ANNOUNCE or PREPARED, although the
   old retry is stopped and the new one stored in two steps and Reset deletes
   without a lock. *)

Retry == [type : MessageTypes, num : 0..MaxBlock, count : Nat, active : BOOLEAN,
          by : Callers, pc : {"new", "sleep", "send", "done"}]

Thread == [pc : {"idle", "store", "delete", "announce"}, type : MessageTypes]

Types ==
  /\ blockNum \in 0..MaxBlock
  /\ messagesToRetry \in [MessageTypes -> Nat]
  /\ retries \in Seq(Retry)
  /\ thread \in [Callers -> Thread]

\* The map points to a retry of its own type.
OwnType ==
  \A t \in MessageTypes : messagesToRetry[t] # 0 =>
    messagesToRetry[t] \in Ids /\ retries[messagesToRetry[t]].type = t

\* A retry that is not started yet is the one its caller is about to store.
NewIsStored ==
  \A i \in Ids : retries[i].pc = "new" =>
    thread[retries[i].by].pc = "store" /\ thread[retries[i].by].type = retries[i].type

\* A caller has at most one that is not started.
OneNew == \A i, j \in Ids : retries[i].pc = "new" /\ retries[j].pc = "new" /\ retries[i].by = retries[j].by => i = j

\* Only the main loop sends ANNOUNCE, and only the handlers send PREPARED; Reset does not
\* come between the two steps of the latter.
OneSender ==
  /\ \A c \in Callers : thread[c].pc = "store" =>
       (thread[c].type = "ANNOUNCE" => c = "main") /\ (thread[c].type = "PREPARED" => c = "handler")
  /\ thread["handler"].pc = "store" /\ thread["handler"].type = "PREPARED" =>
       thread["main"].pc = "idle"
  /\ \A c \in Callers : thread[c].pc \in {"delete", "announce"} => c = "main"

\* While a new retry is not stored, or Reset is about to delete, none of the type goes on.
StoppedBefore ==
  /\ \A c \in Callers, t \in {"ANNOUNCE", "PREPARED"} :
       thread[c].pc = "store" /\ thread[c].type = t => GoesOn(t) = {}
  /\ thread["main"].pc = "delete" => GoesOn("ANNOUNCE") = {} /\ GoesOn("PREPARED") = {}

\* What goes on is what the map points to.
InMap == \A t \in {"ANNOUNCE", "PREPARED"} : \A i \in GoesOn(t) : messagesToRetry[t] = i

\* A retry is sent at most retryTimes times.
Counted ==
  \A i \in Ids : /\ retries[i].count <= retryTimes
                 /\ retries[i].pc = "send" => retries[i].count < retryTimes

SenderInv == Counted /\ Types /\ OwnType /\ NewIsStored /\ OneNew /\ OneSender /\ StoppedBefore /\ InMap

------------------------------------------------------------------------------
\* A retry that exists has the fields of one.
LEMMA RetryType ==
  ASSUME Types, NEW i \in Ids
  PROVE  retries[i] \in Retry /\ retries[i].by \in Callers
<1>1. retries[i] \in Retry
  BY DEF Types, Ids
<1> QED
  BY <1>1, Zenon DEF Retry

\* Stopping retries changes their isActive flag only.
LEMMA DeactivateFacts ==
  ASSUME retries \in Seq(Retry), NEW stop, NEW d, d = Deactivate(stop)
  PROVE  /\ d \in Seq(Retry) /\ Len(d) = Len(retries)
         /\ \A i \in Ids : /\ d[i].type = retries[i].type /\ d[i].pc = retries[i].pc
                           /\ d[i].by = retries[i].by /\ d[i].count = retries[i].count
                           /\ d[i].active => retries[i].active /\ i \notin stop
<1>1. Len(retries) \in Nat /\ \A i \in Ids : retries[i] \in Retry
  BY DEF Ids
<1>2. d = [i \in 1..Len(retries) |-> IF i \in stop THEN [retries[i] EXCEPT !.active = FALSE] ELSE retries[i]]
  BY Zenon DEF Deactivate, Ids
<1>3. ASSUME NEW i \in Ids
      PROVE  /\ d[i] \in Retry
             /\ d[i].type = retries[i].type /\ d[i].pc = retries[i].pc /\ d[i].by = retries[i].by
             /\ d[i].count = retries[i].count
             /\ d[i].active => retries[i].active /\ i \notin stop
  <2>1. CASE i \in stop
    <3>1. d[i] = [retries[i] EXCEPT !.active = FALSE]
      BY <1>2, <2>1, Zenon DEF Ids
    <3>2. retries[i] \in Retry
      BY <1>1, Zenon
    <3> QED
      BY <3>1, <3>2, Zenon DEF Retry
  <2>2. CASE i \notin stop
    <3>1. d[i] = retries[i]
      BY <1>2, <2>2, Zenon DEF Ids
    <3> QED
      BY <1>1, <2>2, <3>1, Zenon
  <2> QED
    BY <2>1, <2>2, Zenon
<1>4. d \in [1..Len(retries) -> Retry]
  BY <1>2, <1>3, Zenon DEF Ids
<1>5. d \in Seq(Retry)
  BY <1>1, <1>4
<1>6. Len(d) = Len(retries)
  BY <1>1, <1>4, <1>5
<1> QED
  BY <1>3, <1>5, <1>6, Zenon

\* No retry is made, started, or goes on that did not before.
Shrinks ==
  /\ retries' \in Seq(Retry) /\ Len(retries') = Len(retries)
  /\ \A j \in Ids :
       /\ retries'[j].type = retries[j].type /\ retries'[j].by = retries[j].by
       /\ retries'[j].active => retries[j].active
       /\ retries[j].pc \in {"new", "done"} => retries'[j].pc = retries[j].pc
       /\ retries'[j].pc = "new" => retries[j].pc = "new"
       /\ retries'[j].count <= retryTimes
       /\ retries'[j].pc = "send" => retries'[j].count < retryTimes

\* A step of a retry changes nothing but its own pc and count.
LEMMA RetryShrinks ==
  ASSUME Types, Counted, NEW i \in Ids, RetryStep(i)
  PROVE  Shrinks
<1>0. retryTimes \in Nat
  BY SenderAssumption, Zenon
<1>1. i \in 1..Len(retries) /\ retries[i] \in Retry /\ retries \in Seq(Retry)
  BY DEF Types, Ids
<1>2. ASSUME NEW r \in Retry, retries' = [retries EXCEPT ![i] = r],
             r.type = retries[i].type, r.by = retries[i].by, r.active = retries[i].active,
             r.pc # "new", retries[i].pc \notin {"new", "done"},
             r.count <= retryTimes, r.pc = "send" => r.count < retryTimes
      PROVE  Shrinks
  <2>1. retries' \in Seq(Retry) /\ Len(retries') = Len(retries)
    BY <1>1, <1>2
  <2>2. \A j \in Ids : retries'[j] = IF j = i THEN r ELSE retries[j]
    BY <1>1, <1>2 DEF Ids
  <2> QED
    BY <1>2, <2>1, <2>2, Zenon DEF Shrinks, Counted
<1>3. CASE RetryWake(i)
  <2> DEFINE go == /\ retries[i].count < retryTimes
                   /\ retries[i].active
                   /\ retries[i].type # "COMMITTED" => retries[i].num >= blockNum
             r == [retries[i] EXCEPT !.pc = IF go THEN "send" ELSE "done"]
  <2>1. retries' = [retries EXCEPT ![i] = r] /\ retries[i].pc = "sleep"
    BY <1>1, <1>3, Zenon DEF RetryWake
  <2>2. /\ r \in Retry /\ r.type = retries[i].type /\ r.by = retries[i].by
        /\ r.active = retries[i].active /\ r.count = retries[i].count
        /\ r.pc # "new" /\ (r.pc = "send" => retries[i].count < retryTimes)
    BY <1>1, Zenon DEF Retry
  <2>3. r.count <= retryTimes
    BY <2>2, Zenon DEF Counted
  <2> HIDE DEF r
  <2> QED
    BY <1>2, <2>1, <2>2, <2>3, Zenon
<1>4. CASE RetrySend(i)
  <2> DEFINE q == retries[i]
             n == q.count + 1
             r == [q EXCEPT !.pc = "sleep", !.count = n]
  <2>1. retries' = [retries EXCEPT ![i] = r] /\ q.pc = "send"
    BY <1>1, <1>4, Zenon DEF RetrySend
  <2>2. q \in Retry /\ n \in Nat /\ n <= retryTimes
    BY <1>0, <1>1, <2>1 DEF Retry, Counted
  <2> HIDE DEF n
  <2>3. /\ r \in Retry /\ r.type = q.type /\ r.by = q.by
        /\ r.active = q.active /\ r.count = n /\ r.pc = "sleep"
    BY <2>2, Zenon DEF Retry
  <2> HIDE DEF r
  <2> QED
    BY <1>2, <2>1, <2>2, <2>3, Zenon
<1> QED
  BY <1>3, <1>4, Zenon DEF RetryStep

\* Stopping retries leaves fewer active.
LEMMA DeactivateShrinks ==
  ASSUME Types, Counted, NEW stop, retries' = Deactivate(stop)
  PROVE  Shrinks /\ \A i \in Ids : retries'[i].active => i \notin stop
BY DeactivateFacts DEF Shrinks, Types, Counted

\* What such a step leaves true, whatever the threads do.
LEMMA ShrinkKeeps ==
  ASSUME SenderInv, Shrinks, messagesToRetry' = messagesToRetry
  PROVE  /\ Ids' = Ids /\ Counted' /\ OwnType' /\ InMap' /\ OneNew'
         /\ \A t \in MessageTypes : GoesOn(t)' \subseteq GoesOn(t)
<1>1. Ids' = Ids
  BY Zenon DEF Shrinks, Ids
<1>2. \A t \in MessageTypes : GoesOn(t)' \subseteq GoesOn(t)
  BY <1>1, Zenon DEF Shrinks, GoesOn
<1>3. Counted'
  BY <1>1, Zenon DEF Shrinks, Counted
<1>4. OwnType'
  <2> SUFFICES ASSUME NEW t \in MessageTypes, messagesToRetry'[t] # 0
               PROVE  messagesToRetry'[t] \in Ids' /\ retries'[messagesToRetry'[t]].type = t
    BY Zenon DEF OwnType
  <2>1. messagesToRetry[t] \in Ids /\ retries[messagesToRetry[t]].type = t
    BY Zenon DEF SenderInv, OwnType
  <2> QED
    BY <1>1, <2>1, Zenon DEF Shrinks
<1>5. InMap'
  BY <1>2, Zenon DEF InMap, SenderInv, MessageTypes
<1>6. OneNew'
  BY <1>1 DEF Shrinks, OneNew, SenderInv
<1> QED
  BY <1>1, <1>2, <1>3, <1>4, <1>5, <1>6, Zenon

\* With fewer active retries the invariant still holds.
LEMMA ShrinkKeepsAll ==
  ASSUME SenderInv, Shrinks, UNCHANGED <<messagesToRetry, thread, blockNum>>
  PROVE  SenderInv'
<1>1. Types'
  BY Zenon DEF SenderInv, Types, Shrinks
<1>2. NewIsStored'
  BY ShrinkKeeps DEF SenderInv, NewIsStored, Shrinks
<1>3. OneSender'
  BY Zenon DEF SenderInv, OneSender
<1>4. StoppedBefore'
  BY ShrinkKeeps, Zenon DEF SenderInv, StoppedBefore, MessageTypes
<1> QED
  BY <1>1, <1>2, <1>3, <1>4, ShrinkKeeps, Zenon DEF SenderInv

\* What goes on is in the map, so that nothing goes on once the map's retries are stopped.
LEMMA StopLeavesNone ==
  ASSUME SenderInv, NEW stop, retries' = Deactivate(stop), NEW t \in {"ANNOUNCE", "PREPARED"},
         Current(t) \subseteq stop
  PROVE  GoesOn(t)' = {}
<1>1. Shrinks /\ \A i \in Ids : retries'[i].active => i \notin stop
  BY DeactivateShrinks, Zenon DEF SenderInv
<1>2. Ids' = Ids
  BY <1>1, Zenon DEF Shrinks, Ids
<1>3. ASSUME NEW i \in GoesOn(t)' PROVE FALSE
  <2>1. i \in Ids /\ retries'[i].active /\ i \in GoesOn(t)
    BY <1>1, <1>2, Zenon DEF Shrinks, GoesOn
  <2>2. i \in Current(t)
    BY <2>1, Zenon DEF SenderInv, InMap, Current
  <2> QED
    BY <1>1, <2>1, <2>2, Zenon
<1> QED
  BY <1>3, Zenon

\* Reset stops the retries of the block that is over.
LEMMA ResetStopKeeps ==
  ASSUME SenderInv, ResetStop
  PROVE  SenderInv'
<1> DEFINE stop == UNION {Current(t) : t \in MessageTypes \ {"COMMITTED"}}
<1>1. /\ thread["main"].pc = "idle" /\ blockNum < MaxBlock /\ blockNum' = blockNum + 1
      /\ ~ (thread["handler"].pc = "store" /\ thread["handler"].type = "PREPARED")
      /\ retries' = Deactivate(stop) /\ messagesToRetry' = messagesToRetry
      /\ thread' = [thread EXCEPT !["main"].pc = "delete"]
  BY Zenon DEF ResetStop
<1>2. Current("ANNOUNCE") \subseteq stop /\ Current("PREPARED") \subseteq stop
  BY Zenon DEF MessageTypes
<1> HIDE DEF stop
<1>3. Shrinks
  BY <1>1, DeactivateShrinks, Zenon DEF SenderInv
<1>4. thread \in [Callers -> Thread] /\ "main" \in Callers /\ "handler" \in Callers
  BY Zenon DEF SenderInv, Types, Callers
<1>5. /\ thread' \in [Callers -> Thread] /\ thread'["main"].pc = "delete"
      /\ \A c \in Callers \ {"main"} : thread'[c] = thread[c]
  BY <1>1, <1>4, Zenon DEF Thread
<1>6. GoesOn("ANNOUNCE")' = {} /\ GoesOn("PREPARED")' = {}
  BY <1>1, <1>2, StopLeavesNone, Zenon
<1>7. Types'
  BY <1>1, <1>3, <1>5, SenderAssumption DEF SenderInv, Types, Shrinks
<1>8. NewIsStored'
  <2> SUFFICES ASSUME NEW i \in Ids', retries'[i].pc = "new"
               PROVE  thread'[retries'[i].by].pc = "store" /\ thread'[retries'[i].by].type = retries'[i].type
    BY Zenon DEF NewIsStored
  <2>1. i \in Ids /\ retries[i].pc = "new" /\ retries'[i].by = retries[i].by /\ retries'[i].type = retries[i].type
    BY <1>1, <1>3, ShrinkKeeps, Zenon DEF Shrinks
  <2>2. thread[retries[i].by].pc = "store" /\ thread[retries[i].by].type = retries[i].type
    BY <2>1, Zenon DEF SenderInv, NewIsStored
  <2>3. retries[i].by \in Callers
    BY <2>1, RetryType, Zenon DEF SenderInv
  <2>4. retries[i].by # "main"
    BY <1>1, <2>2, Zenon
  <2> QED
    BY <1>5, <2>1, <2>2, <2>3, <2>4, Zenon
<1>9. OneSender'
  BY <1>1, <1>4, <1>5, Zenon DEF SenderInv, OneSender
<1>10. StoppedBefore'
  BY <1>6, Zenon DEF StoppedBefore
<1> QED
  BY <1>1, <1>3, <1>7, <1>8, <1>9, <1>10, ShrinkKeeps, Zenon DEF SenderInv

\* Reset then forgets them.
LEMMA ResetDeleteKeeps ==
  ASSUME SenderInv, ResetDelete
  PROVE  SenderInv'
<1>1. /\ thread["main"].pc = "delete"
      /\ messagesToRetry' = [t \in MessageTypes |-> IF t = "COMMITTED" THEN messagesToRetry[t] ELSE 0]
      /\ thread' = [thread EXCEPT !["main"].pc = "announce"]
      /\ blockNum' = blockNum /\ retries' = retries
  BY Zenon DEF ResetDelete
<1>2. thread \in [Callers -> Thread] /\ "main" \in Callers /\ "handler" \in Callers
  BY DEF SenderInv, Types, Callers
<1>3. /\ thread' \in [Callers -> Thread] /\ thread'["main"].pc = "announce"
      /\ \A c \in Callers \ {"main"} : thread'[c] = thread[c]
  BY <1>1, <1>2, Zenon DEF Thread
<1>4. Ids' = Ids /\ \A t \in MessageTypes : GoesOn(t)' = GoesOn(t)
  BY <1>1, Zenon DEF Ids, GoesOn
<1>5. GoesOn("ANNOUNCE") = {} /\ GoesOn("PREPARED") = {}
  BY <1>1, Zenon DEF SenderInv, StoppedBefore
<1>6. Types' /\ Counted'
  BY <1>1, <1>3, <1>4, Zenon DEF SenderInv, Types, Counted
<1>7. OwnType'
  BY <1>1, <1>4, Zenon DEF SenderInv, OwnType
<1>8. NewIsStored'
  <2> SUFFICES ASSUME NEW i \in Ids, retries[i].pc = "new"
               PROVE  thread'[retries[i].by].pc = "store" /\ thread'[retries[i].by].type = retries[i].type
    BY <1>1, <1>4 DEF NewIsStored
  <2>1. thread[retries[i].by].pc = "store" /\ thread[retries[i].by].type = retries[i].type
    BY Zenon DEF SenderInv, NewIsStored
  <2>2. retries[i].by \in Callers
    BY RetryType, Zenon DEF SenderInv
  <2> QED
    BY <1>1, <1>3, <2>1, <2>2, Zenon
<1>9. OneSender'
  BY <1>1, <1>2, <1>3, Zenon DEF SenderInv, OneSender
<1>10. StoppedBefore' /\ InMap'
  BY <1>4, <1>5, Zenon DEF StoppedBefore, InMap, MessageTypes
<1>11. OneNew'
  BY <1>1, <1>4, Zenon DEF SenderInv, OneNew
<1> QED
  BY <1>6, <1>7, <1>8, <1>9, <1>10, <1>11, Zenon DEF SenderInv

\* SendWithRetry, first step, by the only sender of the type if it is ANNOUNCE or PREPARED.
LEMMA SendStopKeeps ==
  ASSUME SenderInv, NEW c \in Callers, NEW from \in {"idle", "announce"}, NEW t \in MessageTypes,
         NEW n \in 0..MaxBlock, SendStop(c, from, t, n),
         t = "ANNOUNCE" => c = "main", t = "PREPARED" => c = "handler",
         t = "PREPARED" => thread["main"].pc = "idle",
         c = "main" => from = "announce"
  PROVE  SenderInv'
<1> DEFINE d == Deactivate(Current(t))
           r == NewRetry(c, t, n)
<1>1. /\ thread[c].pc = from /\ retryTimes # 0
      /\ retries' = Append(d, r) /\ thread' = [thread EXCEPT ![c] = [pc |-> "store", type |-> t]]
      /\ blockNum' = blockNum /\ messagesToRetry' = messagesToRetry
  BY Zenon DEF SendStop
<1>2. /\ r \in Retry /\ r.type = t /\ r.by = c /\ r.pc = "new" /\ r.count = 0
  BY Zenon DEF NewRetry, Retry
<1>3. /\ d \in Seq(Retry) /\ Len(d) = Len(retries)
      /\ \A i \in Ids : /\ d[i].type = retries[i].type /\ d[i].pc = retries[i].pc
                        /\ d[i].by = retries[i].by /\ d[i].count = retries[i].count
                        /\ d[i].active => retries[i].active /\ i \notin Current(t)
  BY DeactivateFacts, Zenon DEF SenderInv, Types
<1> HIDE DEF d, r
<1>4. /\ retries' \in Seq(Retry) /\ Len(retries') = Len(retries) + 1
      /\ retries'[Len(retries) + 1] = r /\ \A i \in Ids : retries'[i] = d[i]
  BY <1>1, <1>2, <1>3 DEF Ids
<1>5. Len(retries) \in Nat /\ Ids' = Ids \cup {Len(retries) + 1}
  BY <1>3, <1>4 DEF Ids
<1>6. thread \in [Callers -> Thread] /\ "main" \in Callers /\ "handler" \in Callers
  BY Zenon DEF SenderInv, Types, Callers
<1>7. /\ thread' \in [Callers -> Thread] /\ thread'[c].pc = "store" /\ thread'[c].type = t
      /\ \A e \in Callers \ {c} : thread'[e] = thread[e]
  BY <1>1, <1>6, Zenon DEF Thread
<1>8. \A u \in MessageTypes : GoesOn(u)' \subseteq GoesOn(u)
  BY <1>2, <1>3, <1>4, <1>5 DEF GoesOn
<1>9. t \in {"ANNOUNCE", "PREPARED"} => GoesOn(t)' = {}
  <2> SUFFICES ASSUME t \in {"ANNOUNCE", "PREPARED"}, NEW i \in GoesOn(t)'
               PROVE  FALSE
    BY Zenon
  <2>1. i \in GoesOn(t) /\ retries'[i].active /\ i \in Ids
    BY <1>8, Zenon DEF GoesOn
  <2>2. i \in Current(t)
    BY <2>1, Zenon DEF SenderInv, InMap, Current
  <2> QED
    BY <1>3, <1>4, <2>1, <2>2, Zenon
<1>10. Types'
  BY <1>1, <1>4, <1>7, Zenon DEF SenderInv, Types
<1>11. Counted'
  BY <1>2, <1>3, <1>4, <1>5, SenderAssumption DEF SenderInv, Counted
<1>12. OwnType'
  <2> SUFFICES ASSUME NEW u \in MessageTypes, messagesToRetry[u] # 0
               PROVE  messagesToRetry[u] \in Ids' /\ retries'[messagesToRetry[u]].type = u
    BY <1>1, Zenon DEF OwnType
  <2>1. messagesToRetry[u] \in Ids /\ retries[messagesToRetry[u]].type = u
    BY Zenon DEF SenderInv, OwnType
  <2> QED
    BY <1>3, <1>4, <1>5, <2>1, Zenon
<1>13. NewIsStored'
  <2> SUFFICES ASSUME NEW i \in Ids', retries'[i].pc = "new"
               PROVE  thread'[retries'[i].by].pc = "store" /\ thread'[retries'[i].by].type = retries'[i].type
    BY Zenon DEF NewIsStored
  <2>1. CASE i = Len(retries) + 1
    BY <1>2, <1>4, <1>7, <2>1, Zenon
  <2>2. CASE i \in Ids
    <3>1. retries[i].pc = "new" /\ retries'[i].by = retries[i].by /\ retries'[i].type = retries[i].type
      BY <1>3, <1>4, <2>2, Zenon
    <3>2. thread[retries[i].by].pc = "store" /\ thread[retries[i].by].type = retries[i].type
      BY <2>2, <3>1, Zenon DEF SenderInv, NewIsStored
    <3>3. retries[i].by \in Callers \ {c}
      BY <1>1, <2>2, <3>2, RetryType, Zenon DEF SenderInv
    <3> QED
      BY <1>7, <3>1, <3>2, <3>3, Zenon
  <2> QED
    BY <1>5, <2>1, <2>2, Zenon
<1>14. OneSender'
  BY <1>1, <1>6, <1>7, Zenon DEF SenderInv, OneSender
<1>15. StoppedBefore'
  BY <1>6, <1>7, <1>8, <1>9, Zenon DEF SenderInv, StoppedBefore, MessageTypes
<1>16. InMap'
  BY <1>1, <1>8, Zenon DEF SenderInv, InMap, MessageTypes
<1>17. ASSUME NEW i \in Ids PROVE ~(retries[i].pc = "new" /\ retries[i].by = c)
  BY <1>1, Zenon DEF SenderInv, NewIsStored
<1>18. OneNew'
  BY <1>2, <1>3, <1>4, <1>5, <1>17 DEF SenderInv, OneNew
<1> QED
  BY <1>10, <1>11, <1>12, <1>13, <1>14, <1>15, <1>16, <1>18, Zenon DEF SenderInv

\* SendWithRetry, second step.
LEMMA SendStoreKeeps ==
  ASSUME SenderInv, NEW c \in Callers, SendStore(c)
  PROVE  SenderInv'
<1>1. PICK k \in Ids : /\ retries[k].by = c /\ retries[k].pc = "new"
                       /\ messagesToRetry' = [messagesToRetry EXCEPT ![thread[c].type] = k]
                       /\ retries' = [retries EXCEPT ![k].pc = "sleep"]
  BY Zenon DEF SendStore
<1>2. thread[c].pc = "store" /\ thread' = [thread EXCEPT ![c].pc = "idle"] /\ blockNum' = blockNum
  BY Zenon DEF SendStore
<1>3. thread \in [Callers -> Thread] /\ "main" \in Callers /\ "handler" \in Callers
  BY Zenon DEF SenderInv, Types, Callers
<1>4. /\ thread' \in [Callers -> Thread] /\ thread'[c].pc = "idle"
      /\ \A e \in Callers \ {c} : thread'[e] = thread[e]
  BY <1>2, <1>3, Zenon DEF Thread
<1>5. PICK t \in MessageTypes : t = thread[c].type /\ retries[k].type = t
  BY <1>1, <1>3, Zenon DEF SenderInv, NewIsStored, Thread
<1>6. k \in 1..Len(retries) /\ retries \in Seq(Retry) /\ retries[k] \in Retry
  BY RetryType, Zenon DEF SenderInv, Types, Ids
<1> DEFINE r == [retries[k] EXCEPT !.pc = "sleep"]
<1>r. /\ r \in Retry /\ r.type = retries[k].type /\ r.by = retries[k].by /\ r.active = retries[k].active
      /\ r.count = retries[k].count /\ r.pc = "sleep"
  BY <1>6, Zenon DEF Retry
<1>7. /\ retries' \in Seq(Retry) /\ Len(retries') = Len(retries)
      /\ \A i \in Ids : retries'[i] = IF i = k THEN r ELSE retries[i]
  BY <1>1, <1>6, <1>r DEF Ids
<1> HIDE DEF r
<1>8. \A i \in Ids : /\ retries'[i].type = retries[i].type /\ retries'[i].by = retries[i].by
                     /\ retries'[i].active = retries[i].active /\ retries'[i].count = retries[i].count
                     /\ i # k => retries'[i].pc = retries[i].pc
                     /\ i = k => retries'[i].pc = "sleep"
  BY <1>7, <1>r, Zenon
<1>9. Ids' = Ids
  BY <1>7, Zenon DEF Ids
<1>10. /\ messagesToRetry' \in [MessageTypes -> Nat] /\ messagesToRetry'[t] = k
       /\ \A u \in MessageTypes \ {t} : messagesToRetry'[u] = messagesToRetry[u]
  BY <1>1, <1>5, <1>6 DEF SenderInv, Types
<1>11. /\ \A u \in MessageTypes \ {t} : GoesOn(u)' = GoesOn(u)
       /\ GoesOn(t)' \subseteq GoesOn(t) \cup {k}
  BY <1>5, <1>8, <1>9 DEF GoesOn
<1>12. t \in {"ANNOUNCE", "PREPARED"} => GoesOn(t) = {}
  BY <1>2, <1>5, Zenon DEF SenderInv, StoppedBefore
<1>13. Types'
  BY <1>2, <1>4, <1>7, <1>10, Zenon DEF SenderInv, Types
<1>14. Counted'
  BY <1>8, <1>9, Zenon DEF SenderInv, Counted
<1>15. OwnType'
  BY <1>5, <1>8, <1>9, <1>10 DEF SenderInv, OwnType
<1>16. ASSUME NEW i \in Ids, retries'[i].pc = "new"
       PROVE  retries[i].by \in Callers \ {c}
  <2>1. i # k /\ retries[i].pc = "new"
    BY <1>8, <1>16, Zenon
  <2>2. retries[i].by # c
    BY <1>1, <2>1, Zenon DEF SenderInv, OneNew
  <2> QED
    BY <2>2, RetryType, Zenon DEF SenderInv
<1>17. NewIsStored'
  BY <1>4, <1>8, <1>9, <1>16 DEF SenderInv, NewIsStored
<1>18. OneSender'
  BY <1>2, <1>3, <1>4, Zenon DEF SenderInv, OneSender
<1>19. StoppedBefore'
  <2>1. ASSUME NEW e \in Callers, NEW u \in {"ANNOUNCE", "PREPARED"},
               thread'[e].pc = "store", thread'[e].type = u
        PROVE  GoesOn(u)' = {}
    <3>1. e # c /\ thread[e].pc = "store" /\ thread[e].type = u
      BY <1>4, <2>1, Zenon
    <3>2. u # t
      BY <1>2, <1>5, <3>1, Zenon DEF SenderInv, OneSender
    <3>3. GoesOn(u) = {}
      BY <3>1, Zenon DEF SenderInv, StoppedBefore
    <3> QED
      BY <1>11, <3>2, <3>3, Zenon DEF MessageTypes
  <2>2. ASSUME thread'["main"].pc = "delete"
        PROVE  GoesOn("ANNOUNCE")' = {} /\ GoesOn("PREPARED")' = {}
    <3>1. c # "main" /\ thread["main"].pc = "delete"
      BY <1>3, <1>4, <2>2, Zenon
    <3>2. t = "COMMITTED"
      BY <1>2, <1>5, <3>1, Zenon DEF SenderInv, OneSender, MessageTypes
    <3>3. GoesOn("ANNOUNCE") = {} /\ GoesOn("PREPARED") = {}
      BY <3>1, Zenon DEF SenderInv, StoppedBefore
    <3> QED
      BY <1>11, <3>2, <3>3, Zenon DEF MessageTypes
  <2> QED
    BY <2>1, <2>2, Zenon DEF StoppedBefore
<1>20. InMap'
  BY <1>10, <1>11, <1>12, Zenon DEF SenderInv, InMap, MessageTypes
<1>21. OneNew'
  BY <1>8, <1>9 DEF SenderInv, OneNew
<1> QED
  BY <1>13, <1>14, <1>15, <1>17, <1>18, <1>19, <1>20, <1>21, Zenon DEF SenderInv

\* Every step of the sender keeps the invariant.
LEMMA SenderStep == SenderInv /\ [SenderNext]_senderVars => SenderInv'
<1> SUFFICES ASSUME SenderInv, [SenderNext]_senderVars PROVE SenderInv'
  BY Zenon
<1>0. blockNum \in 0..MaxBlock /\ MaxBlock \in Nat
  BY SenderAssumption, Zenon DEF SenderInv, Types
<1>1. CASE ResetStop \/ ResetDelete
  BY <1>1, ResetStopKeeps, ResetDeleteKeeps, Zenon
<1>2. CASE Announce
  BY <1>0, <1>2, SendStopKeeps, Zenon DEF Announce, Callers, MessageTypes
<1>3. CASE SendPrepared
  BY <1>0, <1>3, SendStopKeeps, Zenon DEF SendPrepared, Callers, MessageTypes
<1>4. CASE SendCommitted
  <2>1. PICK c \in {"handler", "preCommit"}, n \in {blockNum - 1, blockNum} :
          n > 0 /\ SendStop(c, "idle", "COMMITTED", n)
    BY <1>4, Zenon DEF SendCommitted
  <2>2. n \in 0..MaxBlock
    BY <1>0, <2>1
  <2> QED
    BY <2>1, <2>2, SendStopKeeps, Zenon DEF Callers, MessageTypes
<1>5. CASE \E c \in Callers : SendStore(c)
  BY <1>5, SendStoreKeeps, Zenon
<1>6. CASE \E t \in MessageTypes : StopRetry(t)
  <2>1. PICK t \in MessageTypes : StopRetry(t)
    BY <1>6, Zenon
  <2>2. Shrinks
    BY <2>1, DeactivateShrinks, Zenon DEF SenderInv, StopRetry
  <2> QED
    BY <2>1, <2>2, ShrinkKeepsAll, Zenon DEF StopRetry
<1>7. CASE \E i \in Ids : RetryStep(i)
  <2>1. PICK i \in Ids : RetryStep(i)
    BY <1>7, Zenon
  <2>2. Shrinks
    BY <2>1, RetryShrinks, Zenon DEF SenderInv
  <2> QED
    BY <2>1, <2>2, ShrinkKeepsAll, Zenon DEF RetryStep, RetryWake, RetrySend
<1>8. CASE UNCHANGED senderVars
  BY <1>8 DEF senderVars, SenderInv, Types, Counted, OwnType, NewIsStored, OneNew, OneSender,
              StoppedBefore, InMap, GoesOn, Ids
<1> QED
  BY <1>1, <1>2, <1>3, <1>4, <1>5, <1>6, <1>7, <1>8, Zenon DEF SenderNext

\* consensus_msg_sender.go: whatever Reset and the senders do, a retry is sent at most
\* retryTimes times, the map points to a retry of its own type, an ANNOUNCE or PREPARED that
\* goes on is the one in the map, and none goes on while a new one is being stored.
THEOREM SenderInvariant == SenderSpec => [](SenderInv /\ SenderTypeOK)
<1>1. SenderInit => SenderInv
  BY SenderAssumption
  DEF SenderInit, SenderInv, Types, Counted, OwnType, NewIsStored, OneNew, OneSender,
      StoppedBefore, InMap, GoesOn, Ids, Thread, MessageTypes, Callers
<1>2. SenderInv => SenderTypeOK
  <2> SUFFICES ASSUME SenderInv PROVE SenderTypeOK
    BY Zenon
  <2>1. \A i \in Ids : /\ retries[i].type \in MessageTypes /\ retries[i].num \in 0..MaxBlock
                       /\ retries[i].count \in Nat
                       /\ retries[i].pc \in {"new", "sleep", "send", "done"}
    BY RetryType, Zenon DEF SenderInv, Retry
  <2>2. \A i \in Ids : retries[i].count \in 0..retryTimes
    BY <2>1, SenderAssumption DEF SenderInv, Counted
  <2>3. \A t \in MessageTypes : messagesToRetry[t] \in {0} \cup {i \in Ids : retries[i].type = t}
    BY Zenon DEF SenderInv, OwnType
  <2>4. \A c \in Callers : thread[c].pc \in {"idle", "store", "delete", "announce"}
    BY Zenon DEF SenderInv, Types, Thread
  <2> QED
    BY <2>1, <2>2, <2>3, <2>4, Zenon DEF SenderTypeOK, SenderInv, Types
<1> QED
  BY <1>1, <1>2, SenderStep, PTL DEF SenderSpec

\* StopRetry by didReachPrepareQuorum or onCommit leaves no ANNOUNCE or PREPARED that goes on,
\* for every number of retries, blocks and messages.
THEOREM StopRetryStops == SenderSpec => StopStops
<1>1. SenderInv /\ [SenderNext]_senderVars =>
        [\A t \in {"ANNOUNCE", "PREPARED"} : StopRetry(t) => GoesOn(t)' = {}]_senderVars
  BY StopLeavesNone, Zenon DEF StopRetry
<1> QED
  BY <1>1, SenderInvariant, PTL DEF SenderSpec, StopStops

------------------------------------------------------------------------------
(* The message handlers. *)

\* The validator's verdict, spelled out.
Valid(m) ==
  /\ m \in Messages /\ m.category \in Kinds /\ m.shape = "ok"
  /\ m.category = "consensus" => m.topic \in GroupTopics

Fates == {"new", "accepted", "rejected", "skipped", "handled", "dropped"}

Task == [msg : Messages, pc : {"acquire", "handle", "report", "select", "deadline"}, held : BOOLEAN]

\* The types of the variables.
Shape ==
  /\ phase \in {"setup", "returned", "draining"} /\ topics \in 0..Cardinality(Topics)
  /\ inbox \subseteq Messages /\ validating \subseteq Messages /\ errs \in 0..ErrCap
  /\ arrived \in [Topics -> Seq(Messages)]
  /\ queue \in [Topics -> [Kinds -> Seq(Messages)]]
  /\ tasks \subseteq Task /\ IsFiniteSet(tasks)
  /\ sem \in [Topics -> [Kinds -> Nat]]
  /\ fate \in [Messages -> Fates]

\* A message that was let through is in one place: among those that arrived, in a queue or with
\* a goroutine.
Arrivals ==
  \A t \in Topics : \A i \in 1..Len(arrived[t]) :
    /\ Valid(arrived[t][i]) /\ arrived[t][i].topic = t
    /\ arrived[t][i] \notin inbox
    /\ \A j \in 1..Len(arrived[t]) : arrived[t][i] = arrived[t][j] => i = j

Queued(m, t, k) ==
  /\ Valid(m) /\ ~m.own /\ m.topic = t /\ m.category = k
  /\ m \notin inbox
  /\ \A j \in 1..Len(arrived[t]) : arrived[t][j] # m

Queues ==
  \A t \in Topics, k \in Kinds :
    /\ Len(queue[t][k]) <= QueueCap
    /\ \A i \in 1..Len(queue[t][k]) : Queued(queue[t][k][i], t, k)
    /\ \A i, j \in 1..Len(queue[t][k]) : queue[t][k][i] = queue[t][k][j] => i = j

Taken(g) ==
  /\ Queued(g.msg, g.msg.topic, g.msg.category)
  /\ \A j \in 1..Len(queue[g.msg.topic][g.msg.category]) :
       queue[g.msg.topic][g.msg.category][j] # g.msg
  /\ g.pc = "acquire" => ~g.held
  /\ g.pc \in {"handle", "report"} => g.held

Goroutines ==
  /\ \A g \in tasks : Taken(g)
  /\ \A g, h \in tasks : g.msg = h.msg => g = h

\* The goroutines that hold a permit of a semaphore.
Holders(t, k) == {g \in tasks : g.held /\ g.msg.topic = t /\ g.msg.category = k}

Permitted ==
  \A t \in Topics, k \in Kinds : sem[t][k] = Cardinality(Holders(t, k)) /\ sem[t][k] <= Permits

GossipInv == Shape /\ Arrivals /\ Queues /\ Goroutines /\ Permitted /\ HandledIsValid

------------------------------------------------------------------------------
(* What an action leaves alone.                                            *)

\* Every message has its fields.
LEMMA MessageFields ==
  \A m \in Messages : /\ m.topic \in Topics /\ m.category \in {"consensus", "node", "other"}
                      /\ m.shape \in {"ok", "short", "bad"} /\ m.own \in BOOLEAN
BY GossipAssumption, Zenon

\* What the validator accepts.
LEMMA Accepted ==
  ASSUME NEW m \in Messages, Verdict(m) = "accept"
  PROVE  Valid(m)
BY MessageFields, Zenon DEF Verdict, validateShardBoundMessage, validateNodeMessage, Valid, Kinds

\* Permits are counted over tasks.
LEMMA PermittedFrame ==
  ASSUME Permitted, UNCHANGED <<tasks, sem>>
  PROVE  Permitted'
BY Zenon DEF Permitted, Holders

\* Queues and goroutines, where only messages that are elsewhere move.
LEMMA QueuesFrame ==
  ASSUME Shape, Queues, Goroutines, UNCHANGED <<queue, tasks>>,
         \A n : \A t \in Topics : \A k : Queued(n, t, k) => Queued(n, t, k)'
  PROVE  Queues' /\ Goroutines'
<1>1. Queues'
  BY DEF Queues
<1>2. ASSUME NEW g \in tasks PROVE Taken(g)'
  <2>1. g.msg.topic \in Topics /\ Taken(g)
    BY MessageFields, Zenon DEF Shape, Task, Goroutines
  <2>2. Queued(g.msg, g.msg.topic, g.msg.category)'
    BY <2>1, Zenon DEF Taken
  <2> QED
    BY <2>1, <2>2, Zenon DEF Taken
<1> QED
  BY <1>1, <1>2, Zenon DEF Goroutines

\* Steps that move no message and no goroutine.
LEMMA QuietStep ==
  ASSUME GossipInv, UNCHANGED <<inbox, arrived, queue, tasks, sem, fate>>,
         phase' \in {"setup", "returned", "draining"}, topics' \in 0..Cardinality(Topics),
         errs' \in 0..ErrCap, validating' \subseteq Messages
  PROVE  GossipInv'
<1>1. Shape'
  BY Zenon DEF GossipInv, Shape
<1>2. Arrivals' /\ Queues' /\ Goroutines' /\ HandledIsValid'
  <2>1. Arrivals'
    BY DEF GossipInv, Arrivals
  <2>2. Queues'
    BY DEF GossipInv, Queues, Queued
  <2>3. Goroutines'
    BY DEF GossipInv, Goroutines, Queued, Taken
  <2>4. HandledIsValid'
    BY Zenon DEF GossipInv, HandledIsValid
  <2> QED
    BY <2>1, <2>2, <2>3, <2>4, Zenon
<1>3. Permitted'
  BY PermittedFrame, Zenon DEF GossipInv
<1> QED
  BY <1>1, <1>2, <1>3, Zenon DEF GossipInv

\* One more error fits.
LEMMA SendErrBound ==
  ASSUME Shape, SendErr
  PROVE  errs' \in 0..ErrCap
BY GossipAssumption DEF Shape, SendErr

\* The topics and errChan.
LEMMA TopicsKeep ==
  ASSUME GossipInv, TopicStep \/ SetUpFails \/ \E t \in Topics : ReadFails(t)
  PROVE  GossipInv'
<1>1. Cardinality(Topics) \in Nat
  BY GossipAssumption, FS_CardinalityType, Zenon
<1>2. /\ UNCHANGED <<inbox, validating, arrived, queue, tasks, sem, fate>>
      /\ phase' \in {"setup", "returned", "draining"} /\ topics' \in 0..Cardinality(Topics)
  BY <1>1 DEF TopicStep, SetUpTopic, SetUpFails, SetUpDone, DrainErr, ReadFails, GossipInv, Shape
<1>3. errs' \in 0..ErrCap
  <2>1. CASE errs' = errs
    BY <2>1, Zenon DEF GossipInv, Shape
  <2>2. CASE errs > 0 /\ errs' = errs - 1
    BY <2>2, GossipAssumption DEF GossipInv, Shape
  <2>3. CASE SendErr
    BY <2>3, SendErrBound, Zenon DEF GossipInv
  <2> QED
    BY <2>1, <2>2, <2>3, Zenon DEF TopicStep, SetUpTopic, SetUpFails, SetUpDone, DrainErr, ReadFails
<1> QED
  BY <1>2, <1>3, QuietStep, Zenon DEF GossipInv, Shape

------------------------------------------------------------------------------
(* The validator.                                                          *)

\* A message leaves the inbox for the accepted ones, is rejected, or waits to be reported.
LEMMA ValidateKeeps ==
  ASSUME GossipInv, NEW m \in Messages, Validate(m)
  PROVE  GossipInv'
<1>1. /\ m \in inbox /\ inbox' = inbox \ {m}
      /\ UNCHANGED <<phase, topics, queue, tasks, sem, errs, readErrors>>
  BY Zenon DEF Validate
<1>2. Permitted'
  BY <1>1, PermittedFrame, Zenon DEF GossipInv
<1>3. m.topic \in Topics
  BY MessageFields, Zenon
<1>4. CASE /\ Verdict(m) = "accept" /\ fate' = [fate EXCEPT ![m] = "accepted"]
           /\ arrived' = [arrived EXCEPT ![m.topic] = Append(@, m)] /\ UNCHANGED validating
  <2>1. Valid(m)
    BY <1>4, Accepted, Zenon
  <2>2. arrived[m.topic] \in Seq(Messages)
    BY <1>3, Zenon DEF GossipInv, Shape
  <2>3. /\ \A t \in Topics : t # m.topic => arrived'[t] = arrived[t]
        /\ arrived'[m.topic] = Append(arrived[m.topic], m)
    BY <1>3, <1>4, Zenon DEF GossipInv, Shape
  <2>4. /\ Len(arrived'[m.topic]) = Len(arrived[m.topic]) + 1
        /\ \A i \in 1..Len(arrived[m.topic]) : arrived'[m.topic][i] = arrived[m.topic][i]
        /\ arrived'[m.topic][Len(arrived[m.topic]) + 1] = m
    BY <2>2, <2>3
  <2>5. Shape'
    BY <1>1, <1>3, <1>4 DEF GossipInv, Shape, Fates
  <2>6. Arrivals'
    <3> SUFFICES ASSUME NEW t \in Topics, NEW i \in 1..Len(arrived'[t])
                 PROVE  /\ Valid(arrived'[t][i]) /\ arrived'[t][i].topic = t
                        /\ arrived'[t][i] \notin inbox'
                        /\ \A j \in 1..Len(arrived'[t]) : arrived'[t][i] = arrived'[t][j] => i = j
      BY Zenon DEF Arrivals, Valid
    <3>1. CASE t # m.topic
      BY <1>1, <2>3, <3>1 DEF GossipInv, Arrivals
    <3>2. CASE t = m.topic /\ i = Len(arrived[t]) + 1
      BY <1>1, <2>1, <2>2, <2>4, <3>2 DEF GossipInv, Arrivals
    <3>3. CASE t = m.topic /\ i \in 1..Len(arrived[t])
      <4>1. /\ arrived'[t][i] = arrived[t][i] /\ arrived[t][i] \notin inbox /\ arrived[t][i].topic = t
            /\ Valid(arrived[t][i])
            /\ \A j \in 1..Len(arrived[t]) : arrived[t][i] = arrived[t][j] => i = j
        BY <2>4, <3>3 DEF GossipInv, Arrivals
      <4>2. arrived[t][i] # m
        BY <1>1, <4>1, Zenon
      <4>3. \A j \in 1..Len(arrived'[t]) : arrived'[t][i] = arrived'[t][j] => i = j
        BY <2>2, <2>4, <3>3, <4>1, <4>2
      <4> QED
        BY <1>1, <4>1, <4>3, Zenon
    <3>4. t = m.topic => i = Len(arrived[t]) + 1 \/ i \in 1..Len(arrived[t])
      BY <2>2, <2>4
    <3> QED
      BY <3>1, <3>2, <3>3, <3>4, Zenon
  <2>7. ASSUME NEW n, NEW t \in Topics, NEW k, Queued(n, t, k)
        PROVE  Queued(n, t, k)'
    <3>1. n # m
      BY <1>1, <2>7, Zenon DEF Queued
    <3>2. ASSUME NEW j \in 1..Len(arrived'[t]) PROVE arrived'[t][j] # n
      <4>1. CASE t # m.topic
        BY <2>3, <2>7, <4>1 DEF Queued
      <4>2. CASE t = m.topic
        <5>1. j = Len(arrived[t]) + 1 \/ j \in 1..Len(arrived[t])
          BY <2>2, <2>4, <4>2
        <5> QED
          BY <2>4, <2>7, <3>1, <4>2, <5>1, Zenon DEF Queued
      <4> QED
        BY <4>1, <4>2, Zenon
    <3> QED
      BY <1>1, <2>7, <3>2, Zenon DEF Queued
  <2>8. Queues' /\ Goroutines'
    BY <1>1, <2>7, QueuesFrame, Zenon DEF GossipInv
  <2>9. HandledIsValid'
    BY <1>4, Zenon DEF GossipInv, Shape, HandledIsValid
  <2> QED
    BY <1>2, <2>5, <2>6, <2>8, <2>9, Zenon DEF GossipInv
<1>5. CASE /\ fate' \in {fate, [fate EXCEPT ![m] = "rejected"]}
           /\ arrived' = arrived /\ validating' \in {validating, validating \cup {m}}
  <2>1. Shape'
    BY <1>1, <1>5, Zenon DEF GossipInv, Shape, Fates
  <2>2. Arrivals'
    BY <1>1, <1>5 DEF GossipInv, Arrivals
  <2>4. \A n : \A t \in Topics : \A k : Queued(n, t, k) => Queued(n, t, k)'
    BY <1>1, <1>5, Zenon DEF Queued
  <2>5. Queues' /\ Goroutines'
    BY <1>1, <2>4, QueuesFrame, Zenon DEF GossipInv
  <2>3. HandledIsValid'
    BY <1>5, Zenon DEF GossipInv, Shape, HandledIsValid
  <2> QED
    BY <1>2, <2>1, <2>2, <2>3, <2>5, Zenon DEF GossipInv
<1> QED
  BY <1>4, <1>5, Zenon DEF Validate

\* A rejection that is reported.
LEMMA ReportInvalidKeeps ==
  ASSUME GossipInv, NEW m \in Messages, ReportInvalid(m)
  PROVE  GossipInv'
<1>1. /\ UNCHANGED <<phase, topics, inbox, arrived, queue, tasks, sem>>
      /\ validating' \subseteq validating /\ fate' = [fate EXCEPT ![m] = "rejected"]
  BY Zenon DEF ReportInvalid
<1>2. errs' \in 0..ErrCap
  BY SendErrBound, Zenon DEF ReportInvalid, GossipInv
<1>3. Shape'
  BY <1>1, <1>2, Zenon DEF GossipInv, Shape, Fates
<1>4. Arrivals' /\ Queues' /\ Goroutines' /\ Permitted'
  <2>1. Arrivals'
    BY <1>1 DEF GossipInv, Arrivals
  <2>2. Queues'
    BY <1>1 DEF GossipInv, Queues, Queued
  <2>3. Goroutines'
    BY <1>1 DEF GossipInv, Goroutines, Queued, Taken
  <2>4. Permitted'
    BY <1>1, PermittedFrame, Zenon DEF GossipInv
  <2> QED
    BY <2>1, <2>2, <2>3, <2>4, Zenon
<1>5. HandledIsValid'
  BY <1>1, Zenon DEF GossipInv, Shape, HandledIsValid
<1> QED
  BY <1>3, <1>4, <1>5, Zenon DEF GossipInv

------------------------------------------------------------------------------
(* The reader and the dispatchers.                                         *)

\* Head and Tail of a sequence without repetition.
LEMMA HeadTail ==
  ASSUME NEW S, NEW q \in Seq(S), q # <<>>
  PROVE  /\ Head(q) = q[1] /\ 1 \in 1..Len(q) /\ Head(q) \in S /\ Tail(q) \in Seq(S)
         /\ Len(Tail(q)) = Len(q) - 1 /\ Len(q) \in Nat
         /\ \A i \in 1..Len(Tail(q)) : Tail(q)[i] = q[i + 1] /\ i + 1 \in 1..Len(q) /\ i + 1 # 1
OBVIOUS

\* One element more.
LEMMA OneMore ==
  ASSUME NEW S, NEW q \in Seq(S), NEW x \in S
  PROVE  /\ Append(q, x) \in Seq(S) /\ Len(Append(q, x)) = Len(q) + 1 /\ Len(q) \in Nat
         /\ \A i \in 1..Len(q) : Append(q, x)[i] = q[i] /\ i # Len(q) + 1
         /\ Append(q, x)[Len(q) + 1] = x
         /\ \A i \in 1..Len(Append(q, x)) : i \in 1..Len(q) \/ i = Len(q) + 1
OBVIOUS

\* One turn of the reader.
LEMMA ReadNextKeeps ==
  ASSUME GossipInv, NEW t \in Topics, ReadNext(t)
  PROVE  GossipInv'
<1>0. PICK m : m = Head(arrived[t])
  BY Zenon
<1>1. /\ arrived[t] # <<>> /\ arrived' = [arrived EXCEPT ![t] = Tail(@)]
      /\ UNCHANGED <<phase, topics, inbox, validating, tasks, sem, errs, readErrors>>
      /\ IF FromOther(m)
         THEN /\ Len(queue[t][m.category]) < QueueCap
              /\ queue' = [queue EXCEPT ![t][m.category] = Append(@, m)] /\ UNCHANGED fate
         ELSE fate' = [fate EXCEPT ![m] = "skipped"] /\ UNCHANGED queue
  BY <1>0, Zenon DEF ReadNext
<1>2. arrived[t] \in Seq(Messages)
  BY Zenon DEF GossipInv, Shape
<1>3. /\ arrived'[t] = Tail(arrived[t]) /\ \A u \in Topics : u # t => arrived'[u] = arrived[u]
      /\ arrived' \in [Topics -> Seq(Messages)]
  BY <1>1, <1>2, HeadTail, Zenon DEF GossipInv, Shape
<1>4. /\ m = arrived[t][1] /\ m \in Messages
      /\ \A i \in 1..Len(arrived'[t]) : arrived'[t][i] = arrived[t][i + 1] /\ i + 1 \in 1..Len(arrived[t])
      /\ 1 \in 1..Len(arrived[t])
  BY <1>0, <1>1, <1>2, <1>3, HeadTail
<1>5. Valid(m) /\ m.topic = t /\ m \notin inbox /\ m.category \in Kinds
  BY <1>4, Zenon DEF GossipInv, Arrivals, Valid
<1>6. \A i \in 1..Len(arrived'[t]) : arrived'[t][i] # m
  BY <1>4 DEF GossipInv, Arrivals
<1>7. Permitted'
  BY <1>1, PermittedFrame, Zenon DEF GossipInv
<1>8. Arrivals'
  <2> SUFFICES ASSUME NEW u \in Topics, NEW i \in 1..Len(arrived'[u])
               PROVE  /\ Valid(arrived'[u][i]) /\ arrived'[u][i].topic = u
                      /\ arrived'[u][i] \notin inbox'
                      /\ \A j \in 1..Len(arrived'[u]) : arrived'[u][i] = arrived'[u][j] => i = j
    BY Zenon DEF Arrivals, Valid
  <2>1. CASE u # t
    BY <1>1, <1>3, <2>1 DEF GossipInv, Arrivals
  <2>2. CASE u = t
    <3>1. i \in 1..Len(arrived'[t]) /\ arrived'[u] = arrived'[t] /\ inbox' = inbox
      BY <1>1, <2>2, Zenon
    <3>2. arrived'[t][i] = arrived[t][i + 1] /\ i + 1 \in 1..Len(arrived[t])
      BY <1>4, <3>1, Zenon
    <3>3. /\ Valid(arrived[t][i + 1]) /\ arrived[t][i + 1].topic = t /\ arrived[t][i + 1] \notin inbox
          /\ \A j \in 1..Len(arrived[t]) : arrived[t][i + 1] = arrived[t][j] => i + 1 = j
      BY <3>2, Zenon DEF GossipInv, Arrivals
    <3>4. ASSUME NEW j \in 1..Len(arrived'[t]), arrived'[t][i] = arrived'[t][j] PROVE i = j
      <4>1. i + 1 = j + 1
        BY <1>4, <3>2, <3>3, <3>4, Zenon
      <4> QED
        BY <3>1, <4>1
    <3> QED
      BY <2>2, <3>1, <3>2, <3>3, <3>4, Zenon
  <2> QED
    BY <2>1, <2>2, Zenon
<1>9. ASSUME NEW n, NEW u \in Topics, NEW k, Queued(n, u, k)
      PROVE  Queued(n, u, k)'
  <2>1. ASSUME NEW j \in 1..Len(arrived'[u]) PROVE arrived'[u][j] # n
    <3>1. CASE u = t
      BY <1>4, <1>9, <3>1, Zenon DEF Queued
    <3>2. CASE u # t
      BY <1>3, <1>9, <3>2, Zenon DEF Queued
    <3> QED
      BY <3>1, <3>2, Zenon
  <2> QED
    BY <1>1, <1>9, <2>1, Zenon DEF Queued
<1>10. CASE ~FromOther(m)
  <2>1. fate' = [fate EXCEPT ![m] = "skipped"] /\ UNCHANGED queue
    BY <1>1, <1>10, Zenon
  <2>2. Shape'
    BY <1>1, <1>3, <2>1, Zenon DEF GossipInv, Shape, Fates
  <2>3. HandledIsValid'
    BY <2>1, Zenon DEF GossipInv, Shape, HandledIsValid
  <2>4. Queues' /\ Goroutines'
    BY <1>1, <1>9, <2>1, QueuesFrame, Zenon DEF GossipInv
  <2> QED
    BY <1>7, <1>8, <2>2, <2>3, <2>4, Zenon DEF GossipInv
<1>11. CASE FromOther(m)
  <2> DEFINE q == queue[t][m.category]
  <2>0. PICK k : k = m.category
    BY Zenon
  <2>1. Len(q) < QueueCap /\ queue' = [queue EXCEPT ![t][k] = Append(@, m)] /\ UNCHANGED fate
    BY <1>1, <1>11, <2>0, Zenon
  <2>2. q \in Seq(Messages) /\ Len(q) \in Nat
    BY <1>5 DEF GossipInv, Shape
  <2>3. /\ queue'[t][k] = Append(q, m) /\ queue' \in [Topics -> [Kinds -> Seq(Messages)]]
        /\ \A u \in Topics, l \in Kinds : u # t \/ l # k => queue'[u][l] = queue[u][l]
    <3>1. k \in Kinds /\ m \in Messages /\ q = queue[t][k]
      BY <1>4, <1>5, <2>0, Zenon
    <3>2. Append(q, m) \in Seq(Messages)
      BY <2>2, <3>1
    <3>3. queue \in [Topics -> [Kinds -> Seq(Messages)]]
      BY Zenon DEF GossipInv, Shape
    <3> HIDE DEF q
    <3>4. queue' = [queue EXCEPT ![t][k] = Append(q, m)]
      BY <2>1, <3>1, Zenon
    <3> QED
      BY <3>1, <3>2, <3>3, <3>4, Zenon
  <2> HIDE DEF q
  <2>4. /\ Len(queue'[t][k]) = Len(q) + 1 /\ queue'[t][k][Len(q) + 1] = m
        /\ \A i \in 1..Len(q) : queue'[t][k][i] = q[i]
        /\ \A i \in 1..Len(queue'[t][k]) : i \in 1..Len(q) \/ i = Len(q) + 1
    BY <1>4, <2>2, <2>3, OneMore
  <2>5. Shape'
    BY <1>1, <1>3, <2>1, <2>3, Zenon DEF GossipInv, Shape
  <2>6. HandledIsValid'
    BY <2>1, Zenon DEF GossipInv, HandledIsValid
  <2>7. ~m.own
    BY <1>11, Zenon DEF FromOther
  <2>8. Queued(m, t, k)'
    BY <1>1, <1>5, <1>6, <2>0, <2>7, Zenon DEF Queued, Valid
  <2>9. \A i \in 1..Len(q) : Queued(q[i], t, k) /\ q[i] # m
    <3>1. \A i \in 1..Len(q) : Queued(q[i], t, k)
      BY <1>5, <2>0, Zenon DEF GossipInv, Queues, q
    <3>2. \A n : Queued(n, t, k) => n # m
      BY <1>4, Zenon DEF Queued
    <3> QED
      BY <3>1, <3>2, Zenon
  <2>10. Queues'
    <3> SUFFICES ASSUME NEW u \in Topics, NEW l \in Kinds
                 PROVE  /\ Len(queue'[u][l]) <= QueueCap
                        /\ \A i \in 1..Len(queue'[u][l]) : Queued(queue[u][l][i], u, l)'
                        /\ \A i, j \in 1..Len(queue'[u][l]) : queue'[u][l][i] = queue'[u][l][j] => i = j
      BY Zenon DEF Queues
    <3>1. CASE u # t \/ l # k
      BY <1>9, <2>3, <3>1 DEF GossipInv, Queues
    <3>2. CASE u = t /\ l = k
      <4>1. Len(queue'[t][k]) <= QueueCap
        BY <2>1, <2>2, <2>4, GossipAssumption
      <4>2. \A i \in 1..Len(queue'[t][k]) : Queued(queue[t][k][i], t, k)'
        BY <1>9, <2>2, <2>4, <2>8, <2>9, Zenon
      <4>3. \A i, j \in 1..Len(queue'[t][k]) : queue'[t][k][i] = queue'[t][k][j] => i = j
        <5>1. \A i, j \in 1..Len(q) : q[i] = q[j] => i = j
          BY <1>5, Zenon DEF GossipInv, Queues, q
        <5> QED
          BY <2>4, <2>9, <5>1, Zenon
      <4> QED
        BY <3>2, <4>1, <4>2, <4>3, Zenon
    <3> QED
      BY <3>1, <3>2, Zenon
  <2>11. Goroutines'
    <3>1. ASSUME NEW g \in tasks PROVE Taken(g)'
      <4> DEFINE u == g.msg.topic
                 l == g.msg.category
      <4>1. Taken(g) /\ u \in Topics /\ l \in Kinds /\ g.msg # m
        <5>1. Taken(g) /\ u \in Topics
          BY MessageFields, Zenon DEF GossipInv, Shape, Task, Goroutines
        <5>2. l \in Kinds
          BY <5>1, Zenon DEF Taken, Queued, Valid
        <5>3. \A j \in 1..Len(arrived[u]) : arrived[u][j] # g.msg
          BY <5>1, Zenon DEF Taken, Queued
        <5>4. g.msg = m => u = t
          BY <1>5, Zenon
        <5> QED
          BY <1>4, <5>1, <5>2, <5>3, <5>4, Zenon
      <4>2. Queued(g.msg, u, l)'
        BY <1>9, <4>1, Zenon DEF Taken
      <4>3. \A j \in 1..Len(queue[u][l]) : queue[u][l][j] # g.msg
        BY <4>1, Zenon DEF Taken
      <4> HIDE DEF u, l
      <4>4. \A j \in 1..Len(queue'[u][l]) : queue'[u][l][j] # g.msg
        <5>1. CASE u = t /\ l = k
          <6>1. queue[u][l] = q
            BY <2>0, <5>1, Zenon DEF q
          <6> QED
            BY <2>4, <4>1, <4>3, <5>1, <6>1
        <5>2. CASE u # t \/ l # k
          BY <2>3, <4>1, <4>3, <5>2, Zenon
        <5> QED
          BY <5>1, <5>2, Zenon
      <4> QED
        BY <4>1, <4>2, <4>4, Zenon DEF Taken, u, l
    <3> QED
      BY <1>1, <3>1, Zenon DEF GossipInv, Goroutines
  <2> QED
    BY <1>7, <1>8, <2>5, <2>6, <2>10, <2>11, Zenon DEF GossipInv
<1> QED
  BY <1>10, <1>11, Zenon

------------------------------------------------------------------------------
(* Goroutines.                                                             *)

\* A dispatcher starts a goroutine.
LEMMA DispatchKeeps ==
  ASSUME GossipInv, NEW t \in Topics, NEW k \in Kinds, Dispatch(t, k)
  PROVE  GossipInv'
<1> DEFINE q == queue[t][k]
<1>0. PICK m : m = Head(q)
  BY Zenon
<1>1. PICK g : g = [msg |-> m, pc |-> "acquire", held |-> FALSE]
  BY Zenon
<1>2. /\ q # <<>> /\ tasks' = tasks \cup {g} /\ queue' = [queue EXCEPT ![t][k] = Tail(@)]
      /\ UNCHANGED <<phase, topics, inbox, validating, arrived, sem, errs, readErrors, fate>>
  BY <1>0, <1>1, Zenon DEF Dispatch
<1>3. q \in Seq(Messages)
  BY Zenon DEF GossipInv, Shape
<1>4. /\ queue'[t][k] = Tail(q) /\ queue' \in [Topics -> [Kinds -> Seq(Messages)]]
      /\ \A u \in Topics, l \in Kinds : u # t \/ l # k => queue'[u][l] = queue[u][l]
  BY <1>2, <1>3, HeadTail, Zenon DEF GossipInv, Shape
<1>5. /\ Len(q) <= QueueCap /\ \A i \in 1..Len(q) : Queued(q[i], t, k)
      /\ \A i, j \in 1..Len(q) : q[i] = q[j] => i = j
  BY Zenon DEF GossipInv, Queues
<1> HIDE DEF q
<1>6. /\ m = q[1] /\ m \in Messages /\ Len(queue'[t][k]) \in Nat /\ Len(queue'[t][k]) < Len(q)
      /\ \A i \in 1..Len(queue'[t][k]) : queue'[t][k][i] = q[i + 1] /\ i + 1 \in 1..Len(q) /\ i + 1 # 1
      /\ 1 \in 1..Len(q)
  <2>1. /\ Head(q) = q[1] /\ 1 \in 1..Len(q) /\ Head(q) \in Messages
        /\ Len(Tail(q)) = Len(q) - 1 /\ Len(q) \in Nat
        /\ \A i \in 1..Len(Tail(q)) : Tail(q)[i] = q[i + 1] /\ i + 1 \in 1..Len(q) /\ i + 1 # 1
    BY <1>2, <1>3, HeadTail, Zenon
  <2>2. Len(Tail(q)) \in Nat /\ Len(Tail(q)) < Len(q)
    BY <2>1
  <2> QED
    BY <1>0, <1>4, <2>1, <2>2, Zenon
<1>7. Queued(m, t, k)
  BY <1>5, <1>6, Zenon
<1>8. g \in Task /\ g.msg = m /\ g.pc = "acquire" /\ g.held = FALSE
  BY <1>1, <1>6, Zenon DEF Task
<1>9. \A n : \A u \in Topics : \A l : Queued(n, u, l) => Queued(n, u, l)'
  BY <1>2, Zenon DEF Queued
<1>10. Shape'
  <2>1. tasks' \subseteq Task /\ IsFiniteSet(tasks')
    BY <1>2, <1>8, FS_AddElement, Zenon DEF GossipInv, Shape
  <2> QED
    BY <1>2, <1>4, <2>1, Zenon DEF GossipInv, Shape
<1>11. Arrivals' /\ HandledIsValid'
  BY <1>2 DEF GossipInv, Arrivals, HandledIsValid
<1>12. Queues'
  <2> SUFFICES ASSUME NEW u \in Topics, NEW l \in Kinds
               PROVE  /\ Len(queue'[u][l]) <= QueueCap
                      /\ \A i \in 1..Len(queue'[u][l]) : Queued(queue[u][l][i], u, l)'
                      /\ \A i, j \in 1..Len(queue'[u][l]) : queue'[u][l][i] = queue'[u][l][j] => i = j
    BY Zenon DEF Queues
  <2>1. CASE u # t \/ l # k
    BY <1>4, <1>9, <2>1 DEF GossipInv, Queues
  <2>2. CASE u = t /\ l = k
    <3>1. Len(queue'[t][k]) <= QueueCap
      BY <1>3, <1>5, <1>6, GossipAssumption
    <3>2. \A i \in 1..Len(queue'[t][k]) : Queued(queue[t][k][i], t, k)'
      BY <1>5, <1>6, <1>9, Zenon
    <3>3. \A i, j \in 1..Len(queue'[t][k]) : queue'[t][k][i] = queue'[t][k][j] => i = j
      BY <1>5, <1>6
    <3> QED
      BY <2>2, <3>1, <3>2, <3>3
  <2> QED
    BY <2>1, <2>2, Zenon
<1>13. ASSUME NEW h \in tasks PROVE Taken(h)' /\ h.msg # m
  <2> DEFINE u == h.msg.topic
             l == h.msg.category
  <2>1. Taken(h) /\ u \in Topics
    BY MessageFields, Zenon DEF GossipInv, Shape, Task, Goroutines
  <2>2. l \in Kinds
    BY <2>1, Zenon DEF Taken, Queued, Valid
  <2>3. Queued(h.msg, u, l)'
    BY <1>9, <2>1, Zenon DEF Taken
  <2>4. \A j \in 1..Len(queue[u][l]) : queue[u][l][j] # h.msg
    BY <2>1, Zenon DEF Taken
  <2>5. h.msg # m
    <3>1. h.msg = m => u = t /\ l = k
      BY <1>7, Zenon DEF Queued
    <3> QED
      BY <1>6, <2>4, <3>1, Zenon DEF q
  <2> HIDE DEF u, l
  <2>6. \A j \in 1..Len(queue'[u][l]) : queue'[u][l][j] # h.msg
    <3>1. CASE u = t /\ l = k
      BY <1>6, <2>4, <3>1 DEF q
    <3>2. CASE u # t \/ l # k
      BY <1>4, <2>1, <2>2, <2>4, <3>2, Zenon
    <3> QED
      BY <3>1, <3>2, Zenon
  <2> QED
    BY <2>1, <2>3, <2>5, <2>6, Zenon DEF Taken, u, l
<1>14. Taken(g)'
  <2>1. Queued(m, t, k)' /\ m.topic = t /\ m.category = k
    BY <1>7, <1>9 DEF Queued
  <2>2. \A j \in 1..Len(queue'[t][k]) : queue'[t][k][j] # m
    BY <1>5, <1>6, Zenon
  <2> QED
    BY <1>8, <2>1, <2>2, Zenon DEF Taken
<1>15. Goroutines'
  <2>1. \A a, b \in tasks' : a.msg = b.msg => a = b
    BY <1>2, <1>8, <1>13, Zenon DEF GossipInv, Goroutines
  <2> QED
    BY <1>2, <1>13, <1>14, <2>1, Zenon DEF Goroutines
<1>16. Permitted'
  <2>1. \A u \in Topics, l \in Kinds : Holders(u, l)' = Holders(u, l)
    BY <1>2, <1>8, Zenon DEF Holders
  <2> QED
    BY <1>2, <2>1, Zenon DEF GossipInv, Permitted
<1> QED
  BY <1>10, <1>11, <1>12, <1>15, <1>16, Zenon DEF GossipInv

\* One element more or not.
LEMMA CountWith ==
  ASSUME NEW R, IsFiniteSet(R), NEW x, x \notin R, NEW b \in BOOLEAN, NEW T,
         T = R \cup (IF b THEN {x} ELSE {})
  PROVE  /\ IsFiniteSet(T) /\ Cardinality(R) \in Nat
         /\ Cardinality(T) = Cardinality(R) + (IF b THEN 1 ELSE 0)
<1>1. Cardinality(R) \in Nat
  BY FS_CardinalityType, Zenon
<1>2. CASE b
  BY <1>1, <1>2, FS_AddElement, Zenon
<1>3. CASE ~b
  BY <1>1, <1>3
<1> QED
  BY <1>2, <1>3, Zenon

\* The holders of a semaphore without the goroutine g.
Others(g, t, k) == {a \in tasks \ {g} : a.held /\ a.msg.topic = t /\ a.msg.category = k}

\* Counting the holders of a semaphore: one task and the others.
LEMMA HoldersCount ==
  ASSUME GossipInv, NEW g \in tasks, NEW t, NEW k, t = g.msg.topic, k = g.msg.category
  PROVE  /\ IsFiniteSet(Others(g, t, k)) /\ Cardinality(Others(g, t, k)) \in Nat
         /\ Cardinality(Holders(t, k)) = Cardinality(Others(g, t, k)) + (IF g.held THEN 1 ELSE 0)
<1>1. IsFiniteSet(Others(g, t, k))
  BY FS_Subset, Zenon DEF GossipInv, Shape, Others
<1>2. g \notin Others(g, t, k) /\ g.held \in BOOLEAN
  BY Zenon DEF Others, GossipInv, Shape, Task
<1>3. Holders(t, k) = Others(g, t, k) \cup (IF g.held THEN {g} ELSE {})
  BY Zenon DEF Holders, Others
<1> QED
  BY <1>1, <1>2, <1>3, CountWith

\* A goroutine goes on, with or without a permit.
LEMMA MovesKeep ==
  ASSUME GossipInv, NEW g \in tasks, NEW held \in BOOLEAN,
         NEW pc \in {"handle", "report", "select", "deadline"}, pc \in {"handle", "report"} => held,
         Moves(g, pc, held), UNCHANGED <<inbox, arrived, queue>>,
         NEW t, NEW k, t = g.msg.topic, k = g.msg.category
  PROVE  /\ tasks' \subseteq Task /\ IsFiniteSet(tasks') /\ Queues' /\ Goroutines'
         /\ \A u, l : u # t \/ l # k => Holders(u, l)' = Holders(u, l)
         /\ Cardinality(Holders(t, k)') = Cardinality(Others(g, t, k)) + (IF held THEN 1 ELSE 0)
<1>1. PICK h : h = [g EXCEPT !.pc = pc, !.held = held]
  BY Zenon
<1>2. g \in Task /\ tasks \subseteq Task /\ IsFiniteSet(tasks)
  BY Zenon DEF GossipInv, Shape
<1>3. h \in Task /\ h.msg = g.msg /\ h.pc = pc /\ h.held = held
  BY <1>1, <1>2, Zenon DEF Task
<1>4. tasks' = (tasks \ {g}) \cup {h}
  BY <1>1, Zenon DEF Moves
<1>5. tasks' \subseteq Task /\ IsFiniteSet(tasks')
  BY <1>2, <1>3, <1>4, FS_AddElement, FS_RemoveElement, Zenon
<1>6. \A n : \A u \in Topics : \A l : Queued(n, u, l) => Queued(n, u, l)'
  BY Zenon DEF Queued
<1>7. Queues'
  BY <1>6 DEF GossipInv, Queues
<1>8. ASSUME NEW a \in tasks PROVE Taken(a)'
  <2>1. a.msg.topic \in Topics /\ Taken(a)
    BY <1>2, MessageFields, Zenon DEF GossipInv, Task, Goroutines
  <2>2. Queued(a.msg, a.msg.topic, a.msg.category)'
    BY <1>6, <2>1, Zenon DEF Taken
  <2> QED
    BY <2>1, <2>2, Zenon DEF Taken
<1>9. Taken(h)'
  BY <1>3, <1>8, Zenon DEF Taken
<1>10. \A a \in tasks : a.msg = g.msg => a = g
  BY Zenon DEF GossipInv, Goroutines
<1>11. Goroutines'
  <2>1. \A a, b \in tasks' : a.msg = b.msg => a = b
    BY <1>3, <1>4, <1>10, Zenon DEF GossipInv, Goroutines
  <2>2. \A a \in tasks' : Taken(a)'
    BY <1>4, <1>8, <1>9, Zenon
  <2> QED
    BY <2>1, <2>2, Zenon DEF Goroutines
<1>12. \A u, l : u # t \/ l # k => Holders(u, l)' = Holders(u, l)
  BY <1>3, <1>4, Zenon DEF Holders
<1>13. h \notin Others(g, t, k)
  BY <1>3, <1>10, Zenon DEF Others
<1>14. Holders(t, k)' = Others(g, t, k) \cup (IF held THEN {h} ELSE {})
  BY <1>3, <1>4, Zenon DEF Holders, Others
<1>15. Cardinality(Holders(t, k)') = Cardinality(Others(g, t, k)) + (IF held THEN 1 ELSE 0)
  BY <1>13, <1>14, HoldersCount, CountWith
<1> QED
  BY <1>5, <1>7, <1>11, <1>12, <1>15, Zenon

\* What the invariant says of one goroutine.
LEMMA TaskFacts ==
  ASSUME GossipInv, NEW g \in tasks
  PROVE  /\ g \in Task /\ g.msg \in Messages /\ g.msg.topic \in Topics /\ g.msg.category \in Kinds
         /\ Valid(g.msg) /\ ~g.msg.own /\ g.held \in BOOLEAN
         /\ (g.pc = "acquire" => ~g.held) /\ (g.pc \in {"handle", "report"} => g.held)
<1>1. g \in Task /\ Taken(g)
  BY Zenon DEF GossipInv, Shape, Goroutines
<1>2. g.msg \in Messages /\ g.held \in BOOLEAN /\ g.msg.topic \in Topics
  BY <1>1, MessageFields, Zenon DEF Task
<1> QED
  BY <1>1, <1>2, Zenon DEF Taken, Queued, Valid

\* A goroutine goes on and keeps what it holds.
LEMMA HandlerGoesOn ==
  ASSUME GossipInv, NEW g \in tasks, NEW pc \in {"handle", "report", "select", "deadline"},
         pc \in {"handle", "report"} => g.held, Moves(g, pc, g.held),
         UNCHANGED <<phase, topics, inbox, validating, arrived, queue, sem>>,
         errs' \in 0..ErrCap, fate' \in [Messages -> Fates], HandledIsValid'
  PROVE  GossipInv'
<1>1. PICK t, k : t = g.msg.topic /\ k = g.msg.category
  BY Zenon
<1>2. g.held \in BOOLEAN
  BY TaskFacts, Zenon
<1>3. PICK held \in BOOLEAN : held = g.held
  BY <1>2, Zenon
<1>4. /\ tasks' \subseteq Task /\ IsFiniteSet(tasks') /\ Queues' /\ Goroutines'
      /\ \A u, l : u # t \/ l # k => Holders(u, l)' = Holders(u, l)
      /\ Cardinality(Holders(t, k)') = Cardinality(Others(g, t, k)) + (IF held THEN 1 ELSE 0)
  BY <1>1, <1>3, MovesKeep
<1>5. Cardinality(Holders(t, k)) = Cardinality(Others(g, t, k)) + (IF held THEN 1 ELSE 0)
  BY <1>1, <1>3, HoldersCount, Zenon
<1>6. \A u \in Topics, l \in Kinds : Cardinality(Holders(u, l)') = Cardinality(Holders(u, l))
  BY <1>4, <1>5, Zenon
<1>7. Permitted'
  BY <1>6, Zenon DEF GossipInv, Permitted
<1>8. Shape'
  BY <1>4, Zenon DEF GossipInv, Shape
<1>9. Arrivals'
  BY DEF GossipInv, Arrivals
<1> QED
  BY <1>4, <1>7, <1>8, <1>9, Zenon DEF GossipInv

\* TryAcquire.
LEMMA AcquireKeeps ==
  ASSUME GossipInv, NEW g \in tasks, Acquire(g)
  PROVE  GossipInv'
<1>0. PICK m, t, k : m = g.msg /\ t = g.msg.topic /\ k = g.msg.category
  BY Zenon
<1>1. /\ m \in Messages /\ t \in Topics /\ k \in Kinds /\ ~g.held /\ g.pc = "acquire"
      /\ UNCHANGED <<phase, topics, inbox, validating, arrived, queue, errs, readErrors>>
  BY <1>0, TaskFacts, Zenon DEF Acquire
<1>2. /\ fate \in [Messages -> Fates] /\ HandledIsValid /\ errs \in 0..ErrCap
      /\ sem \in [Topics -> [Kinds -> Nat]]
  BY Zenon DEF GossipInv, Shape
<1>3. CASE ~(sem[t][k] < Permits)
  <2>1. Moves(g, "select", FALSE) /\ fate' = [fate EXCEPT ![m] = "dropped"] /\ UNCHANGED sem
    BY <1>0, <1>3, Zenon DEF Acquire
  <2>2. fate' \in [Messages -> Fates] /\ HandledIsValid'
    BY <1>1, <1>2, <2>1, Zenon DEF Fates, HandledIsValid
  <2>3. g.held = FALSE
    BY <1>1, TaskFacts, Zenon
  <2> QED
    BY <1>1, <1>2, <2>1, <2>2, <2>3, HandlerGoesOn, Zenon
<1>4. CASE sem[t][k] < Permits
  <2>1. /\ Moves(g, "handle", TRUE) /\ UNCHANGED fate
        /\ sem' = [sem EXCEPT ![t][k] = @ + 1]
    BY <1>0, <1>4, Zenon DEF Acquire
  <2>2. /\ tasks' \subseteq Task /\ IsFiniteSet(tasks') /\ Queues' /\ Goroutines'
        /\ \A u, l : u # t \/ l # k => Holders(u, l)' = Holders(u, l)
        /\ Cardinality(Holders(t, k)') = Cardinality(Others(g, t, k)) + 1
    <3>1. PICK held \in BOOLEAN : held = TRUE
      BY Zenon
    <3>2. PICK pc \in {"handle", "report", "select", "deadline"} : pc = "handle"
      BY Zenon
    <3>3. Moves(g, pc, held) /\ inbox' = inbox /\ arrived' = arrived /\ queue' = queue
      BY <1>1, <2>1, <3>1, <3>2, Zenon
    <3>5. pc \in {"handle", "report"} => held
      BY <3>1, Zenon
    <3>4. /\ tasks' \subseteq Task /\ IsFiniteSet(tasks') /\ Queues' /\ Goroutines'
          /\ \A u, l : u # t \/ l # k => Holders(u, l)' = Holders(u, l)
          /\ Cardinality(Holders(t, k)') = Cardinality(Others(g, t, k)) + (IF held THEN 1 ELSE 0)
      BY <1>0, <3>3, <3>5, MovesKeep
    <3> QED
      BY <3>1, <3>4, Zenon
  <2>3. Cardinality(Holders(t, k)) = Cardinality(Others(g, t, k)) /\ Cardinality(Others(g, t, k)) \in Nat
    BY <1>0, <1>1, HoldersCount
  <2>4. /\ sem' \in [Topics -> [Kinds -> Nat]] /\ sem'[t][k] = sem[t][k] + 1
        /\ \A u \in Topics, l \in Kinds : u # t \/ l # k => sem'[u][l] = sem[u][l]
    BY <1>1, <1>2, <2>1
  <2>5. sem[t][k] = Cardinality(Holders(t, k)) /\ sem[t][k] \in Nat
    BY <1>1, <1>2, Zenon DEF GossipInv, Permitted
  <2>6. sem'[t][k] = Cardinality(Holders(t, k)') /\ sem'[t][k] <= Permits
    <3>1. PICK old, others : old = sem[t][k] /\ others = Cardinality(Others(g, t, k))
      BY Zenon
    <3>2. old < Permits /\ Permits \in Nat /\ old \in Nat /\ old = others
      BY <1>4, <2>3, <2>5, <3>1, GossipAssumption, Zenon
    <3>3. sem'[t][k] = old + 1 /\ Cardinality(Holders(t, k)') = others + 1
      BY <2>2, <2>4, <3>1, Zenon
    <3>4. old + 1 <= Permits
      BY <3>2
    <3> QED
      BY <3>2, <3>3, <3>4, Zenon
  <2>7. Permitted'
    <3>1. ASSUME NEW u \in Topics, NEW l \in Kinds
          PROVE  sem'[u][l] = Cardinality(Holders(u, l)') /\ sem'[u][l] <= Permits
      <4>1. CASE u = t /\ l = k
        BY <2>6, <4>1, Zenon
      <4>2. CASE u # t \/ l # k
        <5>1. sem[u][l] = Cardinality(Holders(u, l)) /\ sem[u][l] <= Permits
          BY Zenon DEF GossipInv, Permitted
        <5>2. sem'[u][l] = sem[u][l] /\ Holders(u, l)' = Holders(u, l)
          BY <2>2, <2>4, <4>2, Zenon
        <5> QED
          BY <5>1, <5>2, Zenon
      <4> QED
        BY <4>1, <4>2, Zenon
    <3> QED
      BY <3>1, Zenon DEF Permitted
  <2>8. Shape'
    BY <1>1, <2>1, <2>2, <2>4, Zenon DEF GossipInv, Shape
  <2>9. Arrivals' /\ HandledIsValid'
    BY <1>1, <2>1 DEF GossipInv, Arrivals, HandledIsValid
  <2> QED
    BY <2>2, <2>7, <2>8, <2>9, Zenon DEF GossipInv
<1> QED
  BY <1>3, <1>4, Zenon

\* The handler, and its error.
LEMMA HandleKeeps ==
  ASSUME GossipInv, NEW g \in tasks, Handle(g) \/ ReportHandler(g)
  PROVE  GossipInv'
<1>1. fate \in [Messages -> Fates] /\ HandledIsValid /\ errs \in 0..ErrCap
  BY Zenon DEF GossipInv, Shape
<1>2. CASE Handle(g)
  <2>1. g.held = TRUE /\ g.msg \in Messages /\ Valid(g.msg) /\ ~g.msg.own
    BY <1>2, TaskFacts, Zenon DEF Handle
  <2>2. fate' = [fate EXCEPT ![g.msg] = "handled"]
    BY <1>2, Zenon DEF Handle
  <2>3. fate' \in [Messages -> Fates] /\ HandledIsValid'
    BY <1>1, <2>1, <2>2, Zenon DEF Fates, HandledIsValid, Valid
  <2>4. CASE Moves(g, "select", TRUE)
    BY <1>1, <1>2, <2>1, <2>3, <2>4, HandlerGoesOn, Zenon DEF Handle
  <2>5. CASE Moves(g, "report", TRUE)
    BY <1>1, <1>2, <2>1, <2>3, <2>5, HandlerGoesOn, Zenon DEF Handle
  <2> QED
    BY <1>2, <2>4, <2>5, Zenon DEF Handle
<1>3. CASE ReportHandler(g)
  <2>1. g.held = TRUE
    BY <1>3, TaskFacts, Zenon DEF ReportHandler
  <2>2. errs' \in 0..ErrCap
    BY <1>3, SendErrBound, Zenon DEF GossipInv, ReportHandler
  <2>3. HandledIsValid' /\ fate' \in [Messages -> Fates]
    BY <1>1, <1>3, Zenon DEF HandledIsValid, ReportHandler
  <2> QED
    BY <1>3, <2>1, <2>2, <2>3, HandlerGoesOn, Zenon DEF ReportHandler
<1> QED
  BY <1>2, <1>3, Zenon

\* A goroutine ends and gives its permit back.
LEMMA ReturnKeeps ==
  ASSUME GossipInv, NEW g \in tasks, Return(g), errs' \in 0..ErrCap
  PROVE  GossipInv'
<1>0. PICK t, k : t = g.msg.topic /\ k = g.msg.category
  BY Zenon
<1>1. PICK r : r = ReleasePermit(g)
  BY Zenon
<1>2. /\ tasks' = tasks \ {g} /\ sem' = [sem EXCEPT ![t][k] = @ - r]
      /\ UNCHANGED <<phase, topics, inbox, validating, arrived, queue, readErrors, fate>>
  BY <1>0, <1>1, Zenon DEF Return
<1>3. t \in Topics /\ k \in Kinds /\ g.held \in BOOLEAN /\ r = IF g.held THEN 1 ELSE 0
  BY <1>0, <1>1, TaskFacts, Zenon DEF ReleasePermit
<1>4. /\ Cardinality(Holders(t, k)) = Cardinality(Others(g, t, k)) + r
      /\ Cardinality(Others(g, t, k)) \in Nat
  BY <1>0, <1>3, HoldersCount, Zenon
<1>5. /\ sem \in [Topics -> [Kinds -> Nat]] /\ sem[t][k] = Cardinality(Holders(t, k))
      /\ sem[t][k] <= Permits /\ sem[t][k] \in Nat
  BY <1>3, Zenon DEF GossipInv, Shape, Permitted
<1>6. r \in {0, 1} /\ sem[t][k] - r = Cardinality(Others(g, t, k)) /\ sem[t][k] - r <= Permits
  <2>1. r \in {0, 1}
    BY <1>3, Zenon
  <2> QED
    BY <1>4, <1>5, <2>1, GossipAssumption
<1>7. sem[t][k] - r \in Nat
  BY <1>4, <1>6, Zenon
<1>8. /\ sem' \in [Topics -> [Kinds -> Nat]] /\ sem'[t][k] = sem[t][k] - r
      /\ \A u \in Topics, l \in Kinds : u # t \/ l # k => sem'[u][l] = sem[u][l]
  BY <1>2, <1>3, <1>5, <1>7, Zenon
<1>9. Holders(t, k)' = Others(g, t, k)
  BY <1>2, Zenon DEF Holders, Others
<1>10. \A u, l : u # t \/ l # k => Holders(u, l)' = Holders(u, l)
  BY <1>0, <1>2, Zenon DEF Holders
<1>11. Permitted'
  <2>1. ASSUME NEW u \in Topics, NEW l \in Kinds
        PROVE  sem'[u][l] = Cardinality(Holders(u, l)') /\ sem'[u][l] <= Permits
    <3>1. CASE u = t /\ l = k
      BY <1>6, <1>8, <1>9, <3>1, Zenon
    <3>2. CASE u # t \/ l # k
      <4>1. sem[u][l] = Cardinality(Holders(u, l)) /\ sem[u][l] <= Permits
        BY Zenon DEF GossipInv, Permitted
      <4>2. sem'[u][l] = sem[u][l] /\ Holders(u, l)' = Holders(u, l)
        BY <1>8, <1>10, <3>2, Zenon
      <4> QED
        BY <4>1, <4>2, Zenon
    <3> QED
      BY <3>1, <3>2, Zenon
  <2> QED
    BY <2>1, Zenon DEF Permitted
<1>12. Shape'
  <2>1. tasks' \subseteq Task /\ IsFiniteSet(tasks')
    BY <1>2, FS_RemoveElement, Zenon DEF GossipInv, Shape
  <2> QED
    BY <1>2, <1>8, <2>1, Zenon DEF GossipInv, Shape
<1>13. Arrivals' /\ HandledIsValid'
  BY <1>2 DEF GossipInv, Arrivals, HandledIsValid
<1>14. Queues' /\ Goroutines'
  <2>1. Queues'
    BY <1>2 DEF GossipInv, Queues, Queued
  <2>2. \A a \in tasks : Taken(a) => Taken(a)'
    BY <1>2, Zenon DEF Taken, Queued
  <2> QED
    BY <1>2, <2>1, <2>2, Zenon DEF GossipInv, Goroutines
<1> QED
  BY <1>11, <1>12, <1>13, <1>14, Zenon DEF GossipInv

\* The end of a goroutine, before or after its deadline.
LEMMA SelectKeeps ==
  ASSUME GossipInv, NEW g \in tasks, Select(g) \/ ReportDeadline(g)
  PROVE  GossipInv'
<1>1. fate \in [Messages -> Fates] /\ HandledIsValid /\ errs \in 0..ErrCap
  BY Zenon DEF GossipInv, Shape
<1>2. CASE Return(g) /\ UNCHANGED errs
  BY <1>1, <1>2, ReturnKeeps, Zenon
<1>3. CASE ReportDeadline(g)
  BY <1>3, SendErrBound, ReturnKeeps, Zenon DEF GossipInv, ReportDeadline
<1>4. CASE /\ Moves(g, "deadline", g.held)
           /\ UNCHANGED <<phase, topics, inbox, validating, arrived, queue, sem, errs, readErrors, fate>>
  <2>1. HandledIsValid'
    BY <1>1, <1>4, Zenon DEF HandledIsValid
  <2> QED
    BY <1>1, <1>4, <2>1, HandlerGoesOn, Zenon
<1> QED
  BY <1>2, <1>3, <1>4, Zenon DEF Select

------------------------------------------------------------------------------
(* The theorem.                                                            *)

\* Nothing has been delivered, and no permit is taken.
LEMMA GossipInvInit ==
  ASSUME GossipInit
  PROVE  GossipInv
<1>1. Cardinality(Topics) \in Nat /\ Cardinality({}) = 0 /\ IsFiniteSet({})
  BY GossipAssumption, FS_CardinalityType, FS_EmptySet, Zenon
<1>2. Shape
  BY <1>1, GossipAssumption DEF GossipInit, Shape, Fates, Kinds
<1>3. Arrivals /\ Queues /\ Goroutines
  BY GossipAssumption DEF GossipInit, Arrivals, Queues, Goroutines
<1>4. Permitted
  <2>1. \A t, k : Holders(t, k) = {}
    BY Zenon DEF GossipInit, Holders
  <2>2. \A t \in Topics, k \in Kinds : sem[t][k] = 0
    BY Zenon DEF GossipInit
  <2>3. 0 <= Permits
    BY GossipAssumption
  <2>4. \A t, k : Cardinality(Holders(t, k)) = 0
    BY <1>1, <2>1, Zenon
  <2> QED
    BY <2>2, <2>3, <2>4, Zenon DEF Permitted
<1>5. HandledIsValid
  BY Zenon DEF GossipInit, HandledIsValid
<1> QED
  BY <1>2, <1>3, <1>4, <1>5, Zenon DEF GossipInv

\* Every step keeps the invariant.
LEMMA GossipInvStep ==
  ASSUME GossipInv, [GossipNext]_gossipVars
  PROVE  GossipInv'
<1>1. CASE UNCHANGED gossipVars
  BY <1>1, QuietStep, Zenon DEF gossipVars, GossipInv, Shape
<1>2. CASE TopicStep \/ SetUpFails \/ \E t \in Topics : ReadFails(t)
  BY <1>2, TopicsKeep, Zenon
<1>3. CASE \E m \in Messages : Validate(m) \/ ReportInvalid(m)
  BY <1>3, ValidateKeeps, ReportInvalidKeeps, Zenon
<1>4. CASE \E t \in Topics : ReadNext(t) \/ \E k \in Kinds : Dispatch(t, k)
  BY <1>4, ReadNextKeeps, DispatchKeeps, Zenon
<1>5. CASE \E g \in tasks : Acquire(g) \/ Handle(g) \/ ReportHandler(g) \/ Select(g) \/ ReportDeadline(g)
  BY <1>5, AcquireKeeps, HandleKeeps, SelectKeeps, Zenon
<1> QED
  BY <1>1, <1>2, <1>3, <1>4, <1>5, Zenon DEF GossipNext, MessageStep

\* Whatever the order in which topics are set up, messages arrive, handlers fail and deadlines pass:
\* the semaphores of startMessageHandle count exactly the goroutines that hold a permit and never
\* exceed their weight, queues and errChan stay within their capacities, and the handlers see only
\* valid messages of other nodes, consensus messages only on topics of config.GroupID.
THEOREM GossipIsConsistent == GossipSpec => []GossipConsistent
<1>1. GossipInit => GossipInv
  BY GossipInvInit, Zenon
<1>2. GossipInv /\ [GossipNext]_gossipVars => GossipInv'
  BY GossipInvStep, Zenon
<1>3. GossipInv => GossipConsistent
  <2> SUFFICES ASSUME GossipInv PROVE GossipConsistent
    BY Zenon
  <2>1. PermitsHeld /\ HandledIsValid
    BY Zenon DEF GossipInv, Permitted, Holders, PermitsHeld
  <2>2. \A t \in Topics, k \in Kinds : Len(queue[t][k]) <= QueueCap
    BY Zenon DEF GossipInv, Queues
  <2>3. \A t \in Topics, k \in Kinds : sem[t][k] \in 0..Permits
    <3>1. \A t \in Topics, k \in Kinds : sem[t][k] \in Nat /\ sem[t][k] <= Permits
      BY Zenon DEF GossipInv, Shape, Permitted
    <3> QED
      BY <3>1, GossipAssumption
  <2>4. \A g \in tasks : g.msg \in Messages
    BY TaskFacts, Zenon
  <2>5. \A m \in Messages : fate[m] \in Fates
    BY Zenon DEF GossipInv, Shape
  <2>6. GossipTypeOK
    BY <2>2, <2>3, <2>4, <2>5, Zenon DEF GossipTypeOK, GossipInv, Shape, Fates
  <2> QED
    BY <2>1, <2>6, Zenon DEF GossipConsistent
<1> QED
  BY <1>1, <1>2, <1>3, PTL DEF GossipSpec

------------------------------------------------------------------------------
(* The index. *)

Blocks == Numbers \X ({None} \cup 0..MaxRewinds)

Job == [kind : {"index", "unindex"}, from : Nat, to : 0..(MaxNumber + 1), read : Nat,
        raw : SUBSET Blocks, out : SUBSET Blocks, queue : SUBSET Blocks,
        next : -1..(MaxNumber + 1), batch : SUBSET Blocks, alive : 0..Threads, stopped : BOOLEAN]

\* The types, and the chain is an initial segment of the numbers.
IndexShape ==
  /\ canon \in [Numbers -> {None} \cup 0..MaxRewinds]
  /\ \E h \in Numbers : \A n \in Numbers : canon[n] # None <=> n <= h
  /\ frozen \in Ancients /\ mapped \in -1..frozen /\ rewinds \in 0..MaxRewinds
  /\ tail \in {None} \cup 0..(MaxNumber + 1) /\ event \in {None} \cup Numbers
  /\ lookups \subseteq Blocks /\ \A b \in lookups : b[1] \notin EmptyBlocks /\ b[2] # None
  /\ up \in BOOLEAN /\ quit \in BOOLEAN /\ limit \in Limits \cup {0} /\ launches \in Nat

\* A block in the hands of a job's workers is the canonical one of its number, or the canonical
\* one was written while the job ran.
Fresh(j, b) ==
  /\ b[1] < j.to
  /\ canon[b[1]] = None \/ b = Block(b[1]) \/ b[1] \in EmptyBlocks
     \/ Block(b[1]) \in (IF j.kind = "index" THEN lookups ELSE late)

Running ==
  job # None =>
    /\ job \in Job
    /\ \A b \in job.raw \cup job.out \cup job.queue : Fresh(job, b)
    /\ \A b \in job.out \cup job.queue : b[2] # None
    /\ \A b \in job.batch : b[1] \notin EmptyBlocks /\ b[2] # None
    /\ job.kind = "index" => /\ job.next < job.to /\ \A b \in job.batch : b[1] > job.next
                             /\ tail # None => job.next < tail
    /\ job.kind = "unindex" => /\ 0 <= job.next /\ job.next <= job.to
                               /\ \A b \in job.batch : b[1] < job.next
                               /\ tail # None => tail <= job.next

\* Where the look-ups are complete: from the tail on, and from where an indexing job has come to.
FoundIndexed(n, S) == canon[n] # None /\ n \notin EmptyBlocks => Block(n) \in S

Covered ==
  ~cut =>
    /\ \A n \in Numbers : n >= (IF tail = None THEN frozen ELSE tail) => FoundIndexed(n, lookups)
    /\ job # None /\ job.kind = "index" =>
         \A n \in Numbers : n > job.next => FoundIndexed(n, lookups \cup job.batch)
    /\ job # None /\ job.kind = "unindex" /\ tail = None => frozen = 0

\* Where they are gone: below the tail, and below where an unindexing job has come to; the first
\* indexing of ancient blocks finds none.
Gone(n, S) == canon[n] # None => Block(n) \notin S \ late

Pruned ==
  /\ tail # None => \A n \in Numbers : n < tail => Gone(n, lookups)
  /\ job # None /\ job.kind = "unindex" =>
       \A n \in Numbers : n < job.next => Gone(n, lookups \ job.batch)
  /\ job # None /\ tail = None /\ job.kind = "index" => \A n \in Numbers : n < job.to => Gone(n, lookups)

\* Before the first launch.
Before == launches = 0 => ~up /\ job = None /\ tail = None /\ (frozen > 0 => lookups = {})

IndexInv == IndexShape /\ Running /\ Covered /\ Pruned /\ Before

------------------------------------------------------------------------------
(* The chain and the job's pipe.                                           *)

\* Height is the last number of the chain.
LEMMA HeightIs ==
  ASSUME IndexShape
  PROVE  Height \in Numbers /\ \A n \in Numbers : canon[n] # None <=> n <= Height
<1>1. PICK h \in Numbers : \A n \in Numbers : canon[n] # None <=> n <= h
  BY Zenon DEF IndexShape
<1>2. MaxNumber \in Nat
  BY IndexAssumption, Zenon
<1>3. canon[h] # None /\ (h = MaxNumber \/ canon[h + 1] = None)
  BY <1>1, <1>2 DEF Numbers
<1>4. \A n \in Numbers : canon[n] # None /\ (n = MaxNumber \/ canon[n + 1] = None) => n = h
  BY <1>1, <1>2 DEF Numbers
<1>5. Height = h
  BY <1>3, <1>4, Zenon DEF Height
<1> QED
  BY <1>1, <1>5, Zenon

\* Everything but the job, the launch and the marks that no conjunct relates to others.
Disk == <<canon, frozen, lookups, tail, rewinds, late, cut>>

\* The job's pipe moves.
LEMMA PipeStep ==
  ASSUME IndexInv, UNCHANGED <<Disk, mapped, up, quit, limit, event, launches>>, job # None, job' \in Job,
         job'.kind = job.kind, job'.to = job.to, job'.next = job.next, job'.batch = job.batch,
         \A b \in job'.raw \cup job'.out \cup job'.queue : Fresh(job, b),
         \A b \in job'.out \cup job'.queue : b[2] # None
  PROVE  IndexInv'
<1>1. IndexShape' /\ Before'
  BY Zenon DEF IndexInv, IndexShape, Before, Disk
<1>2. \A b : Fresh(job, b) => Fresh(job, b)'
  BY Zenon DEF Fresh, Disk, Block
<1>3. Running'
  <2>1. \A b \in job'.raw \cup job'.out \cup job'.queue : Fresh(job, b)'
    BY <1>2, Zenon
  <2> QED
    BY <2>1, Zenon DEF IndexInv, Running, Disk
<1>4. Covered' /\ Pruned'
  BY Zenon DEF IndexInv, Covered, Pruned, FoundIndexed, Gone, Block, Disk
<1> QED
  BY <1>1, <1>3, <1>4, Zenon DEF IndexInv

\* The reader is at a number of the chain's range.
LEMMA LookupKeeps ==
  ASSUME IndexInv, Lookup
  PROVE  IndexInv'
<1>1. job \in Job /\ job.kind \in {"index", "unindex"} /\ MaxNumber \in Nat
  BY IndexAssumption, Zenon DEF IndexInv, Running, Lookup, Job
<1>2. PICK n : n = Position
  BY Zenon
<1>3. n \in Numbers /\ n < job.to
  <2>1. job.to \in 0..(MaxNumber + 1) /\ job.from \in Nat /\ job.read \in Nat /\ job.read < job.to - job.from
    BY <1>1, Zenon DEF Lookup, Job
  <2> QED
    BY <1>1, <1>2, <2>1 DEF Position, Numbers
<1>4. Block(n) \in Blocks /\ Block(n)[1] = n
  BY <1>3, Zenon DEF IndexInv, IndexShape, Block, Blocks
<1>5. Fresh(job, Block(n))
  BY <1>3, <1>4, Zenon DEF Fresh
<1>6. job' = [job EXCEPT !.read = @ + 1, !.raw = @ \cup {Block(n)}]
  BY <1>2, Zenon DEF Lookup
<1>7. /\ job' \in Job /\ job'.kind = job.kind /\ job'.to = job.to /\ job'.next = job.next
      /\ job'.batch = job.batch /\ job'.raw = job.raw \cup {Block(n)} /\ job'.out = job.out
      /\ job'.queue = job.queue
  <2>1. PICK r, w : r = job.read + 1 /\ w = job.raw \cup {Block(n)}
    BY Zenon
  <2>2. r \in Nat /\ w \in SUBSET Blocks
    BY <1>1, <1>4, <2>1 DEF Job
  <2>3. job' = [job EXCEPT !.read = r, !.raw = w]
    BY <1>6, <2>1, Zenon
  <2> QED
    BY <1>1, <2>1, <2>2, <2>3, Zenon DEF Job
<1>8. \A b \in job'.raw \cup job'.out \cup job'.queue : Fresh(job, b)
  <2>1. \A b \in job.raw \cup job.out \cup job.queue : Fresh(job, b)
    BY Zenon DEF IndexInv, Running, Lookup
  <2> QED
    BY <1>5, <1>7, <2>1, Zenon
<1>9. \A b \in job'.out \cup job'.queue : b[2] # None
  BY <1>7, Zenon DEF IndexInv, Running, Lookup
<1>10. UNCHANGED <<Disk, mapped, up, quit, limit, event, launches>> /\ job # None
  BY Zenon DEF Lookup, Disk
<1> QED
  BY <1>7, <1>8, <1>9, <1>10, PipeStep, Zenon

\* The interrupt, the workers and the deliveries.
LEMMA WorkersKeep ==
  ASSUME IndexInv, LookupStops \/ Process \/ Deliver
  PROVE  IndexInv'
<1>1. /\ job # None /\ job \in Job /\ \A b \in job.raw \cup job.out \cup job.queue : Fresh(job, b)
      /\ \A b \in job.out \cup job.queue : b[2] # None
  BY Zenon DEF IndexInv, Running, LookupStops, Process, Deliver
<1>2. UNCHANGED <<Disk, mapped, up, quit, limit, event, launches>>
  BY Zenon DEF LookupStops, Process, Deliver, Disk
<1>3. CASE LookupStops
  <2>1. /\ job' \in Job /\ job'.kind = job.kind /\ job'.to = job.to /\ job'.next = job.next
        /\ job'.batch = job.batch /\ job'.raw = job.raw /\ job'.out = job.out /\ job'.queue = job.queue
    BY <1>1, <1>3, Zenon DEF LookupStops, Job
  <2> QED
    BY <1>1, <1>2, <2>1, PipeStep, Zenon
<1>4. ASSUME NEW b \in job.raw, b[2] # None, job' = [job EXCEPT !.raw = @ \ {b}, !.out = @ \cup {b}]
      PROVE  IndexInv'
  <2>1. /\ job' \in Job /\ job'.kind = job.kind /\ job'.to = job.to /\ job'.next = job.next
        /\ job'.batch = job.batch /\ job'.raw = job.raw \ {b} /\ job'.out = job.out \cup {b}
        /\ job'.queue = job.queue
    BY <1>1, <1>4, Zenon DEF Job
  <2> QED
    BY <1>1, <1>2, <1>4, <2>1, PipeStep, Zenon
<1>5. ASSUME NEW b \in job.raw, job.alive > 0, job' = [job EXCEPT !.raw = @ \ {b}, !.alive = @ - 1]
      PROVE  IndexInv'
  <2>1. job.alive - 1 \in 0..Threads
    BY <1>1, <1>5, IndexAssumption DEF Job
  <2>2. /\ job' \in Job /\ job'.kind = job.kind /\ job'.to = job.to /\ job'.next = job.next
        /\ job'.batch = job.batch /\ job'.raw = job.raw \ {b} /\ job'.out = job.out
        /\ job'.queue = job.queue
    BY <1>1, <1>5, <2>1, Zenon DEF Job
  <2> QED
    BY <1>1, <1>2, <2>2, PipeStep, Zenon
<1>6. ASSUME NEW b \in job.out, job' = [job EXCEPT !.out = @ \ {b}, !.queue = @ \cup {b}]
      PROVE  IndexInv'
  <2>1. /\ job' \in Job /\ job'.kind = job.kind /\ job'.to = job.to /\ job'.next = job.next
        /\ job'.batch = job.batch /\ job'.raw = job.raw /\ job'.out = job.out \ {b}
        /\ job'.queue = job.queue \cup {b}
    BY <1>1, <1>6, Zenon DEF Job
  <2> QED
    BY <1>1, <1>2, <2>1, PipeStep, Zenon
<1> QED
  BY <1>3, <1>4, <1>5, <1>6, Zenon DEF Process, Deliver

------------------------------------------------------------------------------
(* The consumer.                                                           *)

\* What the consumer makes of a block is typed like the disk.
LEMMA EntriesTyped ==
  ASSUME NEW b \in Blocks, b[2] # None
  PROVE  Entries(b) \subseteq Blocks /\ \A e \in Entries(b) : e = b /\ e[1] \notin EmptyBlocks
BY Zenon DEF Entries

\* The block at next goes into the batch: an indexing job has found everything above its new
\* position, an unindexing job has dropped everything below it.
LEMMA ConsumeFacts ==
  ASSUME IndexInv, job # None, NEW b \in job.queue, b[1] = job.next,
         NEW batch, batch = job.batch \cup Entries(b)
  PROVE  /\ batch \subseteq Blocks /\ \A e \in batch : e[1] \notin EmptyBlocks /\ e[2] # None
         /\ job.next \in Numbers /\ job.next < job.to
         /\ job.kind = "index" =>
              /\ \A e \in batch : e[1] > job.next - 1
              /\ ~cut => \A n \in Numbers : n > job.next - 1 => FoundIndexed(n, lookups \cup batch)
         /\ job.kind = "unindex" =>
              /\ \A e \in batch : e[1] < job.next + 1
              /\ \A n \in Numbers : n < job.next + 1 => Gone(n, lookups \ batch)
<1>1. /\ job \in Job /\ Fresh(job, b) /\ b[2] # None /\ b \in Blocks /\ job.batch \subseteq Blocks
      /\ \A e \in job.batch : e[1] \notin EmptyBlocks /\ e[2] # None
  BY Zenon DEF IndexInv, Running, Job
<1>2. batch \subseteq Blocks /\ \A e \in batch : e[1] \notin EmptyBlocks /\ e[2] # None
  BY <1>1, EntriesTyped, Zenon
<1>3. job.next \in Numbers /\ job.next < job.to /\ MaxNumber \in Nat
  BY <1>1, IndexAssumption, Zenon DEF Blocks, Fresh
<1>4. \A e \in batch : e \in job.batch \/ e = b
  BY <1>1, EntriesTyped, Zenon
<1>5. Block(job.next) = b \/ canon[job.next] = None \/ job.next \in EmptyBlocks
      \/ Block(job.next) \in (IF job.kind = "index" THEN lookups ELSE late)
  BY <1>1, Zenon DEF Fresh
<1>6. job.next \notin EmptyBlocks => b \in batch
  BY Zenon DEF Entries
<1>7. ASSUME job.kind = "index"
      PROVE  /\ \A e \in batch : e[1] > job.next - 1
             /\ ~cut => \A n \in Numbers : n > job.next - 1 => FoundIndexed(n, lookups \cup batch)
  <2>1. \A e \in job.batch : e[1] > job.next /\ e[1] \in Numbers
    BY <1>1, <1>7, Zenon DEF IndexInv, Running, Blocks
  <2>2. \A e \in batch : e[1] > job.next - 1
    BY <1>3, <1>4, <2>1 DEF Numbers
  <2>3. ASSUME ~cut, NEW n \in Numbers, n > job.next - 1 PROVE FoundIndexed(n, lookups \cup batch)
    <3>1. CASE n > job.next
      <4>1. FoundIndexed(n, lookups \cup job.batch)
        BY <1>7, <2>3, <3>1, Zenon DEF IndexInv, Covered
      <4> QED
        BY <4>1, Zenon DEF FoundIndexed
    <3>2. CASE n = job.next
      BY <1>5, <1>6, <1>7, <3>2, Zenon DEF FoundIndexed
    <3> QED
      BY <1>3, <2>3, <3>1, <3>2 DEF Numbers
  <2> QED
    BY <2>2, <2>3, Zenon
<1>8. ASSUME job.kind = "unindex"
      PROVE  /\ \A e \in batch : e[1] < job.next + 1
             /\ \A n \in Numbers : n < job.next + 1 => Gone(n, lookups \ batch)
  <2>1. \A e \in job.batch : e[1] < job.next /\ e[1] \in Numbers
    BY <1>1, <1>8, Zenon DEF IndexInv, Running, Blocks
  <2>2. \A e \in batch : e[1] < job.next + 1
    BY <1>3, <1>4, <2>1 DEF Numbers
  <2>3. ASSUME NEW n \in Numbers, n < job.next + 1 PROVE Gone(n, lookups \ batch)
    <3>1. CASE n < job.next
      <4>1. Gone(n, lookups \ job.batch)
        BY <1>8, <3>1, Zenon DEF IndexInv, Pruned
      <4> QED
        BY <4>1, Zenon DEF Gone
    <3>2. CASE n = job.next
      <4>1. n \in EmptyBlocks => Block(n) \notin lookups
        BY Zenon DEF IndexInv, IndexShape, Block
      <4> QED
        BY <1>5, <1>6, <1>8, <3>2, <4>1, Zenon DEF Gone
    <3> QED
      BY <1>3, <2>3, <3>1, <3>2 DEF Numbers
  <2> QED
    BY <2>2, <2>3, Zenon
<1> QED
  BY <1>2, <1>3, <1>7, <1>8, Zenon

\* A batch that is complete up to a mark is written with it.
LEMMA FlushKeeps ==
  ASSUME IndexInv, job # None, NEW batch \in SUBSET Blocks, NEW mark \in 0..(MaxNumber + 1),
         \A e \in batch : e[1] \notin EmptyBlocks /\ e[2] # None,
         Flush(batch, mark),
         job.kind = "index" =>
           /\ mark <= job.to /\ (tail # None => mark <= tail) /\ \A e \in batch : e[1] >= mark
           /\ ~cut => \A n \in Numbers : n >= mark => FoundIndexed(n, lookups \cup batch),
         job.kind = "unindex" =>
           /\ (tail # None => tail <= mark) /\ \A e \in batch : e[1] < mark
           /\ \A n \in Numbers : n < mark => Gone(n, lookups \ batch),
         UNCHANGED <<canon, frozen, rewinds, late, cut>>
  PROVE  /\ tail' = mark /\ mark # None /\ lookups' \subseteq Blocks
         /\ \A b \in lookups' : b[1] \notin EmptyBlocks /\ b[2] # None
         /\ lookups' = IF job.kind = "index" THEN lookups \cup batch ELSE lookups \ batch
         /\ ~cut => \A n \in Numbers : n >= mark => FoundIndexed(n, lookups)'
         /\ \A n \in Numbers : n < mark => Gone(n, lookups)'
<1>1. /\ job.kind \in {"index", "unindex"} /\ job.to \in 0..(MaxNumber + 1)
      /\ tail \in {None} \cup 0..(MaxNumber + 1) /\ MaxNumber \in Nat
  BY IndexAssumption, Zenon DEF IndexInv, Running, IndexShape, Job
<1>2. tail' = mark /\ mark # None
  BY IndexAssumption DEF Flush
<1>3. lookups' = IF job.kind = "index" THEN lookups \cup batch ELSE lookups \ batch
  BY Zenon DEF Flush
<1>4. lookups' \subseteq Blocks /\ \A b \in lookups' : b[1] \notin EmptyBlocks /\ b[2] # None
  BY <1>3, Zenon DEF IndexInv, IndexShape
<1>5. CASE job.kind = "index"
  <2>1. ~cut => \A n \in Numbers : n >= mark => FoundIndexed(n, lookups)'
    BY <1>3, <1>5, Zenon DEF FoundIndexed, Block
  <2>2. ASSUME NEW n \in Numbers, n < mark PROVE Gone(n, lookups)'
    <3>1. Gone(n, lookups)
      <4>1. n \in Nat /\ mark \in Nat
        BY <1>1 DEF Numbers
      <4>2. CASE tail # None
        <5>1. tail \in Nat /\ n < tail
          BY <1>1, <1>5, <2>2, <4>1, <4>2
        <5> QED
          BY <4>2, <5>1, Zenon DEF IndexInv, Pruned
      <4>3. CASE tail = None
        <5>1. n < job.to
          BY <1>1, <1>5, <2>2, <4>1
        <5> QED
          BY <1>5, <4>3, <5>1, Zenon DEF IndexInv, Pruned
      <4> QED
        BY <4>2, <4>3, Zenon
    <3>2. Block(n) \notin batch
      <4>1. Block(n)[1] = n
        BY Zenon DEF Block
      <4>2. \A e \in batch : e[1] >= mark /\ e[1] \in Nat
        BY <1>5 DEF Blocks, Numbers
      <4>3. n \in Nat /\ mark \in Nat
        BY <1>1 DEF Numbers
      <4> QED
        BY <2>2, <4>1, <4>2, <4>3
    <3> QED
      BY <1>3, <1>5, <3>1, <3>2, Zenon DEF Gone, Block
  <2> QED
    BY <1>2, <1>3, <1>4, <2>1, <2>2, Zenon
<1>6. CASE job.kind = "unindex"
  <2>1. \A n \in Numbers : n < mark => Gone(n, lookups)'
    BY <1>3, <1>6, Zenon DEF Gone, Block
  <2>2. ASSUME ~cut, NEW n \in Numbers, n >= mark PROVE FoundIndexed(n, lookups)'
    <3>0. n \in Nat /\ mark \in Nat
      BY <1>1 DEF Numbers
    <3>1. FoundIndexed(n, lookups)
      <4>1. CASE tail # None
        <5>1. tail \in Nat /\ n >= tail
          BY <1>1, <1>6, <2>2, <3>0, <4>1
        <5> QED
          BY <2>2, <4>1, <5>1, Zenon DEF IndexInv, Covered
      <4>2. CASE tail = None
        <5>1. frozen = 0 /\ n >= 0
          BY <1>6, <2>2, <3>0, <4>2 DEF IndexInv, Covered
        <5> QED
          BY <2>2, <4>2, <5>1, Zenon DEF IndexInv, Covered
      <4> QED
        BY <4>1, <4>2, Zenon
    <3>2. Block(n) \notin batch
      <4>1. Block(n)[1] = n
        BY DEF Block
      <4>2. \A e \in batch : e[1] < mark /\ e[1] \in Nat
        BY <1>6 DEF Blocks, Numbers
      <4> QED
        BY <2>2, <3>0, <4>1, <4>2
    <3> QED
      BY <1>3, <1>6, <3>1, <3>2, Zenon DEF FoundIndexed, Block
  <2> QED
    BY <1>2, <1>3, <1>4, <2>1, <2>2, Zenon
<1> QED
  BY <1>1, <1>5, <1>6, Zenon

\* Where a job goes on.
Step(kind, n) == IF kind = "index" THEN n - 1 ELSE n + 1

\* The fields of the job after a block is consumed.
LEMMA AfterFields ==
  ASSUME IndexInv, job # None, NEW b \in job.queue, b[1] = job.next, NEW batch \in SUBSET Blocks,
         job' = [job EXCEPT !.queue = @ \ {b}, !.batch = batch,
                            !.next = IF job.kind = "index" THEN @ - 1 ELSE @ + 1],
         job.next \in Numbers
  PROVE  /\ job' \in Job /\ job'.kind = job.kind /\ job'.to = job.to /\ job'.raw = job.raw
         /\ job'.out = job.out /\ job'.queue = job.queue \ {b} /\ job'.batch = batch
         /\ job'.next = Step(job.kind, job.next)
<1>1. job \in Job /\ MaxNumber \in Nat
  BY IndexAssumption, Zenon DEF IndexInv, Running
<1>2. PICK q, n : q = job.queue \ {b} /\ n = Step(job.kind, job.next)
  BY Zenon
<1>3. q \in SUBSET Blocks
  BY <1>1, <1>2, Zenon DEF Job
<1>4. n \in -1..(MaxNumber + 1)
  BY <1>1, <1>2 DEF Numbers, Step
<1>5. job' = [job EXCEPT !.queue = q, !.batch = batch, !.next = n]
  BY <1>2, Zenon DEF Step
<1> QED
  BY <1>1, <1>2, <1>3, <1>4, <1>5 DEF Job

\* A block is put into the batch and nothing is written.
LEMMA ConsumeQuietly ==
  ASSUME IndexInv, job # None, NEW b \in job.queue, b[1] = job.next,
         job' = [job EXCEPT !.queue = @ \ {b}, !.batch = job.batch \cup Entries(b),
                            !.next = IF job.kind = "index" THEN @ - 1 ELSE @ + 1],
         UNCHANGED <<Disk, mapped, up, quit, limit, event, launches>>
  PROVE  IndexInv'
<1>1. PICK batch : batch = job.batch \cup Entries(b)
  BY Zenon
<1>2. /\ batch \subseteq Blocks /\ \A e \in batch : e[1] \notin EmptyBlocks /\ e[2] # None
      /\ job.next \in Numbers /\ job.next < job.to
      /\ job.kind = "index" =>
           /\ \A e \in batch : e[1] > job.next - 1
           /\ ~cut => \A n \in Numbers : n > job.next - 1 => FoundIndexed(n, lookups \cup batch)
      /\ job.kind = "unindex" =>
           /\ \A e \in batch : e[1] < job.next + 1
           /\ \A n \in Numbers : n < job.next + 1 => Gone(n, lookups \ batch)
  BY <1>1, ConsumeFacts, Zenon
<1>3. /\ job' \in Job /\ job'.kind = job.kind /\ job'.to = job.to /\ job'.raw = job.raw
      /\ job'.out = job.out /\ job'.queue = job.queue \ {b} /\ job'.batch = batch
      /\ job'.next = Step(job.kind, job.next)
  BY <1>1, <1>2, AfterFields, Zenon
<1>4. job.to \in Int /\ job.next \in Int /\ tail \in {None} \cup 0..(MaxNumber + 1) /\ MaxNumber \in Nat
      /\ job.kind \in {"index", "unindex"}
  BY IndexAssumption DEF IndexInv, IndexShape, Running, Job
<1>5. IndexShape' /\ Before'
  BY Zenon DEF IndexInv, IndexShape, Before, Disk
<1>6. Running'
  <2>1. \A c \in job.raw \cup job.out \cup job.queue : Fresh(job, c)'
    BY <1>3, Zenon DEF IndexInv, Running, Fresh, Disk, Block
  <2>2. \A c \in job'.out \cup job'.queue : c[2] # None
    BY <1>3, Zenon DEF IndexInv, Running
  <2>3. ASSUME job.kind = "index"
        PROVE  /\ job'.next < job'.to /\ \A e \in job'.batch : e[1] > job'.next
               /\ tail' # None => job'.next < tail'
    <3>1. tail # None => job.next < tail
      BY <2>3, Zenon DEF IndexInv, Running
    <3> QED
      BY <1>2, <1>3, <1>4, <2>3, <3>1 DEF Step, Disk
  <2>4. ASSUME job.kind = "unindex"
        PROVE  /\ 0 <= job'.next /\ job'.next <= job'.to /\ \A e \in job'.batch : e[1] < job'.next
               /\ tail' # None => tail' <= job'.next
    <3>1. tail # None => tail <= job.next
      BY <2>4, Zenon DEF IndexInv, Running
    <3> QED
      BY <1>2, <1>3, <1>4, <2>4, <3>1 DEF Step, Disk, Numbers
  <2> QED
    BY <1>2, <1>3, <2>1, <2>2, <2>3, <2>4, Zenon DEF Running
<1>7. Covered'
  <2>1. \A n \in Numbers : FoundIndexed(n, lookups) => FoundIndexed(n, lookups)'
    BY Zenon DEF FoundIndexed, Block, Disk
  <2>2. job.kind = "index" /\ ~cut => \A n \in Numbers : n > job'.next => FoundIndexed(n, lookups \cup job.batch)'
    BY <1>2, <1>3, Zenon DEF FoundIndexed, Block, Disk, Step
  <2> QED
    BY <1>3, <2>1, <2>2, Zenon DEF IndexInv, Covered, Disk
<1>8. Pruned'
  <2>1. \A n \in Numbers : Gone(n, lookups) => Gone(n, lookups)'
    BY Zenon DEF Gone, Block, Disk
  <2>2. job.kind = "unindex" => \A n \in Numbers : n < job'.next => Gone(n, lookups \ job.batch)'
    BY <1>2, <1>3 DEF Gone, Block, Disk, Step
  <2> QED
    BY <1>3, <2>1, <2>2, Zenon DEF IndexInv, Pruned, Disk
<1> QED
  BY <1>5, <1>6, <1>7, <1>8, Zenon DEF IndexInv

\* A block is put into the batch, and the batch is written with the tail.
LEMMA ConsumeAndFlush ==
  ASSUME IndexInv, job # None, NEW b \in job.queue, b[1] = job.next,
         NEW batch, batch = job.batch \cup Entries(b),
         job' = [job EXCEPT !.queue = @ \ {b}, !.batch = {},
                            !.next = IF job.kind = "index" THEN @ - 1 ELSE @ + 1],
         Flush(batch, IF job.kind = "index" THEN b[1] ELSE b[1] + 1),
         UNCHANGED <<canon, frozen, rewinds, late, mapped, cut, up, quit, limit, event, launches>>
  PROVE  IndexInv'
<1>2. /\ batch \subseteq Blocks /\ \A e \in batch : e[1] \notin EmptyBlocks /\ e[2] # None
      /\ job.next \in Numbers /\ job.next < job.to
      /\ job.kind = "index" =>
           /\ \A e \in batch : e[1] > job.next - 1
           /\ ~cut => \A n \in Numbers : n > job.next - 1 => FoundIndexed(n, lookups \cup batch)
      /\ job.kind = "unindex" =>
           /\ \A e \in batch : e[1] < job.next + 1
           /\ \A n \in Numbers : n < job.next + 1 => Gone(n, lookups \ batch)
  BY ConsumeFacts, Zenon
<1>3. /\ job' \in Job /\ job'.kind = job.kind /\ job'.to = job.to /\ job'.raw = job.raw
      /\ job'.out = job.out /\ job'.queue = job.queue \ {b} /\ job'.batch = {}
      /\ job'.next = Step(job.kind, job.next)
  BY <1>2, AfterFields
<1>4. job.to \in Int /\ job.next \in Int /\ tail \in {None} \cup 0..(MaxNumber + 1) /\ MaxNumber \in Nat
      /\ job.kind \in {"index", "unindex"}
  BY IndexAssumption DEF IndexInv, IndexShape, Running, Job
<1>5. PICK mark : mark = IF job.kind = "index" THEN job.next ELSE job.next + 1
  BY Zenon
<1>6. mark \in 0..(MaxNumber + 1) /\ Flush(batch, mark) /\ mark = IF job.kind = "index" THEN job.next ELSE job.next + 1
  BY <1>2, <1>4, <1>5 DEF Numbers
<1>7. /\ job.kind = "index" /\ tail # None => job.next < tail
      /\ job.kind = "unindex" /\ tail # None => tail <= job.next
  BY Zenon DEF IndexInv, Running
<1>8. job.kind = "index" =>
           /\ mark <= job.to /\ (tail # None => mark <= tail) /\ \A e \in batch : e[1] >= mark
           /\ ~cut => \A n \in Numbers : n >= mark => FoundIndexed(n, lookups \cup batch)
  <2> SUFFICES ASSUME job.kind = "index"
               PROVE  /\ mark <= job.to /\ (tail # None => mark <= tail) /\ \A e \in batch : e[1] >= mark
                      /\ ~cut => \A n \in Numbers : n >= mark => FoundIndexed(n, lookups \cup batch)
    BY Zenon
  <2>1. mark = job.next /\ mark <= job.to /\ (tail # None => mark <= tail)
    BY <1>2, <1>4, <1>5, <1>7
  <2>2. \A e \in batch : e[1] \in Int
    BY <1>2 DEF Blocks, Numbers
  <2>3. \A n \in Int : n >= mark <=> n > job.next - 1
    BY <1>4, <2>1
  <2>4. \A n \in Numbers : n \in Int
    BY <1>4 DEF Numbers
  <2>5. \A e \in batch : e[1] >= mark
    BY <1>2, <2>2, <2>3, Zenon
  <2> QED
    BY <1>2, <2>1, <2>3, <2>4, <2>5, Zenon
<1>9. job.kind = "unindex" =>
           /\ (tail # None => tail <= mark) /\ \A e \in batch : e[1] < mark
           /\ \A n \in Numbers : n < mark => Gone(n, lookups \ batch)
  <2> SUFFICES ASSUME job.kind = "unindex"
               PROVE  /\ (tail # None => tail <= mark) /\ \A e \in batch : e[1] < mark
                      /\ \A n \in Numbers : n < mark => Gone(n, lookups \ batch)
    BY Zenon
  <2>1. mark = job.next + 1
    BY <1>5, Zenon
  <2>2. tail # None => tail <= mark
    BY <1>4, <1>7, <2>1
  <2> QED
    BY <1>2, <2>1, <2>2, Zenon
<1>10. /\ tail' = mark /\ mark # None /\ lookups' \subseteq Blocks
       /\ \A c \in lookups' : c[1] \notin EmptyBlocks /\ c[2] # None
       /\ lookups' = IF job.kind = "index" THEN lookups \cup batch ELSE lookups \ batch
       /\ ~cut => \A n \in Numbers : n >= mark => FoundIndexed(n, lookups)'
       /\ \A n \in Numbers : n < mark => Gone(n, lookups)'
  BY <1>2, <1>6, <1>8, <1>9, FlushKeeps
<1>11. IndexShape' /\ Before'
  <2>1. IndexShape'
    BY <1>6, <1>10, Zenon DEF IndexInv, IndexShape
  <2>2. Before'
    BY Zenon DEF IndexInv, Before
  <2> QED
    BY <2>1, <2>2, Zenon
<1>12. Running'
  <2>1. \A c : Fresh(job, c) => Fresh(job, c)'
    BY <1>3, <1>10, Zenon DEF Fresh, Block
  <2>2. \A c \in job'.raw \cup job'.out \cup job'.queue : Fresh(job, c)'
    BY <1>3, <2>1, Zenon DEF IndexInv, Running
  <2>3. \A c \in job'.out \cup job'.queue : c[2] # None
    BY <1>3, Zenon DEF IndexInv, Running
  <2>4. job.kind = "index" => job'.next < job'.to /\ job'.next < mark
    BY <1>2, <1>3, <1>4, <1>5 DEF Step
  <2>5. job.kind = "unindex" => 0 <= job'.next /\ job'.next <= job'.to /\ mark <= job'.next
    BY <1>2, <1>3, <1>4, <1>5 DEF Step, Numbers
  <2> QED
    BY <1>3, <1>10, <2>2, <2>3, <2>4, <2>5, Zenon DEF Running
<1>13. Covered'
  <2>1. job.kind = "index" => \A n \in Numbers : n > job'.next => n >= mark
    BY <1>3, <1>4, <1>5 DEF Step, Numbers
  <2>2. \A n : FoundIndexed(n, lookups)' => FoundIndexed(n, lookups \cup job.batch)'
    BY Zenon DEF FoundIndexed
  <2> QED
    BY <1>3, <1>10, <2>1, <2>2, Zenon DEF Covered
<1>14. Pruned'
  <2>1. job.kind = "unindex" => job'.next = mark
    BY <1>3, <1>5, Zenon DEF Step
  <2>2. \A n : Gone(n, lookups)' => Gone(n, lookups \ job.batch)'
    BY Zenon DEF Gone
  <2> QED
    BY <1>3, <1>10, <2>1, <2>2, Zenon DEF Pruned
<1> QED
  BY <1>11, <1>12, <1>13, <1>14, Zenon DEF IndexInv

\* The consumer.
LEMMA ConsumeKeeps ==
  ASSUME IndexInv, Consume
  PROVE  IndexInv'
<1>1. job # None /\ UNCHANGED <<canon, frozen, rewinds, late, mapped, cut, up, quit, limit, event, launches>>
  BY Zenon DEF Consume
<1>2. PICK b \in job.queue :
        /\ b[1] = job.next
        /\ \/ /\ job' = [job EXCEPT !.queue = @ \ {b}, !.batch = job.batch \cup Entries(b),
                                    !.next = IF job.kind = "index" THEN @ - 1 ELSE @ + 1]
              /\ UNCHANGED <<lookups, tail>>
           \/ /\ Flush(job.batch \cup Entries(b), IF job.kind = "index" THEN b[1] ELSE b[1] + 1)
              /\ job' = [[job EXCEPT !.queue = @ \ {b}, !.batch = job.batch \cup Entries(b),
                                     !.next = IF job.kind = "index" THEN @ - 1 ELSE @ + 1]
                           EXCEPT !.batch = {}]
  BY Zenon DEF Consume
<1>3. CASE /\ job' = [job EXCEPT !.queue = @ \ {b}, !.batch = job.batch \cup Entries(b),
                                 !.next = IF job.kind = "index" THEN @ - 1 ELSE @ + 1]
           /\ UNCHANGED <<lookups, tail>>
  BY <1>1, <1>2, <1>3, ConsumeQuietly, Zenon DEF Disk
<1>4. CASE /\ Flush(job.batch \cup Entries(b), IF job.kind = "index" THEN b[1] ELSE b[1] + 1)
           /\ job' = [[job EXCEPT !.queue = @ \ {b}, !.batch = job.batch \cup Entries(b),
                                  !.next = IF job.kind = "index" THEN @ - 1 ELSE @ + 1]
                        EXCEPT !.batch = {}]
  <2>1. job' = [job EXCEPT !.queue = @ \ {b}, !.batch = {},
                           !.next = IF job.kind = "index" THEN @ - 1 ELSE @ + 1]
    <3>1. job \in Job
      BY <1>1, Zenon DEF IndexInv, Running
    <3> QED
      BY <1>4, <3>1, Zenon DEF Job
  <2>2. PICK batch : batch = job.batch \cup Entries(b)
    BY Zenon
  <2> QED
    BY <1>1, <1>2, <1>4, <2>1, <2>2, ConsumeAndFlush, Zenon
<1> QED
  BY <1>2, <1>3, <1>4, Zenon

\* The end of a job.
LEMMA FinishKeeps ==
  ASSUME IndexInv, Finish
  PROVE  IndexInv'
<1>1. /\ job # None /\ job' = None
      /\ UNCHANGED <<canon, frozen, rewinds, late, mapped, cut, up, quit, limit, event, launches>>
  BY Zenon DEF Finish
<1>2. Running' /\ Before'
  BY <1>1, Zenon DEF IndexInv, Running, Before
<1>3. CASE UNCHANGED <<lookups, tail>>
  <2>1. IndexShape'
    BY <1>1, <1>3, Zenon DEF IndexInv, IndexShape
  <2>2. Covered' /\ Pruned'
    BY <1>1, <1>3, Zenon DEF IndexInv, Covered, Pruned, FoundIndexed, Gone, Block
  <2> QED
    BY <1>2, <2>1, <2>2, Zenon DEF IndexInv
<1>4. CASE Flush(job.batch, IF job.kind = "index" THEN job.next + 1 ELSE job.next)
  <2>1. /\ job \in Job /\ job.to \in 0..(MaxNumber + 1) /\ job.next \in -1..(MaxNumber + 1)
        /\ tail \in {None} \cup 0..(MaxNumber + 1) /\ MaxNumber \in Nat
        /\ job.kind \in {"index", "unindex"} /\ job.batch \in SUBSET Blocks
        /\ \A e \in job.batch : e[1] \notin EmptyBlocks /\ e[2] # None
    BY <1>1, IndexAssumption, Zenon DEF IndexInv, IndexShape, Running, Job
  <2>2. /\ job.kind = "index" => /\ job.next < job.to /\ \A b \in job.batch : b[1] > job.next
                                 /\ tail # None => job.next < tail
        /\ job.kind = "unindex" => /\ 0 <= job.next /\ job.next <= job.to
                                   /\ \A b \in job.batch : b[1] < job.next
                                   /\ tail # None => tail <= job.next
    BY <1>1, Zenon DEF IndexInv, Running
  <2>3. PICK mark : mark = IF job.kind = "index" THEN job.next + 1 ELSE job.next
    BY Zenon
  <2>4. mark \in 0..(MaxNumber + 1)
    BY <2>1, <2>2, <2>3
  <2>5. \A e \in job.batch : e[1] \in Int
    BY <2>1 DEF Blocks, Numbers
  <2>6. job.kind = "index" =>
           /\ mark <= job.to /\ (tail # None => mark <= tail) /\ \A e \in job.batch : e[1] >= mark
           /\ ~cut => \A n \in Numbers : n >= mark => FoundIndexed(n, lookups \cup job.batch)
    <3> SUFFICES ASSUME job.kind = "index"
                 PROVE  /\ mark <= job.to /\ (tail # None => mark <= tail)
                        /\ \A e \in job.batch : e[1] >= mark
                        /\ ~cut => \A n \in Numbers : n >= mark => FoundIndexed(n, lookups \cup job.batch)
      BY Zenon
    <3>1. mark = job.next + 1 /\ mark <= job.to /\ (tail # None => mark <= tail)
      BY <2>1, <2>2, <2>3
    <3>2. \A e \in job.batch : e[1] >= mark
      BY <2>1, <2>2, <2>5, <3>1
    <3>3. \A n \in Numbers : n >= mark => n > job.next
      BY <2>1, <3>1 DEF Numbers
    <3>4. ~cut => \A n \in Numbers : n > job.next => FoundIndexed(n, lookups \cup job.batch)
      BY <1>1, Zenon DEF IndexInv, Covered
    <3> QED
      BY <3>1, <3>2, <3>3, <3>4, Zenon
  <2>7. job.kind = "unindex" =>
           /\ (tail # None => tail <= mark) /\ \A e \in job.batch : e[1] < mark
           /\ \A n \in Numbers : n < mark => Gone(n, lookups \ job.batch)
    BY <1>1, <2>2, <2>3, Zenon DEF IndexInv, Pruned
  <2>8. Flush(job.batch, mark)
    BY <1>4, <2>3, Zenon
  <2>9. /\ tail' = mark /\ mark # None /\ lookups' \subseteq Blocks
        /\ \A c \in lookups' : c[1] \notin EmptyBlocks /\ c[2] # None
        /\ ~cut => \A n \in Numbers : n >= mark => FoundIndexed(n, lookups)'
        /\ \A n \in Numbers : n < mark => Gone(n, lookups)'
    BY <1>1, <2>1, <2>4, <2>6, <2>7, <2>8, FlushKeeps, Zenon
  <2>10. IndexShape'
    BY <1>1, <2>4, <2>9, Zenon DEF IndexInv, IndexShape
  <2>11. Covered' /\ Pruned'
    BY <1>1, <2>9, Zenon DEF Covered, Pruned
  <2> QED
    BY <1>2, <2>10, <2>11 DEF IndexInv
<1> QED
  BY <1>3, <1>4, Zenon DEF Finish

------------------------------------------------------------------------------
(* maintainTxIndex and the chain.                                          *)

\* The other variables have their types.
Rest ==
  /\ mapped' \in -1..frozen' /\ event' \in {None} \cup Numbers /\ limit' \in Limits \cup {0}
  /\ up' \in BOOLEAN /\ quit' \in BOOLEAN /\ launches' \in Nat

\* The disk stays as it is, and the job too or it is gone.
LEMMA IdleStep ==
  ASSUME IndexInv, UNCHANGED <<canon, frozen, lookups, tail, rewinds, late>>, cut => cut', Rest,
         job' = job \/ job' = None, launches' # 0 \/ (launches = 0 /\ ~up')
  PROVE  IndexInv'
<1>1. IndexShape'
  BY Zenon DEF IndexInv, IndexShape, Rest
<1>2. Running'
  BY Zenon DEF IndexInv, Running, Fresh, Block
<1>3. Covered'
  BY Zenon DEF IndexInv, Covered, FoundIndexed, Block
<1>4. Pruned'
  BY Zenon DEF IndexInv, Pruned, Gone, Block
<1>5. Before'
  BY Zenon DEF IndexInv, Before
<1> QED
  BY <1>1, <1>2, <1>3, <1>4, <1>5, Zenon DEF IndexInv

Started(kind, from, to, j) ==
  \/ from >= to /\ j = None
  \/ /\ from < to /\ j \in Job /\ j.kind = kind /\ j.to = to /\ j.raw = {} /\ j.out = {}
     /\ j.queue = {} /\ j.batch = {} /\ j.next = IF kind = "index" THEN to - 1 ELSE from

\* A job at its start.
LEMMA NewJobIs ==
  ASSUME NEW kind \in {"index", "unindex"}, NEW from \in Nat, NEW to \in 0..(MaxNumber + 1),
         NEW j, j = NewJob(kind, from, to)
  PROVE  Started(kind, from, to, j)
<1> USE DEF Started
<1>1. MaxNumber \in Nat /\ Threads \in Nat
  BY IndexAssumption, Zenon
<1>2. CASE from >= to
  BY <1>2, Zenon DEF NewJob
<1>3. CASE ~(from >= to)
  <2>1. PICK n, a : /\ n = IF kind = "index" THEN to - 1 ELSE from
                    /\ a = IF to - from < Threads THEN to - from ELSE Threads
    BY Zenon
  <2>2. from < to /\ n \in -1..(MaxNumber + 1) /\ a \in 0..Threads
    BY <1>1, <1>3, <2>1
  <2>3. j = [kind |-> kind, from |-> from, to |-> to, read |-> 0, raw |-> {}, out |-> {}, queue |-> {},
             next |-> n, batch |-> {}, alive |-> a, stopped |-> FALSE]
    BY <1>3, <2>1, Zenon DEF NewJob
  <2>4. j \in Job
    <3>1. from \in Nat /\ to \in 0..(MaxNumber + 1) /\ n \in -1..(MaxNumber + 1) /\ a \in 0..Threads
          /\ 0 \in Nat
      BY <2>2
    <3> QED
      BY <2>3, <3>1 DEF Job
  <2>5. /\ j.kind = kind /\ j.to = to /\ j.raw = {} /\ j.out = {} /\ j.queue = {} /\ j.batch = {}
        /\ j.next = n
    BY <2>3
  <2> QED
    BY <2>1, <2>2, <2>4, <2>5, Zenon
<1> QED
  BY <1>2, <1>3, Zenon

\* A job starts at the tail, or at an end of the database that has none.
LEMMA StartKeeps ==
  ASSUME IndexInv, job = None, UNCHANGED <<canon, frozen, lookups, tail, rewinds, late>>, cut => cut',
         Rest, launches' # 0,
         NEW kind \in {"index", "unindex"}, NEW from \in Nat, NEW to \in 0..(MaxNumber + 1),
         job' = NewJob(kind, from, to),
         kind = "index" => (IF tail = None THEN to = frozen /\ lookups = {} ELSE to = tail),
         kind = "unindex" => (IF tail = None THEN from = 0 /\ (~cut' => frozen = 0) ELSE from = tail)
  PROVE  IndexInv'
<1>1. CASE job' = None
  BY <1>1, IdleStep, Zenon
<1>2. CASE /\ from < to /\ job' \in Job /\ job'.kind = kind /\ job'.to = to /\ job'.raw = {} /\ job'.out = {}
           /\ job'.queue = {} /\ job'.batch = {} /\ job'.next = IF kind = "index" THEN to - 1 ELSE from
  <2>0. MaxNumber \in Nat /\ tail \in {None} \cup 0..(MaxNumber + 1)
    BY IndexAssumption, Zenon DEF IndexInv, IndexShape
  <2>1. IndexShape'
    BY Zenon DEF IndexInv, IndexShape, Rest
  <2>2. Before'
    BY Zenon DEF Before
  <2>3. kind = "index" => job'.next < job'.to /\ (tail # None => job'.next < tail)
    <3> SUFFICES ASSUME kind = "index" PROVE job'.next < job'.to /\ (tail # None => job'.next < tail)
      OBVIOUS
    <3>1. job'.next = to - 1 /\ job'.to = to /\ (tail # None => to = tail)
      BY <1>2, Zenon
    <3>2. to - 1 < to
      BY <2>0
    <3> QED
      BY <3>1, <3>2, Zenon
  <2>4. kind = "unindex" => 0 <= job'.next /\ job'.next <= job'.to /\ (tail # None => tail <= job'.next)
    <3> SUFFICES ASSUME kind = "unindex"
                 PROVE  0 <= job'.next /\ job'.next <= job'.to /\ (tail # None => tail <= job'.next)
      OBVIOUS
    <3>1. job'.next = from /\ job'.to = to /\ (tail # None => from = tail)
      BY <1>2, Zenon
    <3>2. 0 <= from /\ from <= to /\ from <= from
      BY <1>2, <2>0
    <3> QED
      BY <3>1, <3>2, Zenon
  <2>5. Running'
    BY <1>2, <2>3, <2>4, Zenon DEF Running
  <2>6. Covered'
    <3>1. kind = "index" /\ ~cut' => \A n \in Numbers : n > job'.next => FoundIndexed(n, lookups)'
      <4>1. kind = "index" => \A n \in Numbers : n > job'.next => n >= to
        BY <1>2, <2>0 DEF Numbers
      <4>2. kind = "index" => to = IF tail = None THEN frozen ELSE tail
        BY Zenon
      <4> QED
        BY <4>1, <4>2, Zenon DEF IndexInv, Covered, FoundIndexed, Block
    <3>2. ~cut' => \A n \in Numbers : n >= (IF tail = None THEN frozen ELSE tail) => FoundIndexed(n, lookups)'
      BY Zenon DEF IndexInv, Covered, FoundIndexed, Block
    <3>3. \A n : FoundIndexed(n, lookups)' => FoundIndexed(n, lookups \cup job.batch)'
      BY Zenon DEF FoundIndexed
    <3> QED
      BY <1>2, <3>1, <3>2, <3>3, Zenon DEF Covered
  <2>7. Pruned'
    <3>1. tail # None => \A n \in Numbers : n < tail => Gone(n, lookups)'
      BY Zenon DEF IndexInv, Pruned, Gone, Block
    <3>2. kind = "unindex" => \A n \in Numbers : n < job'.next => Gone(n, lookups)'
      <4>1. \A n \in Numbers : ~(n < 0)
        BY <2>0 DEF Numbers
      <4> QED
        BY <1>2, <3>1, <4>1, Zenon
    <3>3. tail = None /\ kind = "index" => \A n \in Numbers : Gone(n, lookups)'
      BY Zenon DEF Gone
    <3>4. \A n : Gone(n, lookups)' => Gone(n, lookups \ job.batch)'
      BY Zenon DEF Gone
    <3> QED
      BY <1>2, <3>1, <3>2, <3>3, <3>4, Zenon DEF Pruned
  <2> QED
    BY <2>1, <2>2, <2>5, <2>6, <2>7, Zenon DEF IndexInv
<1>3. \/ from >= to /\ job' = None
      \/ /\ from < to /\ job' \in Job /\ job'.kind = kind /\ job'.to = to /\ job'.raw = {} /\ job'.out = {}
         /\ job'.queue = {} /\ job'.batch = {} /\ job'.next = IF kind = "index" THEN to - 1 ELSE from
  <2>1. Started(kind, from, to, job')
    BY NewJobIs, Zenon
  <2> QED
    BY <2>1, Zenon DEF Started
<1> QED
  BY <1>1, <1>2, <1>3, Zenon

\* A launch; the first one indexes the ancient blocks.
LEMMA LaunchKeeps ==
  ASSUME IndexInv, Launch
  PROVE  IndexInv'
<1>1. /\ ~up /\ up' = TRUE /\ launches' = launches + 1 /\ quit' = FALSE
      /\ UNCHANGED <<canon, frozen, lookups, tail, rewinds, late, mapped, cut, event>>
  BY Zenon DEF Launch
<1>2. PICK l \in Limits :
        /\ limit' = l
        /\ job' = IF frozen = 0 \/ launches > 0 THEN None
                  ELSE NewJob("index", IF l # 0 /\ frozen > l THEN frozen - l ELSE 0, frozen)
  BY Zenon DEF Launch
<1>3. launches \in Nat /\ frozen \in 0..(MaxNumber + 1) /\ MaxNumber \in Nat /\ Limits \subseteq Nat
  BY IndexAssumption, Zenon DEF IndexInv, IndexShape
<1>4. Rest /\ launches' # 0
  <2>1. launches' \in Nat /\ launches' # 0
    BY <1>1, <1>3
  <2> QED
    BY <1>1, <1>2, <2>1, Zenon DEF IndexInv, IndexShape, Rest
<1>5. CASE frozen = 0 \/ launches > 0
  BY <1>1, <1>2, <1>4, <1>5, IdleStep, Zenon
<1>6. CASE ~(frozen = 0 \/ launches > 0)
  <2>1. launches = 0 /\ frozen > 0
    BY <1>3, <1>6
  <2>2. job = None /\ tail = None /\ lookups = {}
    BY <2>1, Zenon DEF IndexInv, Before
  <2>3. PICK from : from = IF l # 0 /\ frozen > l THEN frozen - l ELSE 0
    BY Zenon
  <2>4. l \in Nat /\ from \in Nat
    BY <1>2, <1>3, <2>3
  <2>5. job' = NewJob("index", from, frozen)
    BY <1>2, <1>6, <2>3, Zenon
  <2> QED
    BY <1>1, <1>3, <1>4, <2>2, <2>4, <2>5, StartKeeps, Zenon
<1> QED
  BY <1>5, <1>6, Zenon

\* The first tail of a database that keeps everything.
LEMMA FirstTail ==
  ASSUME IndexInv, job = None, job' = None, tail = None, tail' = 0, frozen > 0 => cut', cut => cut',
         UNCHANGED <<canon, frozen, lookups, rewinds, late>>, Rest, launches' # 0
  PROVE  IndexInv'
<1>0. MaxNumber \in Nat /\ frozen \in Nat
  BY IndexAssumption DEF IndexInv, IndexShape
<1>1. IndexShape'
  <2>1. tail' \in {None} \cup 0..(MaxNumber + 1)
    BY <1>0
  <2> QED
    BY <2>1, Zenon DEF IndexInv, IndexShape, Rest
<1>2. Running' /\ Before'
  BY Zenon DEF Running, Before
<1>3. tail' # None
  BY IndexAssumption
<1>4. Covered'
  <2>1. ~cut' => frozen = 0
    BY <1>0
  <2>2. ~cut' => \A n \in Numbers : n >= 0 => FoundIndexed(n, lookups)'
    BY <2>1, Zenon DEF IndexInv, Covered, FoundIndexed, Block
  <2> QED
    BY <1>3, <2>2, Zenon DEF Covered
<1>5. Pruned'
  <2>1. \A n \in Numbers : ~(n < 0)
    BY <1>0 DEF Numbers
  <2> QED
    BY <1>3, <2>1, Zenon DEF Pruned
<1> QED
  BY <1>1, <1>2, <1>4, <1>5, Zenon DEF IndexInv

\* A head event.
LEMMA TakeHeadKeeps ==
  ASSUME IndexInv, TakeHead
  PROVE  IndexInv'
<1>1. /\ up /\ event \in Numbers /\ event' = None /\ (cut => cut')
      /\ UNCHANGED <<canon, frozen, lookups, rewinds, late, mapped, up, quit, limit, launches>>
      /\ job = None /\ tail = None /\ frozen > 0 => cut'
  BY Zenon DEF TakeHead, IndexInv, IndexShape
<1>2. launches' # 0
  BY <1>1, Zenon DEF IndexInv, Before
<1>3. Rest
  BY <1>1, Zenon DEF IndexInv, IndexShape, Rest
<1>4. CASE UNCHANGED <<tail, job>>
  BY <1>1, <1>2, <1>3, <1>4, IdleStep, Zenon
<1>5. CASE job = None /\ indexBlocks(event)
  <2>0. /\ frozen \in Nat /\ MaxNumber \in Nat /\ limit \in Nat /\ event \in 0..MaxNumber
        /\ tail \in {None} \cup 0..(MaxNumber + 1) /\ (tail # None => tail \in Nat)
    <3>1. /\ frozen \in 0..(MaxNumber + 1) /\ MaxNumber \in Nat /\ limit \in Nat
          /\ tail \in {None} \cup 0..(MaxNumber + 1)
      BY IndexAssumption DEF IndexInv, IndexShape
    <3> QED
      BY <1>1, <3>1 DEF Numbers
  <2>1. PICK w : w = Window(event)
    BY Zenon
  <2>2. ~All(event) => w \in 0..(MaxNumber + 1) /\ w \in Nat
    BY <2>0, <2>1 DEF All, Window
  <2>3. ~cut' => frozen = 0 \/ tail # None
    BY <1>1, <1>5, <2>0
  <2>4. CASE tail = None /\ All(event) /\ tail' = 0 /\ job' = None
    BY <1>1, <1>2, <1>3, <1>5, <2>4, FirstTail, Zenon
  <2>5. CASE tail = None /\ ~All(event) /\ job' = NewJob("unindex", 0, Window(event)) /\ UNCHANGED tail
    BY <1>1, <1>2, <1>3, <1>5, <2>1, <2>2, <2>3, <2>5, StartKeeps, Zenon
  <2>6. CASE tail # None /\ All(event) /\ job' = NewJob("index", 0, tail) /\ UNCHANGED tail
    BY <1>1, <1>2, <1>3, <1>5, <2>0, <2>6, StartKeeps, Zenon
  <2>7. CASE tail # None /\ ~All(event) /\ UNCHANGED tail /\ job' = NewJob("index", Window(event), tail)
    BY <1>1, <1>2, <1>3, <1>5, <2>0, <2>1, <2>2, <2>7, StartKeeps, Zenon
  <2>8. CASE tail # None /\ ~All(event) /\ UNCHANGED tail /\ job' = NewJob("unindex", tail, Window(event))
    BY <1>1, <1>2, <1>3, <1>5, <2>0, <2>1, <2>2, <2>8, StartKeeps, Zenon
  <2> QED
    BY <1>5, <2>4, <2>5, <2>6, <2>7, <2>8, Zenon DEF indexBlocks
<1> QED
  BY <1>4, <1>5, Zenon DEF TakeHead

\* A block is written with its look-ups.
LEMMA NewBlockKeeps ==
  ASSUME IndexInv, NewBlock
  PROVE  IndexInv'
<1>0. PICK k : k = Height + 1
  BY Zenon
<1>1. /\ up /\ k - 1 < MaxNumber /\ canon' = [canon EXCEPT ![k] = rewinds]
      /\ lookups' = lookups \cup Entries(<<k, rewinds>>)
      /\ late' = IF Dropped(k) THEN late \cup {<<k, rewinds>>} ELSE late
      /\ event' = k /\ UNCHANGED <<frozen, tail, rewinds, mapped, cut, up, quit, limit, job, launches>>
  BY <1>0, HeightIs, IndexAssumption DEF NewBlock, IndexInv, Numbers
<1>2. /\ k \in Numbers /\ MaxNumber \in Nat /\ rewinds \in 0..MaxRewinds /\ rewinds # None
      /\ \A n \in Numbers : canon[n] # None <=> n <= k - 1
  <2>1. Height \in Numbers /\ \A n \in Numbers : canon[n] # None <=> n <= Height
    BY HeightIs, Zenon DEF IndexInv
  <2>2. MaxNumber \in Nat /\ rewinds \in 0..MaxRewinds
    BY IndexAssumption, Zenon DEF IndexInv, IndexShape
  <2>3. k \in Numbers /\ k - 1 = Height
    BY <1>0, <1>1, <2>1, <2>2 DEF Numbers
  <2>4. rewinds # None
    BY <2>2, IndexAssumption
  <2> QED
    BY <2>1, <2>2, <2>3, <2>4, Zenon
<1>3. /\ canon' \in [Numbers -> {None} \cup 0..MaxRewinds] /\ canon'[k] = rewinds
      /\ \A n \in Numbers : n # k => canon'[n] = canon[n]
  BY <1>1, <1>2, Zenon DEF IndexInv, IndexShape
<1>4. PICK c : c = <<k, rewinds>>
  BY Zenon
<1>5. /\ c \in Blocks /\ c[1] = k /\ c[2] # None /\ Block(k)' = c
      /\ \A n \in Numbers : n # k => Block(n)' = Block(n)
  BY <1>2, <1>3, <1>4, Zenon DEF Blocks, Block
<1>6. /\ lookups \subseteq lookups' /\ lookups' \subseteq lookups \cup {c} /\ (k \notin EmptyBlocks => c \in lookups')
      /\ (k \in EmptyBlocks => lookups' = lookups)
  BY <1>1, <1>4, Zenon DEF Entries
<1>7. late \subseteq late' /\ (Dropped(k) => c \in late')
  BY <1>1, <1>4, Zenon
<1>8. IndexShape'
  <2>1. \A n \in Numbers : canon'[n] # None <=> n <= k
    <3>1. \A n \in Numbers : n <= k <=> n <= k - 1 \/ n = k
      BY <1>2 DEF Numbers
    <3> QED
      BY <1>2, <1>3, <3>1, Zenon
  <2>2. lookups' \subseteq Blocks /\ \A b \in lookups' : b[1] \notin EmptyBlocks /\ b[2] # None
    BY <1>5, <1>6, Zenon DEF IndexInv, IndexShape
  <2> QED
    BY <1>1, <1>2, <1>3, <2>1, <2>2, Zenon DEF IndexInv, IndexShape
<1>9. Before'
  BY <1>1, Zenon DEF IndexInv, Before
<1>10. \A n \in Numbers : \A S, T : S \subseteq T /\ lookups' \subseteq T /\ FoundIndexed(n, S) =>
         (canon'[n] # None /\ n \notin EmptyBlocks => <<n, canon'[n]>> \in T)
  BY <1>3, <1>4, <1>6, Zenon DEF FoundIndexed, Block
<1>11. Covered'
  <2>1. ASSUME NEW n \in Numbers, FoundIndexed(n, lookups) PROVE FoundIndexed(n, lookups)'
    BY <1>6, <1>10, <2>1, Zenon DEF FoundIndexed, Block
  <2>2. ASSUME NEW n \in Numbers, FoundIndexed(n, lookups \cup job.batch) PROVE FoundIndexed(n, lookups \cup job.batch)'
    <3>1. /\ lookups \cup job.batch \subseteq lookups' \cup job'.batch
          /\ lookups' \subseteq lookups' \cup job'.batch
      BY <1>1, <1>6, Zenon
    <3>2. canon'[n] # None /\ n \notin EmptyBlocks => <<n, canon'[n]>> \in lookups' \cup job'.batch
      BY <1>10, <2>2, <3>1, Zenon
    <3> QED
      BY <3>2, Zenon DEF FoundIndexed, Block
  <2> QED
    BY <1>1, <2>1, <2>2, Zenon DEF IndexInv, Covered
<1>12. ASSUME NEW n \in Numbers, NEW S, NEW T, Gone(n, S), T \subseteq S \cup {c}, n = k => Dropped(k)
       PROVE  canon'[n] # None => <<n, canon'[n]>> \notin T \ late'
  <2>1. CASE n = k
    BY <1>3, <1>4, <1>7, <1>12, <2>1, Zenon
  <2>2. CASE n # k
    <3>1. <<n, canon'[n]>> = Block(n) /\ Block(n) # c /\ canon'[n] = canon[n]
      BY <1>3, <1>4, <2>2, Zenon DEF Block
    <3> QED
      BY <1>7, <1>12, <3>1, Zenon DEF Gone
  <2> QED
    BY <2>1, <2>2, Zenon
<1>13. Pruned'
  <2>1. ASSUME tail # None, NEW n \in Numbers, n < tail PROVE Gone(n, lookups)'
    <3>1. Gone(n, lookups) /\ (n = k => Dropped(k))
      BY <2>1, Zenon DEF IndexInv, Pruned, Dropped
    <3> QED
      BY <1>6, <1>12, <3>1, Zenon DEF Gone, Block
  <2>2. ASSUME job # None, job.kind = "unindex", NEW n \in Numbers, n < job.next
        PROVE  Gone(n, lookups \ job.batch)'
    <3>1. job.next \in Int /\ job.to \in Int /\ job.next <= job.to /\ n \in Int
      <4>1. job \in Job /\ job.next <= job.to
        BY <2>2, Zenon DEF IndexInv, Running
      <4>2. job.next \in -1..(MaxNumber + 1) /\ job.to \in 0..(MaxNumber + 1)
        BY <4>1 DEF Job
      <4>3. n \in Int
        BY <1>2 DEF Numbers
      <4> QED
        BY <1>2, <4>1, <4>2, <4>3
    <3>2. n < job.to
      BY <2>2, <3>1
    <3>3. Gone(n, lookups \ job.batch) /\ (n = k => Dropped(k))
      BY <2>2, <3>2, Zenon DEF IndexInv, Pruned, Dropped
    <3>4. lookups' \ job.batch \subseteq (lookups \ job.batch) \cup {c}
      BY <1>6, Zenon
    <3> QED
      BY <1>1, <1>12, <3>3, <3>4, Zenon DEF Gone, Block
  <2>3. ASSUME job # None, tail = None, job.kind = "index", NEW n \in Numbers, n < job.to
        PROVE  Gone(n, lookups)'
    <3>1. Gone(n, lookups) /\ (n = k => Dropped(k))
      BY <2>3, Zenon DEF IndexInv, Pruned, Dropped
    <3> QED
      BY <1>6, <1>12, <3>1 DEF Gone, Block
  <2> QED
    BY <1>1, <2>1, <2>2, <2>3, Zenon DEF Pruned
<1>14. Running'
  <2> SUFFICES ASSUME job # None PROVE Running'
    BY <1>1, Zenon DEF Running
  <2>1. ASSUME NEW b \in job.raw \cup job.out \cup job.queue PROVE Fresh(job, b)'
    <3>1. Fresh(job, b) /\ b \in Blocks /\ b[1] \in Numbers /\ job.kind \in {"index", "unindex"}
      BY Zenon DEF IndexInv, Running, Job, Blocks
    <3>2. CASE b[1] # k
      <4>1. job' = job /\ canon'[b[1]] = canon[b[1]] /\ Block(b[1])' = Block(b[1])
        BY <1>1, <1>3, <1>5, <3>1, <3>2, Zenon
      <4> QED
        BY <1>6, <1>7, <3>1, <4>1, Zenon DEF Fresh
    <3>3. CASE b[1] = k
      <4>1. Block(b[1])' = c
        BY <1>5, <3>3, Zenon
      <4>2. k \in EmptyBlocks \/ c \in (IF job.kind = "index" THEN lookups' ELSE late')
        BY <1>6, <1>7, <3>1, <3>3, Zenon DEF Fresh, Dropped
      <4> QED
        BY <1>1, <3>1, <3>3, <4>1, <4>2, Zenon DEF Fresh
    <3> QED
      BY <3>2, <3>3, Zenon
  <2> QED
    BY <1>1, <2>1, Zenon DEF IndexInv, Running
<1> QED
  BY <1>8, <1>9, <1>11, <1>13, <1>14, Zenon DEF IndexInv

\* The chain gets shorter.
LEMMA SetHeadKeeps ==
  ASSUME IndexInv, SetHead
  PROVE  IndexInv'
<1>1. /\ rewinds < MaxRewinds /\ rewinds' = rewinds + 1
      /\ UNCHANGED <<frozen, lookups, tail, late, mapped, cut, up, quit, limit, event, job, launches>>
  BY Zenon DEF SetHead
<1>2. PICK m \in Numbers : m < Height /\ canon' = [k \in Numbers |-> IF k > m THEN None ELSE canon[k]]
  BY Zenon DEF SetHead
<1>3. /\ MaxNumber \in Nat /\ MaxRewinds \in Nat /\ Height \in Numbers
      /\ \A n \in Numbers : canon[n] # None <=> n <= Height
  BY HeightIs, IndexAssumption, Zenon DEF IndexInv
<1>4. canon' \in [Numbers -> {None} \cup 0..MaxRewinds] /\ \A n \in Numbers : canon'[n] # None => canon'[n] = canon[n]
  BY <1>2, Zenon DEF IndexInv, IndexShape
<1>5. IndexShape'
  <2>1. \A n \in Numbers : canon'[n] # None <=> n <= m
    BY <1>2, <1>3 DEF Numbers
  <2>2. rewinds' \in 0..MaxRewinds
    BY <1>1, <1>3 DEF IndexInv, IndexShape
  <2> QED
    BY <1>1, <1>2, <1>4, <2>1, <2>2, Zenon DEF IndexInv, IndexShape
<1>6. Before'
  BY <1>1, Zenon DEF IndexInv, Before
<1>7. Covered'
  BY <1>1, <1>4, Zenon DEF IndexInv, Covered, FoundIndexed, Block
<1>8. Pruned'
  BY <1>1, <1>4, Zenon DEF IndexInv, Pruned, Gone, Block
<1>9. Running'
  <2> SUFFICES ASSUME job # None PROVE Running'
    BY <1>1, Zenon DEF Running
  <2>1. ASSUME NEW b \in job.raw \cup job.out \cup job.queue PROVE Fresh(job, b)'
    <3>1. Fresh(job, b) /\ b[1] \in Numbers
      BY Zenon DEF IndexInv, Running, Job, Blocks
    <3>2. canon'[b[1]] # None => Block(b[1])' = Block(b[1]) /\ canon[b[1]] # None
      BY <1>4, <3>1, Zenon DEF Block
    <3> QED
      BY <1>1, <3>1, <3>2, Zenon DEF Fresh
  <2> QED
    BY <1>1, <2>1, Zenon DEF IndexInv, Running
<1> QED
  BY <1>5, <1>6, <1>7, <1>8, <1>9, Zenon DEF IndexInv

------------------------------------------------------------------------------
(* The theorem.                                                            *)

\* The databases that a node may find.
LEMMA IndexInvInit ==
  ASSUME IndexInit
  PROVE  IndexInv
<1>0. MaxNumber \in Nat \ {0} /\ MaxRewinds \in Nat /\ frozen \in 0..(MaxNumber + 1) /\ None \notin Int
  BY IndexAssumption, Zenon DEF IndexInit
<1>1. PICK h \in 0..1 :
        canon = [n \in Numbers |-> IF n <= (IF frozen > 0 THEN frozen - 1 ELSE h) THEN 0 ELSE None]
  BY Zenon DEF IndexInit
<1>2. PICK k : k = IF frozen > 0 THEN frozen - 1 ELSE h
  BY Zenon
<1>3. k \in Numbers /\ canon = [n \in Numbers |-> IF n <= k THEN 0 ELSE None]
  BY <1>0, <1>1, <1>2 DEF Numbers
<1>4. canon \in [Numbers -> {None} \cup 0..MaxRewinds] /\ \A n \in Numbers : canon[n] # None <=> n <= k
  BY <1>0, <1>3
<1>5. lookups \subseteq Blocks /\ \A b \in lookups : b[1] \notin EmptyBlocks /\ b[2] # None
  <2>1. \A b \in lookups : \E n \in Numbers \ EmptyBlocks : b = <<n, 0>>
    BY Zenon DEF IndexInit
  <2> QED
    BY <1>0, <2>1 DEF Blocks
<1>6. IndexShape
  <2>1. \E g \in Numbers : \A n \in Numbers : canon[n] # None <=> n <= g
    BY <1>3, <1>4, Zenon
  <2>2. frozen \in Ancients /\ mapped \in -1..frozen /\ rewinds \in 0..MaxRewinds
    BY <1>0 DEF IndexInit
  <2>3. tail \in {None} \cup 0..(MaxNumber + 1) /\ event \in {None} \cup Numbers
    BY Zenon DEF IndexInit
  <2>4. up \in BOOLEAN /\ quit \in BOOLEAN /\ limit \in Limits \cup {0} /\ launches \in Nat
    BY DEF IndexInit
  <2> QED
    BY <1>4, <1>5, <2>1, <2>2, <2>3, <2>4, Zenon DEF IndexShape
<1>7. Running /\ Pruned /\ Before
  BY Zenon DEF IndexInit, Running, Pruned, Before
<1>8. ASSUME NEW n \in Numbers, n >= frozen PROVE FoundIndexed(n, lookups)
  <2>1. CASE frozen > 0
    BY <1>0, <1>2, <1>4, <1>8, <2>1 DEF FoundIndexed, Numbers
  <2>2. CASE ~(frozen > 0)
    <3>1. lookups = {<<i, 0>> : i \in {j \in Numbers : canon[j] # None} \ EmptyBlocks}
      BY <2>2, Zenon DEF IndexInit
    <3>2. canon[n] # None => canon[n] = 0
      BY <1>3, Zenon
    <3> QED
      BY <3>1, <3>2, Zenon DEF FoundIndexed, Block
  <2> QED
    BY <2>1, <2>2, Zenon
<1>9. Covered
  BY <1>8, Zenon DEF Covered, IndexInit
<1> QED
  BY <1>6, <1>7, <1>9, Zenon DEF IndexInv

\* Every step keeps the invariant.
LEMMA IndexInvStep ==
  ASSUME IndexInv, [IndexNext]_indexVars
  PROVE  IndexInv'
<1>1. CASE JobNext
  BY <1>1, LookupKeeps, WorkersKeep, ConsumeKeeps, FinishKeeps, Zenon DEF JobNext
<1>2. CASE MapFrozen
  <2>1. mapped' \in -1..frozen
    BY <1>2, IndexAssumption DEF MapFrozen, IndexInv, IndexShape
  <2>2. Rest
    BY <1>2, <2>1, Zenon DEF MapFrozen, IndexInv, IndexShape, Rest
  <2>3. launches' # 0 \/ (launches = 0 /\ ~up')
    BY <1>2, Zenon DEF MapFrozen
  <2> QED
    BY <1>2, <2>2, <2>3, IdleStep, Zenon DEF MapFrozen
<1>3. CASE Quit \/ Exit \/ Crash
  <2>1. Rest
    BY <1>3, Zenon DEF Quit, Exit, Crash, IndexInv, IndexShape, Rest
  <2>2. launches' # 0
    BY <1>3, Zenon DEF Quit, Exit, Crash, IndexInv, Before
  <2> QED
    <3>1. /\ UNCHANGED <<canon, frozen, lookups, tail, rewinds, late>> /\ cut' = cut
          /\ (job' = job \/ job' = None)
      BY <1>3, Zenon DEF Quit, Exit, Crash
    <3> QED
      BY <2>1, <2>2, <3>1, IdleStep
<1>4. CASE UNCHANGED indexVars
  <2>1. Rest /\ (launches' # 0 \/ (launches = 0 /\ ~up'))
    BY <1>4, Zenon DEF indexVars, IndexInv, IndexShape, Before, Rest
  <2> QED
    BY <1>4, <2>1, IdleStep, Zenon DEF indexVars
<1> QED
  BY <1>1, <1>2, <1>3, <1>4, LaunchKeeps, TakeHeadKeeps, NewBlockKeeps, SetHeadKeeps, Zenon DEF IndexNext

\* However blocks, rewinds, launches with other limits, interrupts and crashes fall between the
\* steps of the readers, workers and consumers of IndexTransactions and UnindexTransactions: from
\* the tail on every canonical block can be looked up, and below it none is left.
THEOREM IndexIsConsistent == IndexSpec => []IndexConsistent
<1>1. IndexInit => IndexInv
  BY IndexInvInit, Zenon
<1>2. IndexInv /\ [IndexNext]_indexVars => IndexInv'
  BY IndexInvStep, Zenon
<1>3. IndexInv => IndexConsistent
  <2> SUFFICES ASSUME IndexInv PROVE IndexConsistent
    BY Zenon
  <2>1. TailCovers
    BY Zenon DEF IndexInv, Covered, FoundIndexed, TailCovers
  <2>2. PrunedBelow
    BY Zenon DEF IndexInv, Pruned, Gone, PrunedBelow
  <2>3. \A b \in lookups : b[1] \in Numbers \ EmptyBlocks /\ b[2] \in 0..MaxRewinds
    BY Zenon DEF IndexInv, IndexShape, Blocks
  <2>4. job # None => job.alive \in 0..Threads /\ job.next \in -1..(MaxNumber + 1)
    BY Zenon DEF IndexInv, Running, Job
  <2> QED
    BY <2>1, <2>2, <2>3, <2>4, Zenon DEF IndexInv, IndexShape, IndexTypeOK, IndexConsistent
<1> QED
  BY <1>1, <1>2, <1>3, PTL DEF IndexSpec

------------------------------------------------------------------------------
(* The service manager and the search for peers. *)

\* The goroutines of findPeers.
FinderRecord == [id : Nat, pc : {"begin", "range", "tell"}, on : Nat, peer : Hosts \cup {None}]

\* The types of the variables; a goroutine that reads from a channel has one.
FinderShape ==
  /\ manager \in {"idle", "init", "stop"} /\ loop \in {"none", "running", "ended"}
  /\ starts \in Nat /\ stops \in Nat /\ started \in BOOLEAN
  /\ searches \in Seq(Seq(Hosts)) /\ finders \subseteq FinderRecord
  /\ interval \in minFindPeerInterval..(2 * maxFindPeerInterval - 1)
  /\ \A f \in finders : f.on \in 0..Len(searches) /\ (f.pc # "begin" => f.on >= 1) /\ Len(searches) >= 1

\* A peer that a goroutine is about to tell of is another node and connected.
Told ==
  /\ \A f \in finders : f.pc = "tell" => f.peer \in connections \ {Self}
  /\ NeighborsConnected

\* Until the second start: Init has nothing running beside it, and a service that runs has
\* reached a bootnode and is stopped at most by the action under way.
FirstStart ==
  /\ starts = 0 => manager # "init" /\ loop = "none" /\ ~started /\ stops = 0
  /\ starts = 1 /\ manager = "init" => loop = "none" /\ ~started /\ stops = 0
  /\ starts = 1 /\ loop = "running" => /\ reached # {} /\ started /\ manager # "init"
                                       /\ stops = IF manager = "stop" THEN 1 ELSE 0

FinderInv == FinderShape /\ Told /\ FirstStart

\* The invariant implies what is promised.
LEMMA FinderFollows == FinderInv => PeersConsistent
  <1> SUFFICES ASSUME FinderInv PROVE PeersConsistent
    OBVIOUS
  <1>1. FinderTypeOK
    BY DEF FinderInv, FinderShape, FinderTypeOK, FinderRecord
  <1>2. NeighborsConnected
    BY Zenon DEF FinderInv, Told
  <1>3. RunsConnected
    BY DEF FinderInv, FirstStart, RunsConnected
  <1> QED
    BY <1>1, <1>2, <1>3 DEF PeersConsistent

\* The invariant holds before the first start.
LEMMA FinderInitial == FinderInit => FinderInv
  <1> SUFFICES ASSUME FinderInit PROVE FinderInv
    OBVIOUS
  <1>1. FinderShape
    <2>1. minFindPeerInterval \in minFindPeerInterval..(2 * maxFindPeerInterval - 1)
      BY FinderAssumption
    <2>2. searches \in Seq(Seq(Hosts)) /\ finders = {} /\ interval = minFindPeerInterval
      BY DEF FinderInit
    <2>3. /\ manager = "idle" /\ loop = "none" /\ started = FALSE /\ starts = 0 /\ stops = 0
      BY DEF FinderInit
    <2> QED
      BY <2>1, <2>2, <2>3 DEF FinderShape
  <1>2. Told
    BY DEF FinderInit, Told, NeighborsConnected
  <1>3. FirstStart
    BY DEF FinderInit, FirstStart
  <1> QED
    BY Zenon, <1>1, <1>2, <1>3 DEF FinderInv

\* The parts that a step leaves alone.
LEMMA ShapeKept ==
  ASSUME FinderShape, UNCHANGED Search, manager' \in {"idle", "init", "stop"},
         loop' \in {"none", "running", "ended"}, starts' \in Nat, stops' \in Nat, started' \in BOOLEAN
  PROVE  FinderShape'
  BY Zenon DEF FinderShape, Search

\* What Told speaks of.
LEMMA ToldKept == Told /\ UNCHANGED <<finders, Peers>> => Told'
  BY Zenon DEF Told, NeighborsConnected, Peers

\* What FirstStart speaks of.
LEMMA StartKept == FirstStart /\ UNCHANGED <<manager, Service>> => FirstStart'
  BY DEF FirstStart, Service

\* The steps of the manager, of Init, Run and the loop's end.
LEMMA ManagerKeeps ==
  FinderInv /\ (Register \/ TakeStart \/ TakeStop \/ ServiceStep \/ FindFails) => FinderInv'
  <1> SUFFICES ASSUME FinderInv PROVE Register \/ TakeStart \/ TakeStop \/ ServiceStep \/ FindFails => FinderInv'
    OBVIOUS
  <1> USE DEF FinderInv
  <1>1. ASSUME Register PROVE FinderInv'
    <2>1. FinderShape'
      BY <1>1 DEF Register, FinderShape, Search, Service
    <2> QED
      BY Zenon, <1>1, <2>1, ToldKept, StartKept DEF Register, Search
  <1>2. ASSUME TakeStart PROVE FinderInv'
    <2>1. FinderShape'
      BY <1>2 DEF TakeStart, FinderShape, Search
    <2>2. FirstStart'
      BY <1>2 DEF TakeStart, CanTake, FirstStart, FinderShape
    <2> QED
      BY Zenon, <1>2, <2>1, <2>2, ToldKept DEF TakeStart, Search
  <1>3. ASSUME TakeStop PROVE FinderInv'
    <2>1. FinderShape'
      BY <1>3 DEF TakeStop, FinderShape, Search
    <2>2. FirstStart'
      BY <1>3 DEF TakeStop, CanTake, Stoppable, FirstStart, FinderShape
    <2> QED
      BY Zenon, <1>3, <2>1, <2>2, ToldKept DEF TakeStop, Search
  <1>4. ASSUME NEW b \in BootNodes, ConnectBoot(b) PROVE FinderInv'
    <2>1. FinderShape'
      BY <1>4 DEF ConnectBoot, FinderShape, Search
    <2>2. FirstStart'
      BY <1>4 DEF ConnectBoot, FirstStart, FinderShape
    <2> QED
      BY Zenon, <1>4, <2>1, <2>2, ToldKept DEF ConnectBoot, Search
  <1>5. ASSUME InitFails PROVE FinderInv'
    <2>1. FinderShape'
      BY <1>5 DEF InitFails, FinderShape, Search, Service
    <2>2. FirstStart'
      BY <1>5 DEF InitFails, InitDone, FirstStart, FinderShape, Service
    <2> QED
      BY Zenon, <1>5, <2>1, <2>2, ToldKept DEF InitFails, Search
  <1>6. ASSUME Run PROVE FinderInv'
    <2>1. FinderShape'
      BY FinderAssumption, <1>6 DEF Run, FinderShape
    <2>2. FirstStart'
      BY <1>6 DEF Run, InitDone, Connected, FirstStart, FinderShape
    <2> QED
      BY Zenon, <1>6, <2>1, <2>2, ToldKept DEF Run
  <1>7. ASSUME StopLoop PROVE FinderInv'
    <2>1. FinderShape'
      BY <1>7 DEF StopLoop, FinderShape, Search
    <2>2. FirstStart'
      BY <1>7 DEF StopLoop, FirstStart, FinderShape
    <2> QED
      BY Zenon, <1>7, <2>1, <2>2, ToldKept DEF StopLoop, Search
  <1>8. ASSUME FindFails PROVE FinderInv'
    <2>1. FinderShape'
      BY <1>8 DEF FindFails, FinderShape
    <2>2. FirstStart'
      BY <1>8 DEF FindFails, FirstStart, FinderShape
    <2> QED
      BY Zenon, <1>8, <2>1, <2>2, ToldKept DEF FindFails
  <1> QED
    BY Zenon, <1>1, <1>2, <1>3, <1>4, <1>5, <1>6, <1>7, <1>8 DEF ServiceStep

\* A search: the interval stays below twice the maximum.
LEMMA FindKeeps == FinderInv /\ FindPeers => FinderInv'
  <1> SUFFICES ASSUME FinderInv, FindPeers PROVE FinderInv'
    OBVIOUS
  <1> USE DEF FinderInv
  <1>1. PICK found \in Found : searches' = Append(searches, found)
    BY Zenon DEF FindPeers
  <1>2. /\ interval' = Doubled(interval)
        /\ finders' = finders \cup {[id |-> Len(searches) + 1, pc |-> "begin", on |-> 0, peer |-> None]}
        /\ UNCHANGED <<manager, Service, Peers>>
    BY Zenon DEF FindPeers
  <1>3. searches' \in Seq(Seq(Hosts)) /\ Len(searches') = Len(searches) + 1 /\ Len(searches) \in Nat
    BY FinderAssumption, <1>1 DEF FinderShape
  <1>4. interval' \in minFindPeerInterval..(2 * maxFindPeerInterval - 1)
    BY FinderAssumption, <1>2 DEF FinderShape, Doubled
  <1>5. [id |-> Len(searches) + 1, pc |-> "begin", on |-> 0, peer |-> None] \in FinderRecord
    BY <1>3 DEF FinderRecord
  <1>6. \A f \in finders' : f.on \in 0..Len(searches') /\ (f.pc # "begin" => f.on >= 1) /\ Len(searches') >= 1
    BY <1>2, <1>3 DEF FinderShape, FinderRecord
  <1>7. FinderShape'
    BY Zenon, <1>2, <1>3, <1>4, <1>5, <1>6 DEF FinderShape, Service
  <1>8. Told'
    BY <1>2 DEF Told, NeighborsConnected, Peers
  <1> QED
    BY Zenon, <1>2, <1>7, <1>8, StartKept

Turned(old, new, pc, on, peer) ==
  new \subseteq FinderRecord /\ \A g \in new : g \in old \/ (g.pc = pc /\ g.on = on /\ g.peer = peer)

\* A goroutine's next state is one.
LEMMA TurnsTo ==
  ASSUME FinderShape, NEW f \in finders, NEW pc \in {"begin", "range", "tell"}, NEW on \in Nat, NEW peer \in Hosts \cup {None},
         Turns(f, pc, on, peer)
  PROVE  Turned(finders, finders', pc, on, peer)
  <1> USE DEF Turned
  <1>1. f \in FinderRecord
    BY Zenon DEF FinderShape
  <1>2. /\ [f EXCEPT !.pc = pc, !.on = on, !.peer = peer] \in FinderRecord
        /\ [f EXCEPT !.pc = pc, !.on = on, !.peer = peer].pc = pc
        /\ [f EXCEPT !.pc = pc, !.on = on, !.peer = peer].on = on
        /\ [f EXCEPT !.pc = pc, !.on = on, !.peer = peer].peer = peer
    BY <1>1 DEF FinderRecord
  <1> QED
    BY <1>2 DEF Turns, FinderShape

\* A step of a goroutine leaves the service alone.
LEMMA FinderStepKeeps ==
  ASSUME FinderInv, NEW f \in finders, BeginRange(f) \/ NextPeer(f) \/ RangeEnds(f) \/ TellPeer(f)
  PROVE  FinderInv'
  <1> USE DEF FinderInv
  <1>1. /\ f \in FinderRecord /\ f.on \in 0..Len(searches) /\ (f.pc # "begin" => f.on >= 1)
        /\ Len(searches) \in Nat /\ Len(searches) >= 1
    BY DEF FinderShape
  <1>2. f.on \in Nat /\ f.pc \in {"begin", "range", "tell"} /\ f.peer \in Hosts \cup {None}
    BY Zenon, <1>1 DEF FinderRecord
  <1>3. UNCHANGED <<manager, Service, interval>>
    BY Zenon DEF BeginRange, NextPeer, RangeEnds, TellPeer
  <1>4. FirstStart'
    BY Zenon, <1>3, StartKept
  <1>5. ASSUME searches' \in Seq(Seq(Hosts)), Len(searches') = Len(searches), finders' \subseteq FinderRecord,
               \A g \in finders' : g \in finders \/ (g.on \in 0..Len(searches) /\ g.on >= 1)
        PROVE  FinderShape'
    <2>1. \A g \in finders' : g.on \in 0..Len(searches') /\ (g.pc # "begin" => g.on >= 1) /\ Len(searches') >= 1
      BY <1>1, <1>5 DEF FinderShape
    <2> QED
      BY Zenon, <1>3, <1>5, <2>1 DEF FinderShape, Service
  <1>6. ASSUME BeginRange(f) PROVE FinderInv'
    <2>1. UNCHANGED <<searches, Peers>> /\ Turns(f, "range", Len(searches), None)
      BY Zenon, <1>6 DEF BeginRange
    <2>2. /\ finders' \subseteq FinderRecord
          /\ \A g \in finders' : g \in finders \/ (g.pc = "range" /\ g.on = Len(searches) /\ g.peer = None)
      <3>1. PICK pc \in {"begin", "range", "tell"}, peer \in Hosts \cup {None} : pc = "range" /\ peer = None
        BY Zenon
      <3>2. FinderShape /\ Turns(f, pc, Len(searches), peer)
        BY Zenon, <2>1, <3>1
      <3>3. Turned(finders, finders', pc, Len(searches), peer)
        BY Zenon, <1>1, <3>2, TurnsTo
      <3> QED
        BY Zenon, <3>1, <3>3 DEF Turned
    <2>3. \A g \in finders' : g \in finders \/ (g.on \in 0..Len(searches) /\ g.on >= 1)
      BY <2>2, <1>1
    <2>4. FinderShape'
      BY Zenon, <1>5, <2>1, <2>2, <2>3 DEF FinderShape
    <2>5. Told'
      BY <2>1, <2>2 DEF Told, NeighborsConnected, Peers
    <2> QED
      BY Zenon, <2>4, <2>5, <1>4
  <1>7. ASSUME NextPeer(f) PROVE FinderInv'
    <2> DEFINE p == Head(searches[f.on])
    <2>1. /\ f.pc = "range" /\ searches[f.on] # <<>> /\ searches' = [searches EXCEPT ![f.on] = Tail(@)]
          /\ UNCHANGED <<neighbors, peerstore>>
          /\ \/ UNCHANGED <<finders, connections>>
             \/ /\ p # Self /\ TRUE \in Connects(p) /\ Turns(f, "tell", f.on, p)
                /\ connections' = IF loop = "running" THEN connections \cup {p} ELSE connections
             \/ finders' = finders \ {f} /\ UNCHANGED connections
      BY Zenon, <1>7 DEF NextPeer, Foreign
    <2>2. searches[f.on] \in Seq(Hosts) /\ p \in Hosts /\ Tail(searches[f.on]) \in Seq(Hosts)
      <3>1. searches \in Seq(Seq(Hosts)) /\ f.on \in 1..Len(searches)
        <4>1. searches \in Seq(Seq(Hosts)) /\ f.on >= 1
          BY Zenon, <2>1, <1>1 DEF FinderShape
        <4> QED
          BY <1>1, <4>1
      <3>2. PICK s \in Seq(Hosts) : s = searches[f.on]
        BY <3>1
      <3>3. s # <<>>
        BY Zenon, <2>1, <3>2
      <3>4. Head(s) \in Hosts /\ Tail(s) \in Seq(Hosts)
        BY <3>3
      <3> QED
        BY Zenon, <3>2, <3>4
    <2>3. searches' \in Seq(Seq(Hosts)) /\ Len(searches') = Len(searches)
      BY <2>1, <2>2, <1>1 DEF FinderShape
    <2> HIDE DEF p
    <2>4. CASE finders' \subseteq finders /\ UNCHANGED connections
      <3>1. FinderShape'
        BY Zenon, <1>5, <2>3, <2>4 DEF FinderShape
      <3>2. Told'
        BY Zenon, <2>1, <2>4 DEF Told, NeighborsConnected
      <3> QED
        BY Zenon, <3>1, <3>2, <1>4
    <2>5. CASE /\ p # Self /\ TRUE \in Connects(p) /\ Turns(f, "tell", f.on, p)
               /\ connections' = IF loop = "running" THEN connections \cup {p} ELSE connections
      <3>1. /\ finders' \subseteq FinderRecord
            /\ \A g \in finders' : g \in finders \/ (g.pc = "tell" /\ g.on = f.on /\ g.peer = p)
        <4>1. PICK pc \in {"begin", "range", "tell"}, peer \in Hosts \cup {None} : pc = "tell" /\ peer = p
          BY Zenon, <2>2
        <4>2. FinderShape /\ Turns(f, pc, f.on, peer)
          BY Zenon, <2>5, <4>1
        <4>3. Turned(finders, finders', pc, f.on, peer)
          BY Zenon, <1>2, <4>2, TurnsTo
        <4> QED
          BY Zenon, <4>1, <4>3 DEF Turned
      <3>2. connections' = connections \cup {p}
        BY <2>5 DEF Connects
      <3>3. \A g \in finders' : g \in finders \/ (g.on \in 0..Len(searches) /\ g.on >= 1)
        BY Zenon, <3>1, <2>1, <1>1
      <3>4. FinderShape'
        BY Zenon, <1>5, <2>3, <3>1, <3>3
      <3>5. Told'
        BY <2>1, <2>5, <3>1, <3>2 DEF Told, NeighborsConnected
      <3> QED
        BY Zenon, <3>4, <3>5, <1>4
    <2> QED
      BY <2>1, <2>4, <2>5
  <1>8. ASSUME RangeEnds(f) PROVE FinderInv'
    <2>1. finders' = finders \ {f} /\ UNCHANGED <<searches, Peers>>
      BY Zenon, <1>8 DEF RangeEnds
    <2>2. finders' \subseteq finders
      BY Zenon, <2>1
    <2>3. FinderShape'
      BY Zenon, <1>5, <2>1, <2>2 DEF FinderShape
    <2>4. Told'
      BY Zenon, <2>1, <2>2 DEF Told, NeighborsConnected, Peers
    <2> QED
      BY Zenon, <2>3, <2>4, <1>4
  <1>9. ASSUME TellPeer(f) PROVE FinderInv'
    <2>1. /\ f.pc = "tell" /\ Turns(f, "range", f.on, None) /\ neighbors' = neighbors \cup {f.peer}
          /\ peerstore' = IF f.peer \in neighbors THEN peerstore ELSE peerstore \cup AddPeer(f.peer)
          /\ UNCHANGED <<searches, connections>>
      BY Zenon, <1>9 DEF TellPeer
    <2>2. /\ finders' \subseteq FinderRecord
          /\ \A g \in finders' : g \in finders \/ (g.pc = "range" /\ g.on = f.on /\ g.peer = None)
      <3>1. PICK pc \in {"begin", "range", "tell"}, peer \in Hosts \cup {None} : pc = "range" /\ peer = None
        BY Zenon
      <3>2. FinderShape /\ Turns(f, pc, f.on, peer)
        BY Zenon, <2>1, <3>1
      <3>3. Turned(finders, finders', pc, f.on, peer)
        BY Zenon, <1>2, <3>2, TurnsTo
      <3> QED
        BY Zenon, <3>1, <3>3 DEF Turned
    <2>3. \A g \in finders' : g \in finders \/ (g.on \in 0..Len(searches) /\ g.on >= 1)
      BY Zenon, <2>1, <2>2, <1>1
    <2>4. FinderShape'
      BY Zenon, <1>5, <2>1, <2>2, <2>3 DEF FinderShape
    <2>5. f.peer \in connections \ {Self}
      BY Zenon, <2>1 DEF Told
    <2>6. NeighborsConnected'
      BY <2>1, <2>5 DEF Told, NeighborsConnected, AddPeer
    <2>7. \A g \in finders' : g.pc = "tell" => g.peer \in connections' \ {Self}
      BY Zenon, <2>1, <2>2 DEF Told
    <2> QED
      BY Zenon, <2>4, <2>6, <2>7, <1>4 DEF Told
  <1> QED
    BY Zenon, <1>6, <1>7, <1>8, <1>9

\* Every step of the service manager and of the search keeps the invariant.
LEMMA FinderKeeps == FinderInv /\ [FinderNext]_finderVars => FinderInv'
  <1> SUFFICES ASSUME FinderInv, [FinderNext]_finderVars PROVE FinderInv'
    OBVIOUS
  <1>1. CASE UNCHANGED finderVars
    <2>1. UNCHANGED <<manager, loop, starts, stops, started>> /\ UNCHANGED Search /\ UNCHANGED Service /\ UNCHANGED Peers /\ UNCHANGED finders
      BY Zenon, <1>1 DEF finderVars, Search, Service, Peers
    <2>2. FinderShape'
      BY Zenon, <2>1, ShapeKept DEF FinderInv, FinderShape
    <2> QED
      BY Zenon, <2>1, <2>2, ToldKept, StartKept DEF FinderInv
  <1> QED
    BY Zenon, <1>1, ManagerKeeps, FindKeeps, FinderStepKeeps DEF FinderNext, FinderStep

\* Every neighbour is a peer that this node was connected to and is not the node itself, the
\* host can call those with an address, and a service that runs for the first time has
\* reached a bootnode and not been stopped.
THEOREM PeersAreConsistent == FinderSpec => []PeersConsistent
  <1>1. FinderSpec => []FinderInv
    BY FinderInitial, FinderKeeps, PTL DEF FinderSpec
  <1> QED
    BY <1>1, FinderFollows, PTL
==============================================================================
