---------------------------- MODULE MessageSender ----------------------------
(***************************************************************************)
(* consensus/consensus_msg_sender.go: messages of the leader that are sent *)
(* again every seven seconds until they are stopped, overtaken or have     *)
(* been retried retryTimes times.                                          *)
(*                                                                         *)
(* retries is the list of all MessageRetry objects, one goroutine each;    *)
(* messagesToRetry (a sync.Map) holds the index of the current one of each *)
(* type, or 0.  The callers are three threads of the leader: the main loop *)
(* (Reset, ANNOUNCE), the handlers under consensus.mutex (PREPARED,        *)
(* finalCommit's COMMITTED, StopRetry) and the goroutine of                *)
(* preCommitAndPropose (COMMITTED).  Each uses its own steps of            *)
(* SendWithRetry: stop the old retry, then store the new one.              *)
(***************************************************************************)
EXTENDS Integers, Sequences

CONSTANTS
  retryTimes,  \* RetryTimes
  MaxBlock,    \* bound: highest block announced
  MaxSends     \* bound: messages sent with retry

ASSUME SenderAssumption == retryTimes \in Nat /\ MaxBlock \in Nat /\ MaxSends \in Nat

MessageTypes == {"ANNOUNCE", "PREPARED", "COMMITTED"}

Callers == {"main", "handler", "preCommit"}

VARIABLES
  blockNum,         \* of the sender
  messagesToRetry,
  retries,
  thread            \* where each caller is

senderVars == <<blockNum, messagesToRetry, retries, thread>>

Ids == 1..Len(retries)

\* NewMessageSender, before the first Reset.
SenderInit ==
  /\ blockNum = 0
  /\ messagesToRetry = [t \in MessageTypes |-> 0]
  /\ retries = <<>>
  /\ thread = [c \in Callers |-> [pc |-> "idle", type |-> "ANNOUNCE"]]

------------------------------------------------------------------------------
\* isActive of the retries in a set of them becomes 0.
Deactivate(stop) ==
  [i \in Ids |-> IF i \in stop THEN [retries[i] EXCEPT !.active = FALSE] ELSE retries[i]]

\* StopRetry: the retry found in the map.
Current(t) == {messagesToRetry[t]} \cap Ids

\* The retry that thread c is about to store is the last one it made.
NewRetry(c, t, n) ==
  [type |-> t, num |-> n, count |-> 0, active |-> TRUE, by |-> c, pc |-> "new"]

\* Mutant: the old retry is not stopped.
SendStop_KeepsOld(c, from, t, n) ==
  /\ thread[c].pc = from /\ Len(retries) < MaxSends /\ retryTimes # 0
  /\ retries' = Append(retries, NewRetry(c, t, n))
  /\ thread' = [thread EXCEPT ![c] = [pc |-> "store", type |-> t]]
  /\ UNCHANGED <<blockNum, messagesToRetry>>

\* SendWithRetry and DelayedSendWithRetry by thread c, which is at step from:
\* stop the old one ...
SendStop(c, from, t, n) ==
  /\ thread[c].pc = from /\ Len(retries) < MaxSends /\ retryTimes # 0
  /\ retries' = Append(Deactivate(Current(t)), NewRetry(c, t, n))
  /\ thread' = [thread EXCEPT ![c] = [pc |-> "store", type |-> t]]
  /\ UNCHANGED <<blockNum, messagesToRetry>>

\* ... then store the new one and start its goroutine.
SendStore(c) ==
  /\ thread[c].pc = "store"
  /\ \E i \in Ids :
       /\ retries[i].by = c /\ retries[i].pc = "new"
       /\ messagesToRetry' = [messagesToRetry EXCEPT ![thread[c].type] = i]
       /\ retries' = [retries EXCEPT ![i].pc = "sleep"]
  /\ thread' = [thread EXCEPT ![c].pc = "idle"]
  /\ UNCHANGED blockNum

StopRetry(t) ==
  /\ thread["handler"].pc = "idle"
  /\ retries' = Deactivate(Current(t))
  /\ UNCHANGED <<blockNum, messagesToRetry, thread>>

\* The main loop, with a new block: Reset stops all but COMMITTED ...
ResetStop ==
  /\ thread["main"].pc = "idle" /\ blockNum < MaxBlock
  /\ ~ (thread["handler"].pc = "store" /\ thread["handler"].type = "PREPARED")
  /\ blockNum' = blockNum + 1
  /\ retries' = Deactivate(UNION {Current(t) : t \in MessageTypes \ {"COMMITTED"}})
  /\ thread' = [thread EXCEPT !["main"].pc = "delete"]
  /\ UNCHANGED messagesToRetry

\* ... and forgets them; then the block is announced.
ResetDelete ==
  /\ thread["main"].pc = "delete"
  /\ messagesToRetry' = [t \in MessageTypes |-> IF t = "COMMITTED" THEN messagesToRetry[t] ELSE 0]
  /\ thread' = [thread EXCEPT !["main"].pc = "announce"]
  /\ UNCHANGED <<blockNum, retries>>

Announce == SendStop("main", "announce", "ANNOUNCE", blockNum)

\* didReachPrepareQuorum, after the votes that the ANNOUNCE has brought.
SendPrepared ==
  /\ thread["main"].pc = "idle" /\ blockNum > 0
  /\ SendStop("handler", "idle", "PREPARED", blockNum)

\* finalCommit, and preCommitAndPropose: for the block of the sender or, when
\* the next one is already announced, the one before.
SendCommitted ==
  \E c \in {"handler", "preCommit"}, n \in {blockNum - 1, blockNum} :
    n > 0 /\ SendStop(c, "idle", "COMMITTED", n)

------------------------------------------------------------------------------
\* Retry, after its sleep: go on, or end.
RetryWake(i) ==
  /\ retries[i].pc = "sleep"
  /\ retries' = [retries EXCEPT ![i].pc =
       IF /\ retries[i].count < retryTimes
          /\ retries[i].active
          /\ retries[i].type # "COMMITTED" => retries[i].num >= blockNum
       THEN "send" ELSE "done"]
  /\ UNCHANGED <<blockNum, messagesToRetry, thread>>

\* Mutant: the retry is not counted.
RetrySend_NotCounted(i) ==
  /\ retries[i].pc = "send"
  /\ retries' = [retries EXCEPT ![i].pc = "sleep"]
  /\ UNCHANGED <<blockNum, messagesToRetry, thread>>

RetrySend(i) ==
  /\ retries[i].pc = "send"
  /\ retries' = [retries EXCEPT ![i].pc = "sleep", ![i].count = @ + 1]
  /\ UNCHANGED <<blockNum, messagesToRetry, thread>>

RetryStep(i) == i \in Ids /\ (RetryWake(i) \/ RetrySend(i))

SenderNext ==
  \/ ResetStop \/ ResetDelete \/ Announce \/ SendPrepared \/ SendCommitted
  \/ \E c \in Callers : SendStore(c)
  \/ \E t \in MessageTypes : StopRetry(t)
  \/ \E i \in Ids : RetryStep(i)

SenderSpec == SenderInit /\ [][SenderNext]_senderVars

\* The goroutines of Retry are scheduled fairly; nothing obliges the leader to
\* send or to stop.
SenderFairSpec == SenderSpec /\ \A i \in 1..MaxSends : WF_senderVars(RetryStep(i))

------------------------------------------------------------------------------
\* Every variable has its type, no retry is sent more than retryTimes times,
\* and the map points to a retry of its own type.
SenderTypeOK ==
  /\ blockNum \in 0..MaxBlock
  /\ \A i \in Ids : /\ retries[i].type \in MessageTypes /\ retries[i].num \in 0..MaxBlock
                    /\ retries[i].count \in 0..retryTimes
                    /\ retries[i].pc \in {"new", "sleep", "send", "done"}
  /\ \A t \in MessageTypes : messagesToRetry[t] \in {0} \cup {i \in Ids : retries[i].type = t}
  /\ \A c \in Callers : thread[c].pc \in {"idle", "store", "delete", "announce"}

\* The retries of type t that go on after StopRetry.
GoesOn(t) == {i \in Ids : /\ retries[i].type = t
                          /\ retries[i].active
                          /\ retries[i].pc \notin {"new", "done"}}

\* StopRetry stops what it names: after didReachPrepareQuorum or onCommit has
\* stopped ANNOUNCE or PREPARED, no earlier retry of that type is active, whatever
\* Reset and the other senders did to the map.  (A goroutine past its check
\* sends once more.)
StopStops ==
  [][\A t \in {"ANNOUNCE", "PREPARED"} : StopRetry(t) => GoesOn(t)' = {}]_senderVars

\* Every retry ends, also one nobody stops, and also one the map has lost.
RetriesEnd ==
  \A i \in 1..MaxSends :
    (i \in Ids /\ retries[i].pc # "new") ~> (i \in Ids /\ retries[i].pc = "done")

==============================================================================
