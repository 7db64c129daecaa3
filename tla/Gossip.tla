------------------------------- MODULE Gossip -------------------------------
(***************************************************************************)
(* startMessageHandle of bnz/backend.go: the topics that a node joins, the *)
(* validator of a topic, the reader that distributes validated messages to *)
(* two queues, one goroutine per message behind a semaphore, and the error *)
(* channel that all of them share and that is read only when every topic   *)
(* is set up.                                                              *)
(*                                                                         *)
(* A message has a category ("consensus", "node", "other"), a shape ("ok", *)
(* "short", "bad"), and says whether this node sent it.                    *)
(***************************************************************************)
EXTENDS Integers, Sequences, FiniteSets

CONSTANTS Topics,              \* 1..n, in the order of the loop
          GroupTopics,         \* config.GroupID; the others are of config.ClientID only
          Messages,            \* records [id, topic, category, shape, own]
          Permits,             \* weight of a semaphore (SetAsideForConsensus, SetAsideOtherwise)
          ErrCap, QueueCap,    \* capacity of errChan, of a message channel (MsgChanBuffer)
          Workers,             \* validation workers of the host
          MaxReadErrors        \* bound

ASSUME GossipAssumption ==
  /\ IsFiniteSet(Topics) /\ {Permits, ErrCap, QueueCap} \subseteq Nat
  /\ \A m \in Messages : /\ m.topic \in Topics /\ m.category \in {"consensus", "node", "other"}
                         /\ m.shape \in {"ok", "short", "bad"} /\ m.own \in BOOLEAN

VARIABLES phase,      \* "setup", "returned" (an error ended the loop), "draining"
          topics,     \* number of topics set up so far
          inbox,      \* messages that the network has not delivered yet
          validating, \* messages whose validator waits for errChan
          arrived,    \* topic -> accepted messages, for sub.Next
          queue,      \* topic -> kind -> msgChanConsensus and msgChanNode
          tasks,      \* the goroutines of messages: [msg, pc, held]
          sem,        \* topic -> kind -> permits taken
          errs,       \* errors in errChan
          readErrors, \* errors of sub.Next so far
          fate        \* history: message -> what became of it

gossipVars == <<phase, topics, inbox, validating, arrived, queue, tasks, sem, errs, readErrors, fate>>

Kinds == {"consensus", "node"}

GossipInit ==
  /\ phase = "setup" /\ topics = 0 /\ inbox = Messages /\ validating = {}
  /\ arrived = [t \in Topics |-> <<>>] /\ queue = [t \in Topics |-> [k \in Kinds |-> <<>>]]
  /\ tasks = {} /\ sem = [t \in Topics |-> [k \in Kinds |-> 0]]
  /\ errs = 0 /\ readErrors = 0 /\ fate = [m \in Messages |-> "new"]

------------------------------------------------------------------------------
(* Setting up, and the loop over errChan that ends the function. *)

\* Subscribe, RegisterTopicValidator and the three goroutines of the next topic.
SetUpTopic ==
  /\ phase = "setup" /\ topics < Cardinality(Topics) /\ topics' = topics + 1
  /\ UNCHANGED <<phase, inbox, validating, arrived, queue, tasks, sem, errs, readErrors, fate>>

\* Subscribe or RegisterTopicValidator fails: the topics before it stay as they are.
SetUpFails ==
  /\ phase = "setup" /\ topics < Cardinality(Topics) /\ phase' = "returned"
  /\ UNCHANGED <<topics, inbox, validating, arrived, queue, tasks, sem, errs, readErrors, fate>>

SetUpDone ==
  /\ phase = "setup" /\ topics = Cardinality(Topics) /\ phase' = "draining"
  /\ UNCHANGED <<topics, inbox, validating, arrived, queue, tasks, sem, errs, readErrors, fate>>

\* Mutant: the errors are read before the topics are set up, not after.
DrainErr_Before ==
  /\ phase = "setup" /\ errs > 0 /\ errs' = errs - 1
  /\ UNCHANGED <<phase, topics, inbox, validating, arrived, queue, tasks, sem, readErrors, fate>>

\* for e := range errChan
DrainErr ==
  /\ phase = "draining" /\ errs > 0 /\ errs' = errs - 1
  /\ UNCHANGED <<phase, topics, inbox, validating, arrived, queue, tasks, sem, readErrors, fate>>

\* Mutant: nobody waits for room.
SendErr_NoWait == errs' = errs + 1

\* errChan <- ...: waits while the channel is full.
SendErr == errs < ErrCap /\ errs' = errs + 1

------------------------------------------------------------------------------
(* The validator. *)

\* Mutant: consensus messages are taken on every topic.
Verdict_AnyTopic(m) ==
  IF m.shape = "short" \/ m.category = "other" THEN "reject"
  ELSE IF m.shape = "bad" THEN "error" ELSE "accept"

\* A consensus message is one that protobuf.Unmarshal can read; a node message is of type
\* Transaction or Block.
validateShardBoundMessage(m) == m.shape # "bad"
validateNodeMessage(m) == m.shape # "bad"

\* Size and category, the topic of a consensus message, and the message itself; "error" is a rejection that is reported.
Verdict(m) ==
  IF m.shape = "short" \/ m.category = "other" THEN "reject"
  ELSE IF \/ m.category = "consensus" /\ (m.topic \notin GroupTopics \/ ~validateShardBoundMessage(m))
          \/ m.category = "node" /\ ~validateNodeMessage(m) THEN "error"
  ELSE "accept"

\* A worker of the host runs the validator inline.
Validate(m) ==
  /\ m \in inbox /\ m.topic <= topics /\ Cardinality(validating) < Workers
  /\ inbox' = inbox \ {m}
  /\ \/ /\ Verdict(m) = "accept" /\ fate' = [fate EXCEPT ![m] = "accepted"]
        /\ arrived' = [arrived EXCEPT ![m.topic] = Append(@, m)] /\ UNCHANGED validating
     \/ /\ Verdict(m) = "reject" /\ fate' = [fate EXCEPT ![m] = "rejected"]
        /\ UNCHANGED <<arrived, validating>>
     \/ /\ Verdict(m) = "error" /\ validating' = validating \cup {m}
        /\ UNCHANGED <<arrived, fate>>
  /\ UNCHANGED <<phase, topics, queue, tasks, sem, errs, readErrors>>

ReportInvalid(m) ==
  /\ m \in validating /\ SendErr
  /\ validating' = validating \ {m} /\ fate' = [fate EXCEPT ![m] = "rejected"]
  /\ UNCHANGED <<phase, topics, inbox, arrived, queue, tasks, sem, readErrors>>

------------------------------------------------------------------------------
(* The reader and the two dispatchers of a topic. *)

FromOther(m) == ~m.own

\* One turn of the reader: skip, or put the message into its channel, waiting for room.
ReadNext(t) ==
  /\ arrived[t] # <<>>
  /\ LET m == Head(arrived[t]) IN
     /\ arrived' = [arrived EXCEPT ![t] = Tail(@)]
     /\ IF FromOther(m)
        THEN /\ Len(queue[t][m.category]) < QueueCap
             /\ queue' = [queue EXCEPT ![t][m.category] = Append(@, m)] /\ UNCHANGED fate
        ELSE fate' = [fate EXCEPT ![m] = "skipped"] /\ UNCHANGED queue
  /\ UNCHANGED <<phase, topics, inbox, validating, tasks, sem, errs, readErrors>>

\* sub.Next fails: the reader reports it and goes on.
ReadFails(t) ==
  /\ t <= topics /\ readErrors < MaxReadErrors /\ readErrors' = readErrors + 1 /\ SendErr
  /\ UNCHANGED <<phase, topics, inbox, validating, arrived, queue, tasks, sem, fate>>

\* A dispatcher starts a goroutine for the next message.
Dispatch(t, k) ==
  /\ queue[t][k] # <<>>
  /\ tasks' = tasks \cup {[msg |-> Head(queue[t][k]), pc |-> "acquire", held |-> FALSE]}
  /\ queue' = [queue EXCEPT ![t][k] = Tail(@)]
  /\ UNCHANGED <<phase, topics, inbox, validating, arrived, sem, errs, readErrors, fate>>

------------------------------------------------------------------------------
(* The goroutine of a message. *)

Moves(g, pc, held) == tasks' = (tasks \ {g}) \cup {[g EXCEPT !.pc = pc, !.held = held]}

\* TryAcquire: without a permit the message is dropped.
Acquire(g) ==
  LET m == g.msg IN
  /\ g.pc = "acquire"
  /\ IF sem[m.topic][m.category] < Permits
     THEN /\ sem' = [sem EXCEPT ![m.topic][m.category] = @ + 1]
          /\ Moves(g, "handle", TRUE) /\ UNCHANGED fate
     ELSE /\ Moves(g, "select", FALSE)
          /\ fate' = [fate EXCEPT ![m] = "dropped"] /\ UNCHANGED sem
  /\ UNCHANGED <<phase, topics, inbox, validating, arrived, queue, errs, readErrors>>

\* handleC may return an error, HandleNodeMessage returns none.
Handle(g) ==
  /\ g.pc = "handle" /\ fate' = [fate EXCEPT ![g.msg] = "handled"]
  /\ \/ Moves(g, "select", TRUE)
     \/ g.msg.category = "consensus" /\ Moves(g, "report", TRUE)
  /\ UNCHANGED <<phase, topics, inbox, validating, arrived, queue, sem, errs, readErrors>>

ReportHandler(g) ==
  /\ g.pc = "report" /\ SendErr /\ Moves(g, "select", TRUE)
  /\ UNCHANGED <<phase, topics, inbox, validating, arrived, queue, sem, readErrors, fate>>

\* Mutant: the permit is given back only when the deadline has not passed.
ReleasePermit_InTime(g) == IF g.held /\ g.pc = "select" THEN 1 ELSE 0

\* The deferred Release.
ReleasePermit(g) == IF g.held THEN 1 ELSE 0

Return(g) ==
  /\ tasks' = tasks \ {g}
  /\ sem' = [sem EXCEPT ![g.msg.topic][g.msg.category] = @ - ReleasePermit(g)]
  /\ UNCHANGED <<phase, topics, inbox, validating, arrived, queue, readErrors, fate>>

\* The deadline of the context has passed, or not.
Select(g) ==
  /\ g.pc = "select"
  /\ \/ Return(g) /\ UNCHANGED errs
     \/ /\ Moves(g, "deadline", g.held)
        /\ UNCHANGED <<phase, topics, inbox, validating, arrived, queue, sem, errs, readErrors, fate>>

ReportDeadline(g) == g.pc = "deadline" /\ SendErr /\ Return(g)

------------------------------------------------------------------------------

TopicStep == SetUpTopic \/ SetUpDone \/ DrainErr
MessageStep ==
  \/ \E m \in Messages : Validate(m) \/ ReportInvalid(m)
  \/ \E t \in Topics : ReadNext(t) \/ \E k \in Kinds : Dispatch(t, k)
  \/ \E g \in tasks : Acquire(g) \/ Handle(g) \/ ReportHandler(g) \/ Select(g) \/ ReportDeadline(g)

GossipNext == TopicStep \/ SetUpFails \/ MessageStep \/ \E t \in Topics : ReadFails(t)

GossipSpec ==
  GossipInit /\ [][GossipNext]_gossipVars /\ WF_gossipVars(TopicStep) /\ WF_gossipVars(MessageStep)

------------------------------------------------------------------------------
(* Properties. *)

\* The shape of the state; queues and errChan within their capacities.
GossipTypeOK ==
  /\ phase \in {"setup", "returned", "draining"} /\ topics \in 0..Cardinality(Topics)
  /\ inbox \cup validating \subseteq Messages /\ errs \in 0..ErrCap
  /\ \A t \in Topics, k \in Kinds : Len(queue[t][k]) <= QueueCap /\ sem[t][k] \in 0..Permits
  /\ \A m \in Messages :
       fate[m] \in {"new", "accepted", "rejected", "skipped", "handled", "dropped"}
  /\ \A g \in tasks : g.msg \in Messages

\* The permits of a semaphore that are taken are those that goroutines hold: none leaks, whichever
\* way a goroutine ends.
PermitsHeld ==
  \A t \in Topics, k \in Kinds :
    sem[t][k] = Cardinality({g \in tasks : g.held /\ g.msg.topic = t /\ g.msg.category = k})

\* The handlers see only well-formed messages of others, and consensus messages only from topics
\* of config.GroupID.
HandledIsValid ==
  \A m \in Messages : fate[m] = "handled" =>
    m.shape = "ok" /\ ~m.own /\ (m.category = "consensus" => m.topic \in GroupTopics)

\* Once all topics are set up, every message is settled and every goroutine ends: a full errChan
\* holds up validators, readers and handlers only for a time.
EverySettles ==
  phase = "draining" ~>
    tasks = {} /\ \A m \in Messages : fate[m] \in {"rejected", "skipped", "handled", "dropped"}

\* Permits and messages are accounted for, and only valid messages are handled.
GossipConsistent == GossipTypeOK /\ PermitsHeld /\ HandledIsValid
=============================================================================
