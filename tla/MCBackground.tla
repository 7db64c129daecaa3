---------------------------- MODULE MCBackground -----------------------------
(***************************************************************************)
(* Three machines of goroutines in the background, one of which runs: the  *)
(* messages of the topics, the transaction index, and the messages that    *)
(* the leader sends again.  part is chosen in the initial state, and the   *)
(* others stay in one fixed state.                                         *)
(***************************************************************************)
EXTENDS Gossip, TxIndex, MessageSender

VARIABLE part

Msg(i, topic, category, shape, own) ==
  [id |-> i, topic |-> topic, category |-> category, shape |-> shape, own |-> own]

\* Two topics, the first for consensus.  Two consensus messages compete for one permit; others
\* come on the wrong topic, from this node itself, or are not well formed.
TwoTopics == 1..2
MCMessages == {Msg(1, 1, "consensus", "ok", FALSE), Msg(2, 1, "consensus", "ok", FALSE),
               Msg(3, 2, "consensus", "ok", FALSE), Msg(4, 1, "node", "bad", FALSE),
               Msg(5, 2, "node", "ok", FALSE), Msg(6, 2, "node", "ok", TRUE)}

MCInit ==
  /\ part \in {"gossip", "index", "sender"}
  /\ GossipInit /\ IndexInit /\ SenderInit
  /\ part # "index" => frozen = 0 /\ canon[1] = None

MCNext ==
  \/ part = "gossip" /\ GossipNext /\ UNCHANGED <<indexVars, senderVars, part>>
  \/ part = "index" /\ IndexNext /\ UNCHANGED <<gossipVars, senderVars, part>>
  \/ part = "sender" /\ SenderNext /\ UNCHANGED <<gossipVars, indexVars, part>>

\* The fairness of each machine, for the part that runs.
MCSpec ==
  /\ MCInit /\ [][MCNext]_<<gossipVars, indexVars, senderVars, part>>
  /\ WF_gossipVars(part = "gossip" /\ TopicStep) /\ WF_gossipVars(part = "gossip" /\ MessageStep)
  /\ WF_indexVars(part = "index" /\ JobNext)
  /\ \A i \in 1..MaxSends : WF_senderVars(part = "sender" /\ RetryStep(i))

\* The goroutines in the background end: those of every message, of every index job and of
\* every retry.
BackgroundEnds == EverySettles /\ JobsEnd /\ RetriesEnd
=============================================================================
