------------------------------- MODULE MCNode -------------------------------
(***************************************************************************)
(* Two machines of a node, one of which runs: its own lifecycle and RPC    *)
(* servers, or the search for peers.  part is chosen in the initial state, *)
(* and the other stays in one fixed state.                                 *)
(***************************************************************************)
EXTENDS NodeStack, PeerFinder

VARIABLE part

MCFound == {<<"p">>, <<"me", "p", "q">>}

MCInit ==
  /\ part \in {"stack", "finder"}
  /\ NodeInit /\ FinderInit
  /\ part # "stack" => config = [http |-> None, ws |-> None]

MCNext ==
  \/ part = "stack" /\ NodeNext /\ UNCHANGED <<finderVars, part>>
  \/ part = "finder" /\ FinderNext /\ UNCHANGED <<nodeVars, part>>

\* The fairness of each machine, for the part that runs.
MCSpec ==
  /\ MCInit /\ [][MCNext]_<<nodeVars, finderVars, part>>
  /\ WF_nodeVars(part = "stack" /\ StartStep)
  /\ \A p \in Closers \cup Admins : SF_nodeVars(part = "stack" /\ Step(p))
  /\ WF_finderVars(part = "finder" /\ ServiceStep)

\* Nobody waits for ever: Close and the calls of the admin API return, and so do the actions
\* of the service manager.
NodeProgress == CloseReturns /\ CallsReturn /\ ActionsEnd
=============================================================================
