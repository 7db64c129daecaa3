------------------------------- MODULE Ledger -------------------------------
(***************************************************************************)
(* What core/blockchain.go promises its users: head is the block a restart *)
(* finds, view the one CurrentBlock returns (None when the node is down).  *)
(* The durable head never jumps to another branch: it goes to a child, and *)
(* then the view follows, or back to an ancestor, before or after the view.*)
(***************************************************************************)
EXTENDS Integers, Sequences

CONSTANTS Blocks, Genesis, Parent, None

VARIABLES head, view

Line[b \in Blocks] == IF b = Genesis THEN {b} ELSE Line[Parent[b]] \cup {b}

LedgerInit == head = Genesis /\ view = None

Extend ==
  /\ view = head
  /\ \E b \in Blocks \ {Genesis} : Parent[b] = head /\ head' = b
  /\ UNCHANGED view

Rewind ==
  /\ view # None
  /\ \E a \in Line[head] \ {head} :
       <<head', view'>> \in {<<head, a>>, <<a, view>>, <<a, a>>}

Settle == view \in Line[head] /\ head' = view /\ UNCHANGED view

Publish == view' = head /\ UNCHANGED head

GoDown == view' = None /\ UNCHANGED head

LedgerSpec ==
  LedgerInit /\ [][Extend \/ Rewind \/ Settle \/ Publish \/ GoDown]_<<head, view>>
=============================================================================
