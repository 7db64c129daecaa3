----------------------------- MODULE MCMainLoop -----------------------------
(***************************************************************************)
(* The main loop of a node with two keys, in a shard where it leads with   *)
(* either of them, only another key leads, or an epoch has an empty        *)
(* committee; and three algorithms of the consensus, each with the machine *)
(* that enumerates its inputs: the sharding schedules, the voting power    *)
(* and the search for double signers.  part is chosen in the initial state *)
(* and the machines of the others stay in one fixed state.                 *)
(***************************************************************************)
EXTENDS MainLoop, Schedule, Roster, Slashing

CONSTANTS k1, k2, o

VARIABLE part

MCShardKeys == {k1, k2, o}
MCKeys == {k1, k2}
MCCommittees == {<<k1, o>>, <<o>>, <<k2>>, <<>>}

\* Schedule: the constants of the networks, with short epochs.
Net(kind, block1, old, v2, staking, two, sixty) ==
  [kind |-> kind, block1 |-> block1, old |-> old, v2 |-> v2, staking |-> staking,
   two |-> two, sixty |-> sixty, testnetStaking |-> 2, starts |-> {<<0, 0>>}]
MCNetworks == {
  Net("mainnet", 7, 3, 5, 186, 234, 236),
  Net("localnet", 10, 5, 10, 2, 0, 6), Net("localnet", 10, 5, 10, 2, 1, 6),
  Net("localnet", 10, 5, 10, 2, 3, 6),
  [Net("testnet", 0, 2, 3, 2, 6052, 6053) EXCEPT !.starts = {<<0, 0>>, <<6045, 2 * 6045>>}],
  Net("testnet", 0, 3, 4, 2, 3, 4),
  Net("pangaea", 0, 0, 5, 3, 0, 0), Net("partner", 0, 0, 3, 3, 0, 0),
  Net("stress", 0, 0, 4, 2, 0, 0), Net("fixed", 0, 0, 9, 0, 0, 0) }
MCHmyAccounts == <<"h1", "h2", "h3", "h4", "h5">>
MCFnAccounts == <<"f1", "f2">>
MCEpochs ==
  [k \in {n.kind : n \in MCNetworks} |->
     IF k = "mainnet" THEN 0..240 ELSE IF k = "testnet" THEN (0..8) \cup (6045..6055) ELSE 0..8]

\* Roster: two of four keys earn for one account.
MCAddressOf == [k \in {"k1", "k2", "k3", "k4"} |-> IF k \in {"k1", "k3"} THEN "a" ELSE "b"]

\* Slashing: two keys of one address, and one the committee does not know.
MCOwner == [k \in {"l", "k1", "k2", "k3"} |->
              CASE k = "l" -> "al" [] k = "k3" -> None [] OTHER -> "a"]
MCNumberOf == [b \in {"A", "B", "C"} |-> IF b = "C" THEN 2 ELSE 1]
MCMultisigs == {<<"k1">>, <<"k1", "k2">>, <<"k2", "k1">>, <<"k3", "k1">>}

MCInit ==
  /\ part \in {"loop", "schedule", "roster", "slashing"}
  /\ LoopInit /\ ScheduleInit /\ RosterInit /\ SlashInit
  /\ part # "schedule" => network.kind = "fixed"
  /\ part # "roster" => ~incident
  /\ part # "loop" => \A e \in DOMAIN committee : committee[e] = <<o>>

algorithmVars == <<scheduleVars, rosterVars, slashVars>>

MCNext ==
  \/ part = "loop" /\ LoopNext /\ UNCHANGED <<part, algorithmVars>>
  \/ /\ part = "schedule" /\ ScheduleNext
     /\ UNCHANGED <<part, loopVars, rosterVars, slashVars>>
  \/ /\ part = "roster" /\ RosterNext
     /\ UNCHANGED <<part, loopVars, scheduleVars, slashVars>>
  \/ /\ part = "slashing" /\ SlashNext
     /\ UNCHANGED <<part, loopVars, scheduleVars, rosterVars>>

\* The fairness of the main loop, when it is the part that runs.
MCSpec ==
  /\ MCInit /\ [][MCNext]_<<part, loopVars, algorithmVars>>
  /\ WF_loopVars(part = "loop" /\ Propose) /\ WF_loopVars(part = "loop" /\ TakeRnd)
  /\ WF_loopVars(part = "loop" /\ StoreRnd)
  /\ WF_loopVars(part = "loop" /\ (GenerateVrf \/ ReadRnd \/ PopRnd \/ Announce))
  /\ SF_loopVars(part = "loop" /\ ReceiveBlock) /\ SF_loopVars(part = "loop" /\ TakeStop)
  /\ SF_loopVars(part = "loop" /\ SyncReady)
=============================================================================
