---------------------------- MODULE MCFBFTLeader -----------------------------
(* FBFTLeader on a committee of four keys: quorum three.                   *)
EXTENDS FBFTLeader, TLC

CONSTANTS k1, k2, k3, k4, x1

MCKeys == {k1, k2, k3, k4}

\* The leader runs one committee key and one key that is not elected.
MCPriKey == <<x1, k1>>

\* A validator that votes with two keys at once, and with one of them alone
\* after a restart without AggregateSig.
MCVoteSets == {{k2}, {k3, k4}, {k4}}

\* Three validators of one key each.
MCSingleVotes == {{k2}, {k3}, {k4}}

\* The leader runs two committee keys.
MCTwoOwnKeys == <<k3, x1, k1>>

MCTwoVotes == {{k2}, {k4}}
==============================================================================
