--------------------------- MODULE MCVoteGossip ---------------------------
(* Instances of VoteGossip for TLC. *)
EXTENDS VoteGossip

CONSTANTS A, B

AB == {A, B}

\* Both nodes are listed and synced from the start.
BothListed == [nodes |-> AB, enabled |-> TRUE]
Static == {BothListed}

\* Node B joins the whitelist in the deployment that disables the DAO; the
\* orchestrator goes back and forth between the two deployments.
JustA == {A}
OnlyA == [nodes |-> {A}, enabled |-> TRUE]
BothDisabled == [nodes |-> AB, enabled |-> FALSE]
Changing == {OnlyA, BothDisabled}

=============================================================================
