---------------------------- MODULE NodeConfig ----------------------------
(***************************************************************************)
(* What a surtur node knows of the network: the peer list and the DAO      *)
(* configuration it pulls from the orchestrator at boot and every minute,  *)
(* and keeps in SQLite when the orchestrator cannot be reached             *)
(* (surtur-node/src/orchestrator.ts, the end of db.ts, and the             *)
(* orchestrator's own endpoint, frontend/app/api/orchestrator/route.ts).   *)
(*                                                                         *)
(* One DAO is modelled: a handler looks at one DAO only, the one its       *)
(* record names.  Of the DAO's configuration, the handlers of the network  *)
(* branch on whether it is known at all and on its "enabled" flag.         *)
(***************************************************************************)
CONSTANTS
    Nodes,          \* the surtur nodes
    Listings,       \* what the orchestrator may come to publish
    InitListing,    \* what it publishes at the start
    Synced          \* the nodes that pulled InitListing before the start

ASSUME ConfigAssumption ==
    /\ Listings \subseteq [nodes : SUBSET Nodes, enabled : BOOLEAN]
    /\ InitListing \in Listings
    /\ Synced \subseteq Nodes

VARIABLES
    listing,        \* the orchestrator's current answer
    peers,          \* peers[n]: rows of node n's peers table
    dao             \* dao[n]: node n's cached copy of the DAO

configVars == <<listing, peers, dao>>

DaoStates == {"unknown", "enabled", "disabled"}

ConfigTypeOK ==
    /\ listing \in Listings
    /\ peers \in [Nodes -> SUBSET Nodes]
    /\ dao \in [Nodes -> DaoStates]

----------------------------------------------------------------------------
\* The orchestrator's answer as node n stores it: every listed node but
\* itself, and the DAO with its flag.
PeersIn(l, n) == l.nodes \ {n}
DaoIn(l) == IF l.enabled THEN "enabled" ELSE "disabled"

ConfigInit ==
    /\ listing = InitListing
    /\ peers = [n \in Nodes |-> IF n \in Synced THEN PeersIn(InitListing, n) ELSE {}]
    /\ dao = [n \in Nodes |-> IF n \in Synced THEN DaoIn(InitListing) ELSE "unknown"]

\* A new deployment of the orchestrator.
Publish(l) ==
    /\ l # listing
    /\ listing' = l
    /\ UNCHANGED <<peers, dao>>

\* syncFromOrchestrator: the peer table is replaced in one transaction, then
\* the DAO is upserted; both run in one turn of the event loop.  A failed
\* fetch changes nothing and is no step.
Sync(n) ==
    /\ peers' = [peers EXCEPT ![n] = PeersIn(listing, n)]
    /\ dao' = [dao EXCEPT ![n] = DaoIn(listing)]
    /\ UNCHANGED listing

ConfigNext ==
    \/ \E l \in Listings : Publish(l)
    \/ \E n \in Nodes : Sync(n)

=============================================================================
