-------------------------- MODULE ProposalGossip --------------------------
(***************************************************************************)
(* How proposals spread: POST /proposals (surtur-node/src/routes.ts), the  *)
(* relay every accepted record goes through (relay.ts) and the client that *)
(* posts to the nodes (fanOutPost in frontend/lib/dao/nodeStore.ts).       *)
(*                                                                         *)
(* A handler runs without interruption up to its first real wait, the      *)
(* request to espo for the proposer's balance, and from the answer to its  *)
(* end; the awaited SQLite calls are synchronous.  So it is two steps:     *)
(* StartProposal reads the node's tables, InsertProposal (or Fail) acts on *)
(* espo's answer.  Posts are well-formed: shape, addresses, id hash and    *)
(* signature are checked by pure functions with no effect on the state.    *)
(***************************************************************************)
EXTENDS NodeConfig

CONSTANTS
    Proposals,      \* proposals that may be published
    Seeded,         \* the proposals every node stores at the start
    Client,         \* the sender of what no node relayed
    Unreliable      \* may posts be lost, nodes crash, espo refuse or fail?

ASSUME ProposalAssumption ==
    /\ Seeded \subseteq Proposals
    /\ Client \notin Nodes
    /\ Unreliable \in BOOLEAN

VARIABLES
    published,      \* proposals a client has posted
    proposals,      \* proposals[n]: rows of node n's proposals table
    propMsgs,       \* POST /proposals requests under way
    propHandlers    \* requests whose handler waits for espo

propVars == <<published, proposals, propMsgs, propHandlers>>

Senders == Nodes \cup {Client}
PropMsg == [from : Senders, to : Nodes, proposal : Proposals]

PropTypeOK ==
    /\ published \subseteq Proposals
    /\ proposals \in [Nodes -> SUBSET Proposals]
    /\ propMsgs \subseteq PropMsg
    /\ propHandlers \subseteq PropMsg

ProposalInit ==
    /\ published = Seeded
    /\ proposals = [n \in Nodes |-> Seeded]
    /\ propMsgs = {}
    /\ propHandlers = {}

----------------------------------------------------------------------------
\* One POST of a proposal to each of `targets'.
PostProposal(sender, targets, p) ==
    {[from |-> sender, to |-> n, proposal |-> p] : n \in targets}

\* A client posts to the nodes it reaches of those it is configured with.
\* Bound: a proposal is posted by one client call.
PublishProposal(p, targets) ==
    /\ p \notin published
    /\ published' = published \cup {p}
    /\ propMsgs' = propMsgs \cup PostProposal(Client, targets, p)
    /\ UNCHANGED <<proposals, propHandlers>>

ProposalKnown(m) == m.proposal \in proposals[m.to]

\* A known record ends the gossip; an unknown or disabled DAO refuses it.
DropProposal(m) ==
    /\ m \in propMsgs
    /\ ProposalKnown(m) \/ dao[m.to] # "enabled"
    /\ propMsgs' = propMsgs \ {m}
    /\ UNCHANGED <<published, proposals, propHandlers>>

StartProposal(m) ==
    /\ m \in propMsgs
    /\ ~ProposalKnown(m)
    /\ dao[m.to] = "enabled"
    /\ propMsgs' = propMsgs \ {m}
    /\ propHandlers' = propHandlers \cup {m}
    /\ UNCHANGED <<published, proposals>>

\* Espo answers that the proposer meets the threshold: INSERT OR IGNORE,
\* and relay to every peer whether or not the row was new.
InsertProposal(m) ==
    /\ m \in propHandlers
    /\ propHandlers' = propHandlers \ {m}
    /\ proposals' = [proposals EXCEPT ![m.to] = @ \cup {m.proposal}]
    /\ propMsgs' = propMsgs \cup PostProposal(m.to, peers[m.to], m.proposal)
    /\ UNCHANGED published

\* Espo fails or answers that the threshold is not met.
FailProposal(m) ==
    /\ Unreliable
    /\ m \in propHandlers
    /\ propHandlers' = propHandlers \ {m}
    /\ UNCHANGED <<published, proposals, propMsgs>>

\* A request that never arrives: nobody sends it again.
LoseProposal(m) ==
    /\ Unreliable
    /\ m \in propMsgs
    /\ propMsgs' = propMsgs \ {m}
    /\ UNCHANGED <<published, proposals, propHandlers>>

ProposalProgress ==
    \/ \E m \in propMsgs : DropProposal(m) \/ StartProposal(m)
    \/ \E m \in propHandlers : InsertProposal(m) \/ FailProposal(m)

ProposalNext ==
    \/ \E p \in Proposals, targets \in SUBSET listing.nodes \ {{}} :
          PublishProposal(p, targets)
    \/ ProposalProgress
    \/ \E m \in propMsgs : LoseProposal(m)

=============================================================================
