---------------------------- MODULE VoteGossip ----------------------------
(***************************************************************************)
(* How votes spread: POST /votes (surtur-node/src/routes.ts) on top of the *)
(* proposals of ProposalGossip.  An address may sign several votes on one  *)
(* proposal and post each to other nodes; every node is to keep the one    *)
(* with the lexicographically smallest signature.                          *)
(*                                                                         *)
(* A signature stands for the vote it signs; Sigs are numbers, in the      *)
(* lexicographic order of the signatures.  As in ProposalGossip a handler  *)
(* is two steps around its request to espo: StartVote reads the stored     *)
(* vote, and InsertVote, ReplaceVote or KeepVote acts on that earlier read *)
(* after the answer.                                                       *)
(***************************************************************************)
EXTENDS ProposalGossip, Naturals

CONSTANTS
    Voters,         \* addresses that vote
    Sigs,           \* signatures, by their order
    NoVote,         \* no row in the votes table
    MaxPosts,       \* bound: how many times clients post a vote
    Overlap         \* may handlers for one voter and proposal overlap at a node?

ASSUME VoteAssumption ==
    /\ Sigs \subseteq Nat
    /\ NoVote \notin Sigs
    /\ MaxPosts \in Nat
    /\ Overlap \in BOOLEAN

VARIABLES
    votes,          \* votes[n][k]: the signature node n stores for key k
    voteMsgs,       \* POST /votes requests under way
    voteHandlers,   \* requests whose handler waits for espo
    cast,           \* the votes clients have posted
    posts,          \* how many posts clients made
    acked           \* acked[n]: the votes node n has answered "ok"

voteVars == <<votes, voteMsgs, voteHandlers, cast, posts, acked>>
vars == <<configVars, propVars, voteVars>>

\* The primary key of the votes table.
Keys == Proposals \X Voters
Vote == [proposal : Proposals, voter : Voters, sig : Sigs]
KeyOf(v) == <<v.proposal, v.voter>>

VoteMsg == [from : Senders, to : Nodes, vote : Vote]
VoteHandler == [msg : VoteMsg, existing : Sigs \cup {NoVote}]

VoteTypeOK ==
    /\ votes \in [Nodes -> [Keys -> Sigs \cup {NoVote}]]
    /\ voteMsgs \subseteq VoteMsg
    /\ voteHandlers \subseteq VoteHandler
    /\ cast \subseteq Vote
    /\ posts \in 0..MaxPosts
    /\ acked \in [Nodes -> SUBSET Vote]

TypeOK == ConfigTypeOK /\ PropTypeOK /\ VoteTypeOK

VoteInit ==
    /\ votes = [n \in Nodes |-> [k \in Keys |-> NoVote]]
    /\ voteMsgs = {}
    /\ voteHandlers = {}
    /\ cast = {}
    /\ posts = 0
    /\ acked = [n \in Nodes |-> {}]

Init == ConfigInit /\ ProposalInit /\ VoteInit

----------------------------------------------------------------------------
(* Clients and the network *)

\* One POST of a vote to each of `targets'.
PostVote(sender, targets, v) ==
    {[from |-> sender, to |-> n, vote |-> v] : n \in targets}

\* A client votes on a proposal some node serves; it may post again a vote
\* that it posted before.
CastVote(v, targets) ==
    /\ posts < MaxPosts
    /\ \E n \in Nodes : v.proposal \in proposals[n]
    /\ posts' = posts + 1
    /\ cast' = cast \cup {v}
    /\ voteMsgs' = voteMsgs \cup PostVote(Client, targets, v)
    /\ UNCHANGED <<votes, voteHandlers, acked>>

LoseVote(m) ==
    /\ Unreliable
    /\ m \in voteMsgs
    /\ voteMsgs' = voteMsgs \ {m}
    /\ UNCHANGED <<votes, voteHandlers, cast, posts, acked>>

----------------------------------------------------------------------------
(* POST /votes up to the request to espo *)

\* getVote(vote.proposalId, vote.address) at the node the request reaches.
StoredFor(m) == votes[m.to][KeyOf(m.vote)]

Ack(n, v) == acked' = [acked EXCEPT ![n] = @ \cup {v}]

\* The identical vote is stored: answer "known" and stop the gossip.
KnownVote(m) ==
    /\ m \in voteMsgs
    /\ StoredFor(m) = m.vote.sig
    /\ voteMsgs' = voteMsgs \ {m}
    /\ Ack(m.to, m.vote)
    /\ UNCHANGED <<votes, voteHandlers, cast, posts>>

\* Bug: the lookup of the proposal is dropped.
AdmissibleDaoOnly(m) == dao[m.to] # "unknown"

\* What the route checks before it accepts a vote.  It asks for a known
\* proposal and a known DAO; whether the DAO is enabled is not looked at.
Admissible(m) ==
    /\ m.vote.proposal \in proposals[m.to]
    /\ dao[m.to] # "unknown"

\* 400 "unknown proposal" or "dao mismatch": the sender drops the answer.
RefuseVote(m) ==
    /\ m \in voteMsgs
    /\ StoredFor(m) # m.vote.sig
    /\ ~Admissible(m)
    /\ voteMsgs' = voteMsgs \ {m}
    /\ UNCHANGED <<votes, voteHandlers, cast, posts, acked>>

SameKey(m, h) == h.msg.to = m.to /\ KeyOf(h.msg.vote) = KeyOf(m.vote)

\* The handler takes its copy of the stored vote and asks espo.
StartVote(m) ==
    /\ m \in voteMsgs
    /\ StoredFor(m) # m.vote.sig
    /\ Admissible(m)
    /\ Overlap \/ ~\E h \in voteHandlers : SameKey(m, h)
    /\ voteMsgs' = voteMsgs \ {m}
    /\ voteHandlers' = voteHandlers \cup {[msg |-> m, existing |-> StoredFor(m)]}
    /\ UNCHANGED <<votes, cast, posts, acked>>

----------------------------------------------------------------------------
(* POST /votes after espo confirmed that the voter holds the token *)

Store(n, v) == votes' = [votes EXCEPT ![n][KeyOf(v)] = v.sig]

\* Bug: the whole request is relayed where its vote belongs.
AckAndRelayRequest(h) ==
    /\ Ack(h.msg.to, h.msg.vote)
    /\ voteMsgs' = voteMsgs \cup PostVote(h.msg.to, peers[h.msg.to], h.msg)
    /\ voteHandlers' = voteHandlers \ {h}
    /\ UNCHANGED <<cast, posts>>

\* res.json({ ok: true }) and relayToPeers.
AckAndRelay(h) ==
    /\ Ack(h.msg.to, h.msg.vote)
    /\ voteMsgs' = voteMsgs \cup PostVote(h.msg.to, peers[h.msg.to], h.msg.vote)
    /\ voteHandlers' = voteHandlers \ {h}
    /\ UNCHANGED <<cast, posts>>

\* No vote was stored at the start: INSERT OR IGNORE.
InsertVote(h) ==
    /\ h \in voteHandlers
    /\ h.existing = NoVote
    /\ IF StoredFor(h.msg) = NoVote THEN Store(h.msg.to, h.msg.vote) ELSE UNCHANGED votes
    /\ AckAndRelay(h)

\* Bug: a replaced vote is not relayed.
ReplaceVoteSilently(h) ==
    /\ h \in voteHandlers
    /\ h.existing # NoVote
    /\ h.msg.vote.sig < h.existing
    /\ Store(h.msg.to, h.msg.vote)
    /\ Ack(h.msg.to, h.msg.vote)
    /\ voteHandlers' = voteHandlers \ {h}
    /\ UNCHANGED <<voteMsgs, cast, posts>>

\* Bug: the last vote to arrive wins.
ReplaceVoteLast(h) ==
    /\ h \in voteHandlers
    /\ h.existing # NoVote
    /\ Store(h.msg.to, h.msg.vote)
    /\ AckAndRelay(h)

\* The vote beats the one read at the start: INSERT OR REPLACE.
ReplaceVote(h) ==
    /\ h \in voteHandlers
    /\ h.existing # NoVote
    /\ h.msg.vote.sig < h.existing
    /\ Store(h.msg.to, h.msg.vote)
    /\ AckAndRelay(h)

\* Bug: the losing vote is relayed too.
KeepVoteRelayed(h) ==
    /\ h \in voteHandlers
    /\ h.existing # NoVote
    /\ ~(h.msg.vote.sig < h.existing)
    /\ AckAndRelay(h)
    /\ UNCHANGED votes

\* The vote read at the start wins: answer "known", relay nothing.
KeepVote(h) ==
    /\ h \in voteHandlers
    /\ h.existing # NoVote
    /\ ~(h.msg.vote.sig < h.existing)
    /\ Ack(h.msg.to, h.msg.vote)
    /\ voteHandlers' = voteHandlers \ {h}
    /\ UNCHANGED <<votes, voteMsgs, cast, posts>>

\* Bug: the answer is sent before espo is asked.
FailVoteAcked(h) ==
    /\ Unreliable
    /\ h \in voteHandlers
    /\ Ack(h.msg.to, h.msg.vote)
    /\ voteHandlers' = voteHandlers \ {h}
    /\ UNCHANGED <<votes, voteMsgs, cast, posts>>

\* Bug: the stored vote of an address without tokens is deleted.
FailVoteForgets(h) ==
    /\ Unreliable
    /\ h \in voteHandlers
    /\ votes' = [votes EXCEPT ![h.msg.to][KeyOf(h.msg.vote)] = NoVote]
    /\ voteHandlers' = voteHandlers \ {h}
    /\ UNCHANGED <<voteMsgs, cast, posts, acked>>

\* Espo fails, or the voter holds no token any more.
FailVote(h) ==
    /\ Unreliable
    /\ h \in voteHandlers
    /\ voteHandlers' = voteHandlers \ {h}
    /\ UNCHANGED <<votes, voteMsgs, cast, posts, acked>>

----------------------------------------------------------------------------
\* The process of node n dies and restarts: SQLite keeps its tables, the
\* handlers are gone.  Requests to or from it are lost by LoseVote.
Crash(n) ==
    /\ Unreliable
    /\ voteHandlers' = {h \in voteHandlers : h.msg.to # n}
    /\ propHandlers' = {m \in propHandlers : m.to # n}
    /\ UNCHANGED <<configVars, published, proposals, propMsgs>>
    /\ UNCHANGED <<votes, voteMsgs, cast, posts, acked>>

VoteProgress ==
    \/ \E m \in voteMsgs : KnownVote(m) \/ RefuseVote(m) \/ StartVote(m)
    \/ \E h \in voteHandlers :
          InsertVote(h) \/ ReplaceVote(h) \/ KeepVote(h) \/ FailVote(h)

VoteNext ==
    \/ \E v \in Vote, targets \in SUBSET listing.nodes \ {{}} : CastVote(v, targets)
    \/ VoteProgress
    \/ \E m \in voteMsgs : LoseVote(m)

Next ==
    \/ ConfigNext /\ UNCHANGED <<propVars, voteVars>>
    \/ ProposalNext /\ UNCHANGED <<configVars, voteVars>>
    \/ VoteNext /\ UNCHANGED <<configVars, propVars>>
    \/ \E n \in Nodes : Crash(n)

Spec == Init /\ [][Next]_vars

\* The event loop serves every request that arrived, and a request to espo
\* ends: it is given 20 seconds (espo.ts).
Progress ==
    \/ ProposalProgress /\ UNCHANGED <<configVars, voteVars>>
    \/ VoteProgress /\ UNCHANGED <<configVars, propVars>>

FairSpec == Spec /\ WF_vars(Progress)

----------------------------------------------------------------------------
(* Properties *)

\* Nothing is under way between the nodes, their clients and espo.
Quiet == propMsgs = {} /\ propHandlers = {} /\ voteMsgs = {} /\ voteHandlers = {}

SigsCast(k) == {v.sig : v \in {w \in cast : KeyOf(w) = k}}

\* Every stored vote was signed by its voter, and is on a proposal and a DAO
\* the node has: checked before espo is asked, relied on when the row is
\* written some time later.
StoredVotesValid ==
    \A n \in Nodes, k \in Keys : votes[n][k] # NoVote =>
        /\ votes[n][k] \in SigsCast(k)
        /\ k[1] \in proposals[n]
        /\ dao[n] # "unknown"

\* A node that answered "ok" to a voter stores a vote of that voter.
AckedIsStored ==
    \A n \in Nodes : \A v \in acked[n] : votes[n][KeyOf(v)] # NoVote

\* A voter is never lost to a later step of the node, a crash included.
VotersAreKept ==
    [][\A n \in Nodes, k \in Keys : votes[n][k] # NoVote => votes'[n][k] # NoVote]_vars

AckedSigs(k) == {v.sig : v \in {w \in UNION {acked[n] : n \in Nodes} : KeyOf(w) = k}}

\* routes.ts: "Every node keeps the vote with the lexicographically SMALLEST
\* signature - deterministic regardless of arrival order, so all nodes
\* converge".  Once everything is served, every node stores for each voter
\* the smallest of the signatures that nodes answered "ok" to.
SmallestEverywhere ==
    Quiet => \A n \in Nodes, k \in Keys :
        IF AckedSigs(k) = {}
          THEN votes[n][k] = NoVote
          ELSE /\ votes[n][k] \in AckedSigs(k)
               /\ \A s \in AckedSigs(k) : votes[n][k] <= s

\* relay.ts: a "known" answer "terminates the gossip".
GossipEnds == <>[]Quiet

\* The promise of SmallestVote, kept by every step as long as handlers for
\* one voter and proposal do not overlap at a node (Overlap = FALSE).
Promise == INSTANCE SmallestVote
KeepsThePromise == Promise!Spec

=============================================================================
