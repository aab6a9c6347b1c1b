------------------------- MODULE VoteGossipProofs -------------------------
(***************************************************************************)
(* Theorems about VoteGossip, for any nodes, proposals, voters and         *)
(* signatures.  The last two are what it achieves when handlers of one     *)
(* voter's votes on one proposal never overlap at a node: it implements    *)
(* SmallestVote, and a network that loses nothing and knows its proposals  *)
(* agrees once it is quiet.                                                *)
(***************************************************************************)
EXTENDS VoteGossip, TLAPS

----------------------------------------------------------------------------
(* Type correctness *)

\* A relayed proposal or vote is a request between nodes.
LEMMA PostProposalType ==
    ASSUME NEW s \in Senders, NEW T \in SUBSET Nodes, NEW p \in Proposals
    PROVE  PostProposal(s, T, p) \subseteq PropMsg
BY DEF PostProposal, PropMsg

LEMMA PostVoteType ==
    ASSUME NEW s \in Senders, NEW T \in SUBSET Nodes, NEW v \in Vote
    PROVE  PostVote(s, T, v) \subseteq VoteMsg
BY DEF PostVote, VoteMsg

\* Listed nodes are nodes.
LEMMA ListingType ==
    ASSUME ConfigTypeOK
    PROVE  listing.nodes \in SUBSET Nodes
BY ConfigAssumption DEF ConfigTypeOK

LEMMA ConfigTypeStep ==
    ASSUME ConfigTypeOK, ConfigNext
    PROVE  ConfigTypeOK'
<1>1. ASSUME NEW l \in Listings, Publish(l) PROVE ConfigTypeOK'
  BY <1>1 DEF Publish, ConfigTypeOK
<1>2. ASSUME NEW n \in Nodes, Sync(n) PROVE ConfigTypeOK'
  <2>1. PeersIn(listing, n) \in SUBSET Nodes
    BY ListingType DEF PeersIn
  <2>2. DaoIn(listing) \in DaoStates
    BY DEF DaoIn, DaoStates
  <2> QED BY <1>2, <2>1, <2>2 DEF Sync, ConfigTypeOK
<1> QED BY <1>1, <1>2 DEF ConfigNext

LEMMA ProposalTypeStep ==
    ASSUME ConfigTypeOK, PropTypeOK, ProposalNext
    PROVE  PropTypeOK'
<1> USE DEF PropTypeOK
<1>1. ASSUME NEW p \in Proposals, NEW T \in SUBSET listing.nodes, PublishProposal(p, T)
      PROVE  PropTypeOK'
  <2>1. PostProposal(Client, T, p) \subseteq PropMsg
    BY ListingType, PostProposalType DEF Senders
  <2> QED BY <1>1, <2>1 DEF PublishProposal
<1>2. ASSUME NEW m \in propMsgs, DropProposal(m) PROVE PropTypeOK'
  BY <1>2 DEF DropProposal
<1>3. ASSUME NEW m \in propMsgs, StartProposal(m) PROVE PropTypeOK'
  BY <1>3 DEF StartProposal
<1>4. ASSUME NEW m \in propHandlers, InsertProposal(m) PROVE PropTypeOK'
  <2>1. m.to \in Nodes /\ m.to \in Senders /\ m.proposal \in Proposals
    BY DEF PropMsg, Senders
  <2>2. peers[m.to] \in SUBSET Nodes
    BY <2>1 DEF ConfigTypeOK
  <2>3. PostProposal(m.to, peers[m.to], m.proposal) \subseteq PropMsg
    BY <2>1, <2>2, PostProposalType
  <2> QED BY <1>4, <2>1, <2>3 DEF InsertProposal
<1>5. ASSUME NEW m \in propHandlers, FailProposal(m) PROVE PropTypeOK'
  BY <1>5 DEF FailProposal
<1>6. ASSUME NEW m \in propMsgs, LoseProposal(m) PROVE PropTypeOK'
  BY <1>6 DEF LoseProposal
<1> QED BY <1>1, <1>2, <1>3, <1>4, <1>5, <1>6 DEF ProposalNext, ProposalProgress

LEMMA KeyType ==
    ASSUME NEW v \in Vote
    PROVE  KeyOf(v) \in Keys /\ v.sig \in Sigs
BY DEF Vote, KeyOf, Keys

LEMMA VoteTypeStep ==
    ASSUME ConfigTypeOK, VoteTypeOK, VoteNext
    PROVE  VoteTypeOK'
<1> USE DEF VoteTypeOK
<1>m. \A m \in voteMsgs : m.to \in Nodes /\ m.vote \in Vote
  BY DEF VoteMsg
<1>h. \A h \in voteHandlers : /\ h.msg.to \in Nodes /\ h.msg.to \in Senders
                              /\ h.msg.vote \in Vote
  BY DEF VoteHandler, VoteMsg, Senders
<1>s. \A n \in Nodes : \A v \in Vote : votes[n][KeyOf(v)] \in Sigs \cup {NoVote}
  BY KeyType
<1>a. \A n \in Nodes : \A v \in Vote : Ack(n, v) => acked' \in [Nodes -> SUBSET Vote]
  BY DEF Ack
<1>w. \A n \in Nodes : \A v \in Vote :
         Store(n, v) => votes' \in [Nodes -> [Keys -> Sigs \cup {NoVote}]]
  BY KeyType DEF Store
<1>r. \A h \in voteHandlers : AckAndRelay(h) =>
         /\ voteMsgs' \subseteq VoteMsg
         /\ voteHandlers' \subseteq VoteHandler
         /\ acked' \in [Nodes -> SUBSET Vote]
         /\ UNCHANGED <<cast, posts>>
  <2> TAKE h \in voteHandlers
  <2> HAVE AckAndRelay(h)
  <2>1. peers[h.msg.to] \in SUBSET Nodes
    BY <1>h DEF ConfigTypeOK
  <2>2. PostVote(h.msg.to, peers[h.msg.to], h.msg.vote) \subseteq VoteMsg
    BY <1>h, <2>1, PostVoteType
  <2> QED BY <1>h, <1>a, <2>2 DEF AckAndRelay
<1>1. ASSUME NEW v \in Vote, NEW T \in SUBSET listing.nodes, CastVote(v, T)
      PROVE  VoteTypeOK'
  <2>1. PostVote(Client, T, v) \subseteq VoteMsg
    BY ListingType, PostVoteType DEF Senders
  <2>2. posts' \in 0..MaxPosts
    BY <1>1, VoteAssumption DEF CastVote
  <2> QED BY <1>1, <2>1, <2>2 DEF CastVote
<1>2. ASSUME NEW m \in voteMsgs, KnownVote(m) PROVE VoteTypeOK'
  BY <1>2, <1>m, <1>a DEF KnownVote
<1>3. ASSUME NEW m \in voteMsgs, RefuseVote(m) PROVE VoteTypeOK'
  BY <1>3 DEF RefuseVote
<1>4. ASSUME NEW m \in voteMsgs, StartVote(m) PROVE VoteTypeOK'
  <2>1. StoredFor(m) \in Sigs \cup {NoVote}
    BY <1>m, <1>s DEF StoredFor
  <2>2. [msg |-> m, existing |-> StoredFor(m)] \in VoteHandler
    BY <2>1 DEF VoteHandler
  <2> QED BY <1>4, <2>2 DEF StartVote
<1>5. ASSUME NEW h \in voteHandlers, InsertVote(h) PROVE VoteTypeOK'
  <2>1. votes' \in [Nodes -> [Keys -> Sigs \cup {NoVote}]]
    BY <1>5, <1>h, <1>w DEF InsertVote
  <2> QED BY <1>5, <1>r, <2>1 DEF InsertVote
<1>6. ASSUME NEW h \in voteHandlers, ReplaceVote(h) PROVE VoteTypeOK'
  <2>1. votes' \in [Nodes -> [Keys -> Sigs \cup {NoVote}]]
    BY <1>6, <1>h, <1>w DEF ReplaceVote
  <2> QED BY <1>6, <1>r, <2>1 DEF ReplaceVote
<1>7. ASSUME NEW h \in voteHandlers, KeepVote(h) PROVE VoteTypeOK'
  BY <1>7, <1>h, <1>a DEF KeepVote
<1>8. ASSUME NEW h \in voteHandlers, FailVote(h) PROVE VoteTypeOK'
  BY <1>8 DEF FailVote
<1>9. ASSUME NEW m \in voteMsgs, LoseVote(m) PROVE VoteTypeOK'
  BY <1>9 DEF LoseVote
<1> QED BY <1>1, <1>2, <1>3, <1>4, <1>5, <1>6, <1>7, <1>8, <1>9
        DEF VoteNext, VoteProgress

LEMMA TypeStep ==
    ASSUME TypeOK, [Next]_vars
    PROVE  TypeOK'
<1> USE DEF TypeOK
<1>1. CASE ConfigNext /\ UNCHANGED <<propVars, voteVars>>
  BY <1>1, ConfigTypeStep DEF PropTypeOK, VoteTypeOK, propVars, voteVars
<1>2. CASE ProposalNext /\ UNCHANGED <<configVars, voteVars>>
  BY <1>2, ProposalTypeStep DEF ConfigTypeOK, VoteTypeOK, configVars, voteVars
<1>3. CASE VoteNext /\ UNCHANGED <<configVars, propVars>>
  BY <1>3, VoteTypeStep DEF ConfigTypeOK, PropTypeOK, configVars, propVars
<1>4. ASSUME NEW n \in Nodes, Crash(n) PROVE TypeOK'
  BY <1>4 DEF Crash, ConfigTypeOK, PropTypeOK, VoteTypeOK, configVars
<1>5. CASE UNCHANGED vars
  BY <1>5 DEF ConfigTypeOK, PropTypeOK, VoteTypeOK, vars, configVars, propVars, voteVars
<1> QED BY <1>1, <1>2, <1>3, <1>4, <1>5 DEF Next

\* Every reachable state is well-typed.
THEOREM TypeCorrect == Spec => []TypeOK
<1>1. Init => TypeOK
  <2> SUFFICES ASSUME Init PROVE TypeOK
    OBVIOUS
  <2>1. ConfigTypeOK
    BY ConfigAssumption DEF Init, ConfigInit, ConfigTypeOK, PeersIn, DaoIn, DaoStates
  <2>2. PropTypeOK
    BY ProposalAssumption DEF Init, ProposalInit, PropTypeOK
  <2>3. VoteTypeOK
    BY VoteAssumption DEF Init, VoteInit, VoteTypeOK
  <2> QED BY <2>1, <2>2, <2>3 DEF TypeOK
<1>2. TypeOK /\ [Next]_vars => TypeOK'
  BY TypeStep
<1> QED BY <1>1, <1>2, PTL DEF Spec

----------------------------------------------------------------------------
(* What only grows *)

\* The tables that no step shrinks: proposals, the DAO's row, the votes ever
\* posted and the voters a node stores a vote of.
Grows ==
    /\ \A n \in Nodes : proposals[n] \subseteq proposals'[n]
    /\ \A n \in Nodes : dao[n] # "unknown" => dao'[n] # "unknown"
    /\ cast \subseteq cast'
    /\ \A n \in Nodes, k \in Keys : votes[n][k] # NoVote => votes'[n][k] # NoVote

LEMMA GrowsStep ==
    ASSUME TypeOK, [Next]_vars
    PROVE  Grows
<1> USE DEF TypeOK
<1>1. CASE ConfigNext /\ UNCHANGED <<propVars, voteVars>>
  <2>1. \A n \in Nodes : dao[n] # "unknown" => dao'[n] # "unknown"
    BY <1>1 DEF ConfigNext, Publish, Sync, DaoIn, ConfigTypeOK
  <2> QED BY <1>1, <2>1 DEF Grows, propVars, voteVars
<1>2. CASE ProposalNext /\ UNCHANGED <<configVars, voteVars>>
  <2>1. \A n \in Nodes : proposals[n] \subseteq proposals'[n]
    BY <1>2 DEF ProposalNext, ProposalProgress, PublishProposal, DropProposal, StartProposal,
                InsertProposal, FailProposal, LoseProposal, PropTypeOK
  <2> QED BY <1>2, <2>1 DEF Grows, configVars, voteVars
<1>3. CASE VoteNext /\ UNCHANGED <<configVars, propVars>>
  <2>h. \A h \in voteHandlers : /\ h.msg.to \in Nodes
                                /\ KeyOf(h.msg.vote) \in Keys
                                /\ h.msg.vote.sig \in Sigs
    BY KeyType DEF VoteTypeOK, VoteHandler, VoteMsg
  <2>s. ASSUME NEW h \in voteHandlers, Store(h.msg.to, h.msg.vote)
        PROVE  \A n \in Nodes, k \in Keys : votes[n][k] # NoVote => votes'[n][k] # NoVote
    BY <2>h, <2>s, VoteAssumption DEF Store, VoteTypeOK
  <2>1. CASE \E h \in voteHandlers : InsertVote(h) \/ ReplaceVote(h)
    BY <1>3, <2>1, <2>s DEF InsertVote, ReplaceVote, AckAndRelay, Grows, configVars, propVars
  <2>2. CASE \E h \in voteHandlers : KeepVote(h) \/ FailVote(h)
    BY <1>3, <2>2 DEF KeepVote, FailVote, Grows, configVars, propVars
  <2>3. CASE \E m \in voteMsgs : KnownVote(m) \/ RefuseVote(m) \/ StartVote(m) \/ LoseVote(m)
    BY <1>3, <2>3 DEF KnownVote, RefuseVote, StartVote, LoseVote, Grows, configVars, propVars
  <2>4. CASE \E v \in Vote, T \in SUBSET listing.nodes \ {{}} : CastVote(v, T)
    BY <1>3, <2>4 DEF CastVote, Grows, configVars, propVars
  <2> QED BY <1>3, <2>1, <2>2, <2>3, <2>4 DEF VoteNext, VoteProgress
<1>4. ASSUME NEW n \in Nodes, Crash(n) PROVE Grows
  BY <1>4 DEF Crash, Grows, configVars
<1>5. CASE UNCHANGED vars
  BY <1>5 DEF Grows, vars, configVars, propVars, voteVars
<1> QED BY <1>1, <1>2, <1>3, <1>4, <1>5 DEF Next

\* VotersAreKept: no step, a crash included, makes a node lose a voter.
THEOREM VotersKept == Spec => VotersAreKept
<1>1. TypeOK /\ [Next]_vars =>
        [\A n \in Nodes, k \in Keys : votes[n][k] # NoVote => votes'[n][k] # NoVote]_vars
  BY GrowsStep DEF Grows
<1> QED BY <1>1, TypeCorrect, PTL DEF Spec, VotersAreKept

----------------------------------------------------------------------------
(* Stored and acknowledged votes *)

\* What is true of a vote under way or waiting for espo: the checks made when
\* the handler started still hold, because no step shrinks the tables they
\* looked at.
InFlightValid ==
    /\ \A m \in voteMsgs : m.vote \in cast
    /\ \A h \in voteHandlers :
          /\ h.msg.vote \in cast
          /\ h.msg.vote.proposal \in proposals[h.msg.to]
          /\ dao[h.msg.to] # "unknown"
          /\ h.existing # NoVote => StoredFor(h.msg) # NoVote

\* The inductive invariant behind StoredVotesValid and AckedIsStored.
ValidInv == InFlightValid /\ StoredVotesValid /\ AckedIsStored

LEMMA SigsCastGrows ==
    ASSUME cast \subseteq cast', NEW k
    PROVE  SigsCast(k) \subseteq SigsCast(k)'
BY DEF SigsCast

\* A step that stores no vote, acknowledges none, and adds neither a request
\* nor a handler keeps ValidInv.
LEMMA ValidInvIdle ==
    ASSUME TypeOK, ValidInv, Grows,
           votes' = votes, acked' = acked,
           voteMsgs' \subseteq voteMsgs, voteHandlers' \subseteq voteHandlers
    PROVE  ValidInv'
<1> USE DEF TypeOK, VoteTypeOK
<1>h. \A h \in voteHandlers : h.msg.to \in Nodes
  BY DEF VoteHandler, VoteMsg
<1>1. InFlightValid'
  BY <1>h DEF ValidInv, InFlightValid, Grows, StoredFor
<1>2. StoredVotesValid'
  BY SigsCastGrows DEF ValidInv, StoredVotesValid, Grows
<1>3. AckedIsStored'
  BY DEF ValidInv, AckedIsStored
<1> QED BY <1>1, <1>2, <1>3 DEF ValidInv

\* Storing and acknowledging a vote that was checked keeps ValidInv.
LEMMA ValidInvAccept ==
    ASSUME TypeOK, ValidInv, Grows, UNCHANGED <<proposals, dao, cast>>,
           NEW n \in Nodes, NEW v \in Vote, v \in cast,
           v.proposal \in proposals[n], dao[n] # "unknown",
           UNCHANGED votes \/ Store(n, v),
           votes'[n][KeyOf(v)] # NoVote,
           Ack(n, v),
           voteHandlers' \subseteq voteHandlers,
           voteMsgs' \subseteq voteMsgs \cup {m \in VoteMsg : m.vote = v}
    PROVE  ValidInv'
<1> USE DEF TypeOK, VoteTypeOK
<1>h. \A h \in voteHandlers : h.msg.to \in Nodes /\ KeyOf(h.msg.vote) \in Keys
  BY KeyType DEF VoteHandler, VoteMsg
<1>v. KeyOf(v) \in Keys /\ KeyOf(v)[1] = v.proposal
  BY KeyType DEF KeyOf
<1>1. InFlightValid'
  BY <1>h DEF ValidInv, InFlightValid, Grows, StoredFor
<1>2. StoredVotesValid'
  <2> SUFFICES ASSUME NEW q \in Nodes, NEW k \in Keys, votes'[q][k] # NoVote
               PROVE  votes'[q][k] \in SigsCast(k) /\ k[1] \in proposals[q] /\ dao[q] # "unknown"
    BY DEF StoredVotesValid, SigsCast
  <2>1. CASE votes'[q][k] = votes[q][k]
    BY <2>1 DEF ValidInv, StoredVotesValid
  <2>2. CASE votes'[q][k] # votes[q][k]
    <3>1. q = n /\ k = KeyOf(v) /\ votes'[q][k] = v.sig
      BY <2>2, <1>v DEF Store
    <3> QED BY <3>1, <1>v DEF SigsCast
  <2> QED BY <2>1, <2>2
<1>3. AckedIsStored'
  <2> SUFFICES ASSUME NEW q \in Nodes, NEW w \in acked'[q]
               PROVE  votes'[q][KeyOf(w)] # NoVote
    BY DEF AckedIsStored
  <2>1. CASE w \in acked[q]
    BY <2>1, KeyType DEF ValidInv, AckedIsStored, Grows
  <2>2. CASE q = n /\ w = v
    BY <2>2
  <2> QED BY <2>1, <2>2 DEF Ack
<1> QED BY <1>1, <1>2, <1>3 DEF ValidInv

LEMMA ValidInvVoteStep ==
    ASSUME TypeOK, ValidInv, Grows, VoteNext, UNCHANGED <<configVars, propVars>>
    PROVE  ValidInv'
<1> USE DEF TypeOK, VoteTypeOK
<1>u. UNCHANGED <<proposals, dao>>
  BY DEF configVars, propVars
<1>m. \A m \in voteMsgs : m.to \in Nodes /\ m.vote \in Vote
  BY DEF VoteMsg
<1>h. \A h \in voteHandlers : /\ h.msg \in VoteMsg
                              /\ h.msg.to \in Nodes
                              /\ h.msg.vote \in Vote
                              /\ h.existing \in Sigs \cup {NoVote}
  BY DEF VoteHandler, VoteMsg
<1>s. \A w \in Vote : w.sig \in Sigs /\ w.sig # NoVote /\ KeyOf(w) \in Keys
  BY KeyType, VoteAssumption
<1>i. \A h \in voteHandlers : /\ h.msg.vote \in cast
                              /\ h.msg.vote.proposal \in proposals[h.msg.to]
                              /\ dao[h.msg.to] # "unknown"
                              /\ h.existing # NoVote => StoredFor(h.msg) # NoVote
  BY DEF ValidInv, InFlightValid
<1>p. ASSUME NEW h \in voteHandlers, AckAndRelay(h)
      PROVE  /\ voteMsgs' \subseteq voteMsgs \cup {m \in VoteMsg : m.vote = h.msg.vote}
             /\ Ack(h.msg.to, h.msg.vote)
             /\ voteHandlers' \subseteq voteHandlers
             /\ UNCHANGED cast
  <2>1. h.msg.to \in Senders /\ peers[h.msg.to] \in SUBSET Nodes
    BY <1>h DEF Senders, ConfigTypeOK
  <2>2. PostVote(h.msg.to, peers[h.msg.to], h.msg.vote) \subseteq {m \in VoteMsg : m.vote = h.msg.vote}
    BY <1>h, <2>1, PostVoteType DEF PostVote
  <2> QED BY <1>p, <2>2 DEF AckAndRelay
<1>1. ASSUME NEW v \in Vote, NEW T \in SUBSET listing.nodes, CastVote(v, T)
      PROVE  ValidInv'
  <2>1. InFlightValid'
    BY <1>1, <1>u, <1>h, <1>i DEF CastVote, PostVote, ValidInv, InFlightValid, StoredFor
  <2>2. StoredVotesValid'
    BY <1>1, <1>u, SigsCastGrows DEF CastVote, ValidInv, StoredVotesValid
  <2>3. AckedIsStored'
    BY <1>1 DEF CastVote, ValidInv, AckedIsStored
  <2> QED BY <2>1, <2>2, <2>3 DEF ValidInv
<1>2. ASSUME NEW m \in voteMsgs, KnownVote(m) PROVE ValidInv'
  <2>1. StoredFor(m) \in Sigs /\ StoredFor(m) # NoVote
    BY <1>2, <1>m, <1>s DEF KnownVote
  <2>2. /\ m.vote \in cast
        /\ m.vote.proposal \in proposals[m.to]
        /\ dao[m.to] # "unknown"
    BY <2>1, <1>m, <1>s DEF ValidInv, InFlightValid, StoredVotesValid, StoredFor, KeyOf
  <2>3. votes'[m.to][KeyOf(m.vote)] # NoVote
    BY <1>2, <2>1 DEF KnownVote, StoredFor
  <2> QED BY <1>2, <1>u, <1>m, <2>2, <2>3, ValidInvAccept DEF KnownVote
<1>3. ASSUME NEW m \in voteMsgs, RefuseVote(m) \/ LoseVote(m) PROVE ValidInv'
  BY <1>3, ValidInvIdle DEF RefuseVote, LoseVote
<1>4. ASSUME NEW m \in voteMsgs, StartVote(m) PROVE ValidInv'
  <2>1. InFlightValid'
    BY <1>4, <1>u, <1>i, <1>m DEF StartVote, ValidInv, InFlightValid, Admissible, StoredFor
  <2>2. StoredVotesValid'
    BY <1>4, <1>u, SigsCastGrows DEF StartVote, ValidInv, StoredVotesValid
  <2>3. AckedIsStored'
    BY <1>4 DEF StartVote, ValidInv, AckedIsStored
  <2> QED BY <2>1, <2>2, <2>3 DEF ValidInv
<1>5. ASSUME NEW h \in voteHandlers, InsertVote(h) PROVE ValidInv'
  <2>1. UNCHANGED votes \/ Store(h.msg.to, h.msg.vote)
    BY <1>5 DEF InsertVote
  <2>2. votes'[h.msg.to][KeyOf(h.msg.vote)] # NoVote
    BY <1>5, <1>h, <1>s DEF InsertVote, Store, StoredFor
  <2> QED BY <1>5, <1>u, <1>h, <1>i, <1>p, <2>1, <2>2, ValidInvAccept DEF InsertVote
<1>6. ASSUME NEW h \in voteHandlers, ReplaceVote(h) PROVE ValidInv'
  <2>2. votes'[h.msg.to][KeyOf(h.msg.vote)] # NoVote
    BY <1>6, <1>h, <1>s DEF ReplaceVote, Store
  <2> QED BY <1>6, <1>u, <1>h, <1>i, <1>p, <2>2, ValidInvAccept DEF ReplaceVote
<1>7. ASSUME NEW h \in voteHandlers, KeepVote(h) PROVE ValidInv'
  <2>2. votes'[h.msg.to][KeyOf(h.msg.vote)] # NoVote
    BY <1>7, <1>i DEF KeepVote, StoredFor
  <2> QED BY <1>7, <1>u, <1>h, <1>i, <2>2, ValidInvAccept DEF KeepVote
<1>8. ASSUME NEW h \in voteHandlers, FailVote(h) PROVE ValidInv'
  BY <1>8, ValidInvIdle DEF FailVote
<1> QED BY <1>1, <1>2, <1>3, <1>4, <1>5, <1>6, <1>7, <1>8 DEF VoteNext, VoteProgress

THEOREM ValidInvariant == Spec => []ValidInv
<1>1. Init => ValidInv
  BY DEF Init, VoteInit, ValidInv, InFlightValid, StoredVotesValid, AckedIsStored
<1>2. TypeOK /\ ValidInv /\ [Next]_vars => ValidInv'
  <2> SUFFICES ASSUME TypeOK, ValidInv, [Next]_vars PROVE ValidInv'
    OBVIOUS
  <2>g. Grows
    BY GrowsStep
  <2>1. CASE ConfigNext /\ UNCHANGED <<propVars, voteVars>>
    BY <2>1, <2>g, ValidInvIdle DEF voteVars
  <2>2. CASE ProposalNext /\ UNCHANGED <<configVars, voteVars>>
    BY <2>2, <2>g, ValidInvIdle DEF voteVars
  <2>3. CASE VoteNext /\ UNCHANGED <<configVars, propVars>>
    BY <2>3, <2>g, ValidInvVoteStep
  <2>4. ASSUME NEW n \in Nodes, Crash(n) PROVE ValidInv'
    BY <2>4, <2>g, ValidInvIdle DEF Crash
  <2>5. CASE UNCHANGED vars
    BY <2>5, <2>g, ValidInvIdle DEF vars, voteVars
  <2> QED BY <2>1, <2>2, <2>3, <2>4, <2>5 DEF Next
<1> QED BY <1>1, <1>2, TypeCorrect, PTL DEF Spec

\* StoredVotesValid: a row of the votes table is a vote its voter posted, on a
\* proposal and a DAO the node has.
THEOREM StoredValid == Spec => []StoredVotesValid
<1>1. ValidInv => StoredVotesValid
  BY DEF ValidInv
<1> QED BY <1>1, ValidInvariant, PTL

\* AckedIsStored: whoever was answered "ok" has a vote at that node.
THEOREM AckedStored == Spec => []AckedIsStored
<1>1. ValidInv => AckedIsStored
  BY DEF ValidInv
<1> QED BY <1>1, ValidInvariant, PTL

----------------------------------------------------------------------------
(* The refinement *)

\* A handler still sees what it read, because no other handler may store a
\* vote for its key in between.
SerialInv ==
    /\ \A h \in voteHandlers : h.existing = StoredFor(h.msg)
    /\ \A g, h \in voteHandlers : SameKey(g.msg, h) => g = h

LEMMA HandlerType ==
    ASSUME TypeOK
    PROVE  \A h \in voteHandlers :
              /\ h.msg \in VoteMsg
              /\ h.msg.to \in Nodes
              /\ h.msg.to \in Senders
              /\ h.msg.vote \in Vote
              /\ KeyOf(h.msg.vote) \in Keys
              /\ h.msg.vote.sig \in Nat
              /\ h.msg.vote.sig # NoVote
              /\ h.existing \in Sigs \cup {NoVote}
BY KeyType, VoteAssumption DEF TypeOK, VoteTypeOK, VoteHandler, VoteMsg, Senders

\* A step that stores nothing and adds no handler keeps SerialInv.
LEMMA SerialIdle ==
    ASSUME SerialInv, votes' = votes, voteHandlers' \subseteq voteHandlers
    PROVE  SerialInv'
BY DEF SerialInv, StoredFor, SameKey

\* A handler that stores its vote and ends keeps SerialInv: it was the only
\* one of its key.
LEMMA SerialStore ==
    ASSUME TypeOK, SerialInv, NEW h \in voteHandlers,
           Store(h.msg.to, h.msg.vote), voteHandlers' = voteHandlers \ {h}
    PROVE  SerialInv'
<1>1. ASSUME NEW g \in voteHandlers, g # h
      PROVE  votes'[g.msg.to][KeyOf(g.msg.vote)] = StoredFor(g.msg)
  <2>1. ~(h.msg.to = g.msg.to /\ KeyOf(h.msg.vote) = KeyOf(g.msg.vote))
    BY <1>1 DEF SerialInv, SameKey
  <2>2. /\ g.msg.to \in Nodes /\ KeyOf(g.msg.vote) \in Keys
        /\ h.msg.to \in Nodes /\ KeyOf(h.msg.vote) \in Keys
    BY HandlerType
  <2> QED BY <2>1, <2>2 DEF Store, StoredFor, TypeOK, VoteTypeOK
<1> QED BY <1>1 DEF SerialInv, StoredFor, SameKey

LEMMA SerialStep ==
    ASSUME ~Overlap, TypeOK, SerialInv, [Next]_vars
    PROVE  SerialInv'
<1>1. CASE ConfigNext /\ UNCHANGED <<propVars, voteVars>>
  BY <1>1, SerialIdle DEF voteVars
<1>2. CASE ProposalNext /\ UNCHANGED <<configVars, voteVars>>
  BY <1>2, SerialIdle DEF voteVars
<1>3. CASE VoteNext
  <2>1. CASE \E v \in Vote, T \in SUBSET listing.nodes \ {{}} : CastVote(v, T)
    BY <2>1, SerialIdle DEF CastVote
  <2>2. CASE \E m \in voteMsgs : KnownVote(m) \/ RefuseVote(m) \/ LoseVote(m)
    BY <2>2, SerialIdle DEF KnownVote, RefuseVote, LoseVote
  <2>3. ASSUME NEW m \in voteMsgs, StartVote(m) PROVE SerialInv'
    BY <2>3 DEF StartVote, SerialInv, SameKey, StoredFor
  <2>4. ASSUME NEW h \in voteHandlers, InsertVote(h) PROVE SerialInv'
    <3>1. Store(h.msg.to, h.msg.vote) /\ voteHandlers' = voteHandlers \ {h}
      BY <2>4 DEF InsertVote, AckAndRelay, SerialInv
    <3> QED BY <3>1, SerialStore
  <2>5. ASSUME NEW h \in voteHandlers, ReplaceVote(h) PROVE SerialInv'
    BY <2>5, SerialStore DEF ReplaceVote, AckAndRelay
  <2>6. CASE \E h \in voteHandlers : KeepVote(h) \/ FailVote(h)
    BY <2>6, SerialIdle DEF KeepVote, FailVote
  <2> QED BY <1>3, <2>1, <2>2, <2>3, <2>4, <2>5, <2>6 DEF VoteNext, VoteProgress
<1>4. ASSUME NEW n \in Nodes, Crash(n) PROVE SerialInv'
  BY <1>4, SerialIdle DEF Crash
<1>5. CASE UNCHANGED vars
  BY <1>5, SerialIdle DEF vars, voteVars
<1> QED BY <1>1, <1>2, <1>3, <1>4, <1>5 DEF Next

\* What a step does to the stored and acknowledged votes: nothing, or one
\* node merges one posted vote by taking the smaller signature.
Merges(n, v) ==
    /\ v \in cast
    /\ votes' = [votes EXCEPT ![n][KeyOf(v)] = Promise!Smaller(v.sig, @)]
    /\ Ack(n, v)
    /\ UNCHANGED cast

LEMMA StoresSame ==
    ASSUME TypeOK, NEW n \in Nodes, NEW k \in Keys
    PROVE  [votes EXCEPT ![n][k] = votes[n][k]] = votes
BY DEF TypeOK, VoteTypeOK

LEMMA HandlerMerges ==
    ASSUME TypeOK, ValidInv, SerialInv, NEW h \in voteHandlers,
           InsertVote(h) \/ ReplaceVote(h) \/ KeepVote(h)
    PROVE  Merges(h.msg.to, h.msg.vote)
<1> DEFINE n == h.msg.to
           v == h.msg.vote
           k == KeyOf(v)
<1>t. n \in Nodes /\ k \in Keys /\ v \in Vote /\ v.sig \in Nat
  BY HandlerType
<1>e. h.existing = votes[n][k] /\ v \in cast
  BY DEF SerialInv, StoredFor, ValidInv, InFlightValid
<1>a. Ack(n, v) /\ UNCHANGED cast
  BY DEF InsertVote, ReplaceVote, KeepVote, AckAndRelay
<1>1. CASE InsertVote(h)
  <2>1. Store(n, v) /\ Promise!Smaller(v.sig, votes[n][k]) = v.sig
    BY <1>1, <1>e DEF InsertVote, StoredFor, Promise!Smaller
  <2> QED BY <2>1, <1>e, <1>a, <1>t DEF Merges, Store, TypeOK, VoteTypeOK
<1>2. CASE ReplaceVote(h)
  <2>1. Store(n, v) /\ Promise!Smaller(v.sig, votes[n][k]) = v.sig
    BY <1>2, <1>e DEF ReplaceVote, Promise!Smaller
  <2> QED BY <2>1, <1>e, <1>a, <1>t DEF Merges, Store, TypeOK, VoteTypeOK
<1>3. CASE KeepVote(h)
  <2>1. votes' = votes /\ Promise!Smaller(v.sig, votes[n][k]) = votes[n][k]
    BY <1>3, <1>e DEF KeepVote, Promise!Smaller
  <2> QED BY <2>1, <1>e, <1>a, <1>t, StoresSame DEF Merges, TypeOK, VoteTypeOK
<1> QED BY <1>1, <1>2, <1>3

LEMMA KnownMerges ==
    ASSUME TypeOK, ValidInv, NEW m \in voteMsgs, KnownVote(m)
    PROVE  Merges(m.to, m.vote)
<1>1. m.to \in Nodes /\ KeyOf(m.vote) \in Keys /\ m.vote.sig \in Nat /\ m.vote \in cast
  BY KeyType, VoteAssumption
     DEF TypeOK, VoteTypeOK, VoteMsg, ValidInv, InFlightValid
<1>2. /\ votes' = votes
      /\ Promise!Smaller(m.vote.sig, votes[m.to][KeyOf(m.vote)]) = votes[m.to][KeyOf(m.vote)]
  BY <1>1 DEF KnownVote, StoredFor, Promise!Smaller
<1> QED BY <1>1, <1>2, StoresSame DEF KnownVote, Merges, TypeOK, VoteTypeOK

\* Every step casts a vote, merges one, or leaves what SmallestVote sees.
LEMMA StepMerges ==
    ASSUME TypeOK, ValidInv, SerialInv, [Next]_vars
    PROVE  \/ \E v \in Vote : cast' = cast \cup {v} /\ UNCHANGED <<votes, acked>>
           \/ \E n \in Nodes, v \in Vote : Merges(n, v)
           \/ UNCHANGED <<votes, cast, acked>>
<1>1. CASE VoteNext
  <2>1. CASE \E v \in Vote, T \in SUBSET listing.nodes \ {{}} : CastVote(v, T)
    BY <2>1 DEF CastVote
  <2>2. ASSUME NEW m \in voteMsgs, KnownVote(m)
        PROVE  \E n \in Nodes, v \in Vote : Merges(n, v)
    BY <2>2, KnownMerges DEF TypeOK, VoteTypeOK, VoteMsg
  <2>3. CASE \E m \in voteMsgs : RefuseVote(m) \/ StartVote(m) \/ LoseVote(m)
    BY <2>3 DEF RefuseVote, StartVote, LoseVote
  <2>4. ASSUME NEW h \in voteHandlers, InsertVote(h) \/ ReplaceVote(h) \/ KeepVote(h)
        PROVE  \E n \in Nodes, v \in Vote : Merges(n, v)
    BY <2>4, HandlerMerges, HandlerType
  <2>5. CASE \E h \in voteHandlers : FailVote(h)
    BY <2>5 DEF FailVote
  <2> QED BY <1>1, <2>1, <2>2, <2>3, <2>4, <2>5 DEF VoteNext, VoteProgress
<1>2. CASE ~VoteNext
  BY <1>2 DEF Next, vars, voteVars, Crash
<1> QED BY <1>1, <1>2

THEOREM SerialInvariant ==
    ASSUME ~Overlap
    PROVE  Spec => []SerialInv
<1>1. Init => SerialInv
  BY DEF Init, VoteInit, SerialInv
<1>2. TypeOK /\ SerialInv /\ [Next]_vars => SerialInv'
  BY SerialStep
<1> QED BY <1>1, <1>2, TypeCorrect, PTL DEF Spec

\* KeepsThePromise: without overlapping handlers the votes route implements
\* SmallestVote, whatever is lost and whoever crashes.
THEOREM PromiseKept ==
    ASSUME ~Overlap
    PROVE  Spec => KeepsThePromise
<1>1. Init => Promise!Init
  BY DEF Init, VoteInit, Promise!Init, Keys
<1>2. TypeOK /\ ValidInv /\ SerialInv /\ [Next]_vars => [Promise!Next]_(Promise!vars)
  <2> SUFFICES ASSUME TypeOK, ValidInv, SerialInv, [Next]_vars
               PROVE  [Promise!Next]_(Promise!vars)
    OBVIOUS
  <2>1. ASSUME NEW v \in Vote, cast' = cast \cup {v}, UNCHANGED <<votes, acked>>
        PROVE  Promise!Next
    BY <2>1 DEF Promise!Next, Promise!Cast, Promise!Vote, Vote
  <2>2. ASSUME NEW n \in Nodes, NEW v \in Vote, Merges(n, v) PROVE Promise!Next
    BY <2>2 DEF Merges, Ack, Promise!Next, Promise!Accept, Promise!Vote, Vote,
                KeyOf, Promise!KeyOf
  <2> QED BY <2>1, <2>2, StepMerges DEF Promise!vars
<1> QED BY <1>1, <1>2, TypeCorrect, ValidInvariant, SerialInvariant, PTL
        DEF Spec, KeepsThePromise, Promise!Spec

\* Node n stores a vote for k, smaller than the one it had.
News(n, k) == votes'[n][k] # NoVote /\ (votes[n][k] # NoVote => votes'[n][k] < votes[n][k])

\* Unless a client posts, a step sends votes only in the name of a node that
\* had news.
RelaysOnlyNews ==
    [][\/ posts' # posts
       \/ voteMsgs' \subseteq voteMsgs
       \/ \E n \in Nodes, k \in Keys :
             /\ News(n, k)
             /\ \A m \in voteMsgs' \ voteMsgs :
                   m.from = n /\ KeyOf(m.vote) = k /\ m.vote.sig = votes'[n][k]]_vars

LEMMA StoringIsNews ==
    ASSUME TypeOK, NEW h \in voteHandlers, Store(h.msg.to, h.msg.vote), AckAndRelay(h),
           StoredFor(h.msg) # NoVote => h.msg.vote.sig < StoredFor(h.msg)
    PROVE  \E n \in Nodes, k \in Keys :
              /\ News(n, k)
              /\ \A m \in voteMsgs' \ voteMsgs :
                    m.from = n /\ KeyOf(m.vote) = k /\ m.vote.sig = votes'[n][k]
<1> DEFINE n == h.msg.to
           v == h.msg.vote
<1>1. n \in Nodes /\ v \in Vote /\ KeyOf(v) \in Keys /\ v.sig \in Sigs /\ v.sig # NoVote
  BY HandlerType, KeyType, VoteAssumption
<1>2. votes'[n][KeyOf(v)] = v.sig
  BY <1>1 DEF Store, TypeOK, VoteTypeOK
<1>3. News(n, KeyOf(v))
  BY <1>1, <1>2 DEF News, StoredFor
<1>4. \A m \in voteMsgs' \ voteMsgs : m.from = n /\ m.vote = v
  BY DEF AckAndRelay, PostVote
<1> QED BY <1>1, <1>2, <1>3, <1>4

\* relay.ts: a "known" answer "terminates the gossip".  As long as handlers do
\* not overlap a node relays a vote only when it puts it in the place of a
\* larger one or of none: a finite number of times.
THEOREM RelaysAreNews ==
    ASSUME ~Overlap
    PROVE  Spec => RelaysOnlyNews
<1> DEFINE Paid == \/ posts' # posts
                   \/ voteMsgs' \subseteq voteMsgs
                   \/ \E n \in Nodes, k \in Keys :
                         /\ News(n, k)
                         /\ \A m \in voteMsgs' \ voteMsgs :
                               m.from = n /\ KeyOf(m.vote) = k /\ m.vote.sig = votes'[n][k]
<1>1. TypeOK /\ SerialInv /\ [Next]_vars => [Paid]_vars
  <2> SUFFICES ASSUME TypeOK, SerialInv, Next PROVE Paid
    OBVIOUS
  <2>1. ASSUME NEW h \in voteHandlers, InsertVote(h) PROVE Paid
    <3>1. StoredFor(h.msg) = NoVote
      BY <2>1 DEF SerialInv, InsertVote
    <3> QED BY <2>1, <3>1, StoringIsNews DEF InsertVote
  <2>2. ASSUME NEW h \in voteHandlers, ReplaceVote(h) PROVE Paid
    <3>1. h.msg.vote.sig < StoredFor(h.msg)
      BY <2>2 DEF SerialInv, ReplaceVote
    <3> QED BY <2>2, <3>1, StoringIsNews DEF ReplaceVote
  <2>3. ASSUME NEW v \in Vote, NEW targets \in SUBSET Nodes, CastVote(v, targets) PROVE Paid
    BY <2>3 DEF CastVote, TypeOK, VoteTypeOK
  <2>4. \/ voteMsgs' \subseteq voteMsgs
        \/ \E h \in voteHandlers : InsertVote(h) \/ ReplaceVote(h)
        \/ \E v \in Vote, targets \in SUBSET listing.nodes : CastVote(v, targets)
    BY DEF Next, voteVars, Crash, VoteNext, VoteProgress, LoseVote, KnownVote, RefuseVote,
           StartVote, KeepVote, FailVote
  <2>5. listing.nodes \in SUBSET Nodes
    BY ListingType DEF TypeOK
  <2> HIDE DEF Paid
  <2>6. CASE voteMsgs' \subseteq voteMsgs
    BY <2>6 DEF Paid
  <2> QED BY <2>1, <2>2, <2>3, <2>4, <2>5, <2>6
<1> QED BY <1>1, TypeCorrect, SerialInvariant, PTL DEF Spec, RelaysOnlyNews

----------------------------------------------------------------------------
(* Convergence *)

\* One configuration from start to end, every node listed and synced, every
\* proposal known to every node: what is left is the gossip of votes.
Settled ==
    /\ Listings = {[nodes |-> Nodes, enabled |-> TRUE]}
    /\ Synced = Nodes
    /\ Seeded = Proposals

SettledInv ==
    \A n \in Nodes :
        /\ peers[n] = Nodes \ {n}
        /\ dao[n] = "enabled"
        /\ proposals[n] = Proposals

THEOREM SettledInvariant ==
    ASSUME Settled
    PROVE  Spec => []SettledInv
<1>1. Init => SettledInv
  <2>1. InitListing = [nodes |-> Nodes, enabled |-> TRUE]
    BY ConfigAssumption DEF Settled
  <2>2. \A n \in Nodes : PeersIn(InitListing, n) = Nodes \ {n} /\ DaoIn(InitListing) = "enabled"
    BY <2>1 DEF PeersIn, DaoIn
  <2> QED BY <2>2 DEF Settled, Init, ConfigInit, ProposalInit, SettledInv
<1>2. TypeOK /\ SettledInv /\ [Next]_vars => SettledInv'
  <2> SUFFICES ASSUME TypeOK, SettledInv, [Next]_vars PROVE SettledInv'
    OBVIOUS
  <2>1. \A n \in Nodes : proposals'[n] = Proposals
    <3> TAKE n \in Nodes
    <3>1. proposals[n] = Proposals /\ proposals[n] \subseteq proposals'[n]
      BY GrowsStep DEF Grows, SettledInv
    <3>2. proposals'[n] \subseteq Proposals
      BY TypeStep DEF TypeOK, PropTypeOK
    <3> QED BY <3>1, <3>2
  <2>2. \A n \in Nodes : peers'[n] = Nodes \ {n} /\ dao'[n] = "enabled"
    <3>1. CASE \E q \in Nodes : Sync(q)
      BY <3>1 DEF Sync, SettledInv, TypeOK, ConfigTypeOK, Settled, PeersIn, DaoIn
    <3>2. CASE UNCHANGED <<peers, dao>>
      BY <3>2 DEF SettledInv
    <3>3. (\E q \in Nodes : Sync(q)) \/ UNCHANGED <<peers, dao>>
      BY DEF Next, ConfigNext, Publish, Crash, vars, configVars
    <3> QED BY <3>1, <3>2, <3>3
  <2> QED BY <2>1, <2>2 DEF SettledInv
<1> QED BY <1>1, <1>2, TypeCorrect, PTL DEF Spec

\* Each node keeps the smallest of what it acknowledged.
SmallestAcked ==
    \A n \in Nodes, k \in Keys :
        /\ \A v \in acked[n] : KeyOf(v) = k => votes[n][k] # NoVote /\ votes[n][k] <= v.sig
        /\ votes[n][k] # NoVote => \E v \in acked[n] : KeyOf(v) = k /\ v.sig = votes[n][k]

\* Node n stores for k a signature no larger than s, or a vote that will make
\* it so is on its way.
Reached(n, k, s) ==
    \/ votes[n][k] # NoVote /\ votes[n][k] <= s
    \/ \E m \in voteMsgs : m.to = n /\ KeyOf(m.vote) = k /\ m.vote.sig <= s
    \/ \E h \in voteHandlers :
          h.msg.to = n /\ KeyOf(h.msg.vote) = k /\ h.msg.vote.sig <= s

\* What one node stores reaches every other.
Spreading ==
    \A q, n \in Nodes, k \in Keys :
        votes[q][k] # NoVote => Reached(n, k, votes[q][k])

\* What a merge does to the table of votes.
LEMMA MergeLowers ==
    ASSUME TypeOK, NEW n \in Nodes, NEW v \in Vote, Merges(n, v)
    PROVE  /\ votes'[n][KeyOf(v)] # NoVote
           /\ votes'[n][KeyOf(v)] <= v.sig
           /\ votes'[n][KeyOf(v)] = v.sig \/ votes'[n][KeyOf(v)] = votes[n][KeyOf(v)]
           /\ \A q \in Nodes, k \in Keys : q # n \/ k # KeyOf(v) => votes'[q][k] = votes[q][k]
           /\ \A q \in Nodes, k \in Keys :
                 votes[q][k] # NoVote => votes'[q][k] # NoVote /\ votes'[q][k] <= votes[q][k]
<1> DEFINE k == KeyOf(v)
<1>1. k \in Keys /\ v.sig \in Nat /\ v.sig # NoVote
  BY KeyType, VoteAssumption
<1>2. \A q \in Nodes, j \in Keys : votes[q][j] # NoVote => votes[q][j] \in Nat
  BY VoteAssumption DEF TypeOK, VoteTypeOK
<1>3. /\ votes'[n][k] = Promise!Smaller(v.sig, votes[n][k])
      /\ \A q \in Nodes, j \in Keys : q # n \/ j # k => votes'[q][j] = votes[q][j]
  BY <1>1 DEF Merges, TypeOK, VoteTypeOK
<1>4. /\ votes'[n][k] # NoVote /\ votes'[n][k] <= v.sig
      /\ votes[n][k] # NoVote => votes'[n][k] <= votes[n][k]
      /\ votes'[n][k] = v.sig \/ votes'[n][k] = votes[n][k]
  BY <1>1, <1>2, <1>3 DEF Promise!Smaller
<1>5. ASSUME NEW q \in Nodes, NEW j \in Keys, votes[q][j] # NoVote
      PROVE  votes'[q][j] # NoVote /\ votes'[q][j] <= votes[q][j]
  BY <1>2, <1>3, <1>4, <1>5
<1> QED BY <1>3, <1>4, <1>5

LEMMA SmallestAckedStep ==
    ASSUME TypeOK, ValidInv, SerialInv, SmallestAcked, [Next]_vars
    PROVE  SmallestAcked'
<1>1. CASE UNCHANGED <<votes, acked>>
  BY <1>1 DEF SmallestAcked
<1>2. ASSUME NEW n \in Nodes, NEW v \in Vote, Merges(n, v) PROVE SmallestAcked'
  <2> DEFINE k == KeyOf(v)
  <2>t. k \in Keys
    BY KeyType
  <2>a. /\ acked'[n] = acked[n] \cup {v}
        /\ \A q \in Nodes \ {n} : acked'[q] = acked[q]
    BY <1>2 DEF Merges, Ack, TypeOK, VoteTypeOK
  <2>m. /\ votes'[n][k] # NoVote /\ votes'[n][k] <= v.sig
        /\ votes'[n][k] = v.sig \/ votes'[n][k] = votes[n][k]
        /\ votes[n][k] # NoVote => votes'[n][k] <= votes[n][k]
        /\ \A q \in Nodes, j \in Keys : q # n \/ j # k => votes'[q][j] = votes[q][j]
    BY <1>2, <2>t, MergeLowers
  <2>n. \A q \in Nodes, j \in Keys : votes'[q][j] # NoVote => votes'[q][j] \in Nat
    BY TypeStep, VoteAssumption DEF TypeOK, VoteTypeOK
  <2> SUFFICES ASSUME NEW q \in Nodes, NEW j \in Keys
               PROVE  /\ \A w \in acked'[q] : KeyOf(w) = j =>
                            votes'[q][j] # NoVote /\ votes'[q][j] <= w.sig
                      /\ votes'[q][j] # NoVote =>
                            \E w \in acked'[q] : KeyOf(w) = j /\ w.sig = votes'[q][j]
    BY DEF SmallestAcked
  <2>1. CASE q = n /\ j = k
    <3>1. ASSUME NEW w \in acked[n], KeyOf(w) = k PROVE votes'[n][k] <= w.sig
      <4>1. votes[n][k] # NoVote /\ votes[n][k] <= w.sig
        BY <3>1, <2>t DEF SmallestAcked
      <4>2. w.sig \in Nat /\ votes[n][k] \in Nat
        BY <4>1, <2>t, KeyType, VoteAssumption DEF TypeOK, VoteTypeOK
      <4> QED BY <4>1, <4>2, <2>m, <2>n, <2>t
    <3>2. \E w \in acked'[n] : KeyOf(w) = k /\ w.sig = votes'[n][k]
      <4>1. CASE votes'[n][k] = v.sig
        BY <4>1, <2>a
      <4>2. CASE votes'[n][k] = votes[n][k]
        BY <4>2, <2>a, <2>m, <2>t DEF SmallestAcked
      <4> QED BY <4>1, <4>2, <2>m
    <3> QED BY <2>1, <2>a, <2>m, <3>1, <3>2
  <2>2. CASE q # n
    BY <2>2, <2>a, <2>m DEF SmallestAcked
  <2>3. CASE q = n /\ j # k
    <3>1. votes'[n][j] = votes[n][j]
      BY <2>3, <2>m
    <3> QED BY <3>1, <2>3, <2>a DEF SmallestAcked
  <2> QED BY <2>1, <2>2, <2>3
<1> QED BY <1>1, <1>2, StepMerges

\* Whatever is on its way to n arrives: nothing is lost or refused.
LEMMA ReachedKept ==
    ASSUME ~Unreliable, TypeOK, ValidInv, SerialInv, SettledInv, [Next]_vars,
           NEW n \in Nodes, NEW k \in Keys, NEW s \in Nat, Reached(n, k, s)
    PROVE  Reached(n, k, s)'
<1>t. \A q \in Nodes, j \in Keys : votes[q][j] # NoVote => votes[q][j] \in Nat
  BY VoteAssumption DEF TypeOK, VoteTypeOK
<1>u. \A q \in Nodes, j \in Keys : votes'[q][j] # NoVote => votes'[q][j] \in Nat
  BY TypeStep, VoteAssumption DEF TypeOK, VoteTypeOK
<1>v. \A v \in Vote : v.sig \in Nat
  BY KeyType, VoteAssumption
<1>m. \A m \in voteMsgs : m.to \in Nodes /\ m.vote \in Vote
  BY DEF TypeOK, VoteTypeOK, VoteMsg
<1>1. CASE votes[n][k] # NoVote /\ votes[n][k] <= s
  <2>1. votes'[n][k] # NoVote /\ votes'[n][k] <= votes[n][k]
    BY <1>1, <1>t, StepMerges, MergeLowers
  <2> QED BY <1>1, <2>1, <1>t, <1>u DEF Reached
<1>2. ASSUME NEW m \in voteMsgs, m.to = n, KeyOf(m.vote) = k, m.vote.sig <= s
      PROVE  Reached(n, k, s)'
  <2>1. CASE m \in voteMsgs'
    BY <2>1, <1>2 DEF Reached
  <2>2. CASE KnownVote(m)
    BY <2>2, <1>2, <1>v, <1>m, VoteAssumption, KeyType DEF KnownVote, StoredFor, Reached
  <2>3. CASE StartVote(m)
    <3> DEFINE h == [msg |-> m, existing |-> StoredFor(m)]
    <3>1. h \in voteHandlers' /\ h.msg = m
      BY <2>3 DEF StartVote
    <3> HIDE DEF h
    <3> QED BY <3>1, <1>2 DEF Reached
  <2>4. ~RefuseVote(m)
    BY <1>m DEF RefuseVote, Admissible, SettledInv, Vote
  <2>5. m \in voteMsgs' \/ KnownVote(m) \/ StartVote(m) \/ RefuseVote(m)
    BY DEF Next, vars, voteVars, Crash, VoteNext, VoteProgress, CastVote, LoseVote,
           KnownVote, RefuseVote, StartVote, InsertVote, ReplaceVote, KeepVote, FailVote,
           AckAndRelay
  <2> QED BY <2>1, <2>2, <2>3, <2>4, <2>5
<1>3. ASSUME NEW h \in voteHandlers, h.msg.to = n, KeyOf(h.msg.vote) = k,
             h.msg.vote.sig <= s
      PROVE  Reached(n, k, s)'
  <2>1. CASE h \in voteHandlers'
    BY <2>1, <1>3 DEF Reached
  <2>2. CASE InsertVote(h) \/ ReplaceVote(h) \/ KeepVote(h)
    <3>1. h.msg.vote \in Vote /\ h.msg.vote.sig \in Nat
      BY HandlerType
    <3>2. votes'[n][k] # NoVote /\ votes'[n][k] <= h.msg.vote.sig
      BY <2>2, <1>3, <3>1, HandlerMerges, MergeLowers
    <3> QED BY <3>1, <3>2, <1>3, <1>u DEF Reached
  <2>3. h \in voteHandlers' \/ InsertVote(h) \/ ReplaceVote(h) \/ KeepVote(h)
    BY DEF Next, vars, voteVars, Crash, VoteNext, VoteProgress, CastVote, LoseVote,
           KnownVote, RefuseVote, StartVote, InsertVote, ReplaceVote, KeepVote, FailVote,
           AckAndRelay
  <2> QED BY <2>1, <2>2, <2>3
<1> QED BY <1>1, <1>2, <1>3 DEF Reached

\* A signature that appears in a node's table is relayed to every other node.
LEMMA NewIsRelayed ==
    ASSUME TypeOK, SettledInv, [Next]_vars,
           NEW q \in Nodes, NEW k \in Keys, votes'[q][k] # votes[q][k]
    PROVE  /\ votes'[q][k] \in Nat
           /\ \A n \in Nodes \ {q} : \E m \in voteMsgs' :
                 m.to = n /\ KeyOf(m.vote) = k /\ m.vote.sig = votes'[q][k]
<1>1. PICK h \in voteHandlers : Store(h.msg.to, h.msg.vote) /\ AckAndRelay(h)
  BY DEF Next, vars, voteVars, Crash, VoteNext, VoteProgress, CastVote, LoseVote,
         KnownVote, RefuseVote, StartVote, InsertVote, ReplaceVote, KeepVote, FailVote
<1>2. h.msg.to \in Nodes /\ KeyOf(h.msg.vote) \in Keys /\ h.msg.vote.sig \in Nat
  BY HandlerType
<1>3. q = h.msg.to /\ k = KeyOf(h.msg.vote) /\ votes'[q][k] = h.msg.vote.sig
  BY <1>1, <1>2 DEF Store, TypeOK, VoteTypeOK
<1>4. ASSUME NEW n \in Nodes \ {q}
      PROVE  \E m \in voteMsgs' : m.to = n /\ KeyOf(m.vote) = k /\ m.vote.sig = votes'[q][k]
  <2>1. [from |-> q, to |-> n, vote |-> h.msg.vote] \in PostVote(q, peers[q], h.msg.vote)
    BY DEF PostVote, SettledInv
  <2> QED BY <2>1, <1>1, <1>3 DEF AckAndRelay
<1> QED BY <1>2, <1>3, <1>4

LEMMA SpreadingStep ==
    ASSUME ~Unreliable, TypeOK, ValidInv, SerialInv, SettledInv, Spreading, [Next]_vars
    PROVE  Spreading'
<1> SUFFICES ASSUME NEW q \in Nodes, NEW n \in Nodes, NEW k \in Keys, votes'[q][k] # NoVote
             PROVE  Reached(n, k, votes[q][k])'
  BY DEF Spreading
<1>1. CASE votes'[q][k] = votes[q][k]
  <2>1. votes[q][k] \in Nat /\ Reached(n, k, votes[q][k])
    BY <1>1, VoteAssumption DEF Spreading, TypeOK, VoteTypeOK
  <2>2. \A s \in Nat : Reached(n, k, s) => Reached(n, k, s)'
    BY ReachedKept
  <2> QED BY <1>1, <2>1, <2>2 DEF Reached
<1>2. CASE votes'[q][k] # votes[q][k]
  BY <1>2, NewIsRelayed DEF Reached
<1> QED BY <1>1, <1>2

\* SmallestEverywhere: when nothing is lost, the configuration is settled and
\* handlers do not overlap, a quiet network stores the smallest of the
\* acknowledged signatures at every node.
THEOREM Convergence ==
    ASSUME ~Overlap, ~Unreliable, Settled
    PROVE  Spec => []SmallestEverywhere
<1>1. Init => SmallestAcked /\ Spreading
  BY DEF Init, VoteInit, SmallestAcked, Spreading
<1>2. /\ TypeOK /\ ValidInv /\ SerialInv /\ SettledInv
      /\ SmallestAcked /\ Spreading
      /\ [Next]_vars
      => SmallestAcked' /\ Spreading'
  BY SmallestAckedStep, SpreadingStep
<1>3. TypeOK /\ SmallestAcked /\ Spreading => SmallestEverywhere
  <2> SUFFICES ASSUME TypeOK, SmallestAcked, Spreading, Quiet, NEW n \in Nodes, NEW k \in Keys
               PROVE  IF AckedSigs(k) = {}
                        THEN votes[n][k] = NoVote
                        ELSE /\ votes[n][k] \in AckedSigs(k)
                             /\ \A s \in AckedSigs(k) : votes[n][k] <= s
    BY DEF SmallestEverywhere
  <2>1. \A q \in Nodes : votes[q][k] # NoVote =>
           votes[n][k] # NoVote /\ votes[n][k] <= votes[q][k]
    BY DEF Spreading, Reached, Quiet
  <2>2. ASSUME NEW s \in AckedSigs(k) PROVE votes[n][k] # NoVote /\ votes[n][k] <= s
    <3>1. PICK q \in Nodes : \E v \in acked[q] : KeyOf(v) = k /\ v.sig = s
      BY DEF AckedSigs
    <3>2. votes[q][k] # NoVote /\ votes[q][k] <= s
      BY <3>1 DEF SmallestAcked
    <3>3. votes[n][k] # NoVote /\ votes[n][k] <= votes[q][k]
      BY <3>2, <2>1
    <3>4. votes[n][k] \in Nat /\ votes[q][k] \in Nat /\ s \in Nat
      BY <3>1, <3>2, <3>3, KeyType, VoteAssumption DEF TypeOK, VoteTypeOK
    <3> QED BY <3>2, <3>3, <3>4
  <2>3. votes[n][k] # NoVote => votes[n][k] \in AckedSigs(k)
    BY DEF SmallestAcked, AckedSigs
  <2> QED BY <2>2, <2>3
<1> QED BY <1>1, <1>2, <1>3, TypeCorrect, ValidInvariant, SerialInvariant,
           SettledInvariant, PTL DEF Spec

=============================================================================
