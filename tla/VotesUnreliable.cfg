\* Everything at once: proposals and votes gossip, node B joins later, the DAO
\* is disabled and enabled again, posts are lost, nodes crash, espo fails, and
\* handlers of one voter overlap.
SPECIFICATION FairSpec
CONSTANTS
    A = A
    B = B
    Nodes <- AB
    Listings <- Changing
    InitListing <- OnlyA
    Synced <- JustA
    Client = Client
    Proposals = {p1}
    Seeded = {}
    Unreliable = TRUE
    Voters = {alice}
    Sigs = {1, 2}
    NoVote = NoVote
    MaxPosts = 2
    Overlap = TRUE
INVARIANT TypeOK
INVARIANT StoredVotesValid
INVARIANT AckedIsStored
CHECK_DEADLOCK FALSE
