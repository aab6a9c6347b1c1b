\* Handlers of one voter's votes on one proposal do not overlap at a node,
\* nothing is lost, the proposal is known everywhere.
SPECIFICATION FairSpec
CONSTANTS
    A = A
    B = B
    Nodes <- AB
    Listings <- Static
    InitListing <- BothListed
    Synced <- AB
    Client = Client
    Proposals = {p1}
    Seeded = {p1}
    Unreliable = FALSE
    Voters = {alice}
    Sigs = {1, 2, 3}
    NoVote = NoVote
    MaxPosts = 3
    Overlap = FALSE
INVARIANT SmallestEverywhere
PROPERTY KeepsThePromise
PROPERTY GossipEnds
CHECK_DEADLOCK FALSE
