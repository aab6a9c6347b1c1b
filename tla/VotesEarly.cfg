\* The proposal itself still gossips; handlers do not overlap and nothing is
\* lost, but a vote may reach a node before its proposal does.
SPECIFICATION FairSpec
CONSTANTS
    A = A
    B = B
    Nodes <- AB
    Listings <- Static
    InitListing <- BothListed
    Synced <- AB
    Client = Client
    Proposals = {p1}
    Seeded = {}
    Unreliable = FALSE
    Voters = {alice}
    Sigs = {1}
    NoVote = NoVote
    MaxPosts = 1
    Overlap = FALSE
INVARIANT SmallestEverywhere
CHECK_DEADLOCK FALSE
