\* Handlers of one voter overlap at a node; everything else as in VotesSerial.
SPECIFICATION FairSpec
CONSTANTS
    A = A
    B = B
    Nodes <- AB
    Listings <- Static
    InitListing <- BothListed
    Synced <- AB
    Client = Client
    Proposals = {p1}
    Seeded = {p1}
    Unreliable = FALSE
    Voters = {alice}
    Sigs = {1, 2, 3}
    NoVote = NoVote
    MaxPosts = 3
    Overlap = TRUE
INVARIANT SmallestEverywhere
CHECK_DEADLOCK FALSE
