\* Nothing fails, nothing is late, and the nodes store the same records of a
\* proposal that has ended.
SPECIFICATION Spec
CONSTANTS
    A = A
    B = B
    alice = alice
    bob = bob
    Nodes <- AB
    Addresses = {alice, bob}
    Resolutions = {r1}
    NoResolution = NoResolution
    Owner = alice
    Tables <- VoteTables
    InitialTables <- AgreedTables
    Supply = 2
    Supplies = {0, 2, 4}
    Threshold <- Half
    EndBlock = 0
    MaxTip = 0
    Late = FALSE
    Unreliable = FALSE
INVARIANT ResolutionEverywhere
CHECK_DEADLOCK FALSE
