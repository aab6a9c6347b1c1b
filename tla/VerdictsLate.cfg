\* A record may be stored after the end block, as the routes allow.
SPECIFICATION Spec
CONSTANTS
    A = A
    B = B
    alice = alice
    bob = bob
    Nodes <- AB
    Addresses = {alice, bob}
    Resolutions = {r1}
    NoResolution = NoResolution
    Owner = alice
    Tables <- VoteTables
    InitialTables <- AllTables
    Supply = 2
    Supplies = {0, 2, 4}
    Threshold <- Half
    EndBlock = 1
    MaxTip = 1
    Late = TRUE
    Unreliable = FALSE
PROPERTY VerdictFinal
CHECK_DEADLOCK FALSE
