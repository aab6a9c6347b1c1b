\* Every record arrives before the end block; requests are lost, nodes crash,
\* espo fails or answers in part.
SPECIFICATION FairSpec
CONSTANTS
    A = A
    B = B
    alice = alice
    bob = bob
    Nodes <- AB
    Addresses = {alice, bob}
    Resolutions = {r1}
    NoResolution = NoResolution
    Owner = alice
    Tables <- DelegationTables
    InitialTables <- AllTables
    Supply = 4
    Supplies = {0, 2, 4, 6}
    Threshold <- Half
    EndBlock = 1
    MaxTip = 1
    Late = FALSE
    Unreliable = TRUE
INVARIANT TypeOK
INVARIANT NoVerdictBeforeEnd
INVARIANT ResolvedIsPassed
INVARIANT NodesAgree
PROPERTY VerdictFinal
PROPERTY Decided
CHECK_DEADLOCK FALSE
