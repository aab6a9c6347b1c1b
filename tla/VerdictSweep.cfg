\* Records arrive before the end block; requests are lost, nodes and the
\* orchestrator crash, espo fails or answers in part, nodes answer a sweep with
\* votes, joins or delegations only, or not at all.
SPECIFICATION SweepSpec
CONSTANTS
    A = A
    B = B
    alice = alice
    bob = bob
    Nodes <- AB
    Addresses = {alice, bob}
    Resolutions = {}
    NoResolution = NoResolution
    Owner = alice
    Tables <- DelegationTables
    InitialTables <- AllTables
    Supply = 4
    Supplies = {0, 4}
    Threshold <- Half
    EndBlock = 1
    MaxTip = 1
    Late = FALSE
    Unreliable = TRUE
    First = A
SYMMETRY Symmetry
INVARIANT SweepTypeOK
INVARIANT CacheAgrees
INVARIANT OneAnswer
INVARIANT CachedAfterEnd
PROPERTY CacheHeld
CHECK_DEADLOCK FALSE
