\* Updates overlap, are lost, come too late or before the delegation; nodes
\* crash, espo fails.
SPECIFICATION Spec
CONSTANTS
    A = A
    B = B
    Nodes <- AB
    Updates <- ThreeUpdates
    NoUpdate = NoUpdate
    CreatedAt = 0
    Allowance = 0
    MaxTip = 1
    MaxPosts = 2
    Unreliable = TRUE
INVARIANT TypeOK
INVARIANT GreatestKept
INVARIANT BehindOnlyIfMissed
CHECK_DEADLOCK FALSE
