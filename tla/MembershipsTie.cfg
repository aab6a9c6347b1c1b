\* Nothing is lost or late, and one join is signed twice.
SPECIFICATION Spec
CONSTANTS
    A = A
    B = B
    Alice = Alice
    Paul = Paul
    Quinn = Quinn
    D1 = D1
    D2 = D2
    Nodes <- AB
    Addresses <- Everyone
    Delegations <- BothDelegations
    NoDelegation = NoDelegation
    Owner <- Owners
    Age <- Ages
    Actions <- ResignedActions
    NoAction = NoAction
    InitKnown <- AllKnown
    Allowance = 0
    MaxTip = 0
    MaxPosts = 4
    Unreliable = FALSE
INVARIANT MembersAgree
CHECK_DEADLOCK FALSE
