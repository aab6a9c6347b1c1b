\* No action is signed twice; actions overlap, are lost, come late or before
\* the delegation; nodes crash, espo fails.
SPECIFICATION Spec
CONSTANTS
    A = A
    B = B
    Alice = Alice
    Paul = Paul
    Quinn = Quinn
    D1 = D1
    D2 = D2
    Nodes <- AB
    Addresses <- Everyone
    Delegations <- BothDelegations
    NoDelegation = NoDelegation
    Owner <- Owners
    Age <- Ages
    Actions <- SomeActions
    NoAction = NoAction
    InitKnown <- D1LateAtB
    Allowance = 0
    MaxTip = 1
    MaxPosts = 2
    Unreliable = TRUE
INVARIANT TypeOK
INVARIANT MembersAgree
INVARIANT LackedOnlyIfMissed
INVARIANT ResolveOrderFree
INVARIANT BalanceOnce
INVARIANT PricedIsCarried
PROPERTY HistorySettled
CHECK_DEADLOCK FALSE
