--------------------------- MODULE MCMemberships ---------------------------
(* Instances of Memberships for TLC. *)
EXTENDS Memberships, TLC

CONSTANTS A, B, Alice, Paul, Quinn, D1, D2

AB == {A, B}
Everyone == {Alice, Paul, Quinn}
BothDelegations == {D1, D2}

Owners == D1 :> Paul @@ D2 :> Quinn
Ages == D1 :> 0 @@ D2 :> 1

Act(x, d, kind, height, seq, sig) ==
    [address |-> x, delegation |-> d, kind |-> kind, height |-> height, seq |-> seq, sig |-> sig]

\* Alice joins both delegations at one nonce and leaves a block later, Paul
\* joins the delegation he does not own.
SomeActions ==
    {Act(Alice, D1, "join", 0, 0, 2), Act(Alice, D2, "join", 0, 0, 1),
     Act(Paul, D2, "join", 0, 0, 3), Act(Alice, D2, "leave", 1, 0, 4)}

\* Alice signs one join twice and another join at the same nonce.
ResignedActions ==
    {Act(Alice, D1, "join", 0, 0, 1), Act(Alice, D1, "join", 0, 0, 3),
     Act(Alice, D2, "join", 0, 0, 2)}

AllKnown == [n \in AB |-> BothDelegations]
D1LateAtB == A :> BothDelegations @@ B :> {D2}

=============================================================================
