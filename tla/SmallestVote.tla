--------------------------- MODULE SmallestVote ---------------------------
(***************************************************************************)
(* What the votes route promises a voter (the comment at                   *)
(* surtur-node/src/routes.ts, lines 222-228): each node keeps, for each    *)
(* voter and proposal, one signature, and answering "ok" to a vote merges  *)
(* that vote into it by taking the smaller of the two.  A merge that is    *)
(* commutative, associative and idempotent makes the order of arrival      *)
(* irrelevant; this is the abstract specification VoteGossip is compared   *)
(* with.                                                                   *)
(***************************************************************************)
EXTENDS Naturals

CONSTANTS Nodes, Proposals, Voters, Sigs, NoVote

Vote == [proposal : Proposals, voter : Voters, sig : Sigs]
KeyOf(v) == <<v.proposal, v.voter>>

VARIABLES
    votes,      \* votes[n][k]: the signature node n keeps for key k
    cast,       \* the votes posted so far
    acked       \* acked[n]: the votes node n answered "ok"

vars == <<votes, cast, acked>>

Init ==
    /\ votes = [n \in Nodes |-> [k \in Proposals \X Voters |-> NoVote]]
    /\ cast = {}
    /\ acked = [n \in Nodes |-> {}]

Cast(v) ==
    /\ cast' = cast \cup {v}
    /\ UNCHANGED <<votes, acked>>

Smaller(s, t) == IF t = NoVote \/ s < t THEN s ELSE t

\* Node n answers "ok" to v: from now on it keeps nothing larger.
Accept(n, v) ==
    /\ v \in cast
    /\ votes' = [votes EXCEPT ![n][KeyOf(v)] = Smaller(v.sig, @)]
    /\ acked' = [acked EXCEPT ![n] = @ \cup {v}]
    /\ UNCHANGED cast

Next ==
    \/ \E v \in Vote : Cast(v)
    \/ \E n \in Nodes, v \in Vote : Accept(n, v)

Spec == Init /\ [][Next]_vars

=============================================================================
