-------------------------- MODULE DelegatedTally --------------------------
(***************************************************************************)
(* Who is a member of which delegation at a height, and whose balances a   *)
(* vote carries (shared/src/delegation.ts: resolveDelegationState,         *)
(* computeDelegatedTally), with the list of addresses a node prices for a  *)
(* verdict (computeVerdict in surtur-node/src/espo.ts).                    *)
(***************************************************************************)
EXTENDS Nonces, SequencesExt

CONSTANTS
    Addresses,
    Delegations,
    NoDelegation,   \* not a member, or not the signer of a delegation
    Owner,          \* Owner[d]: the address that signs for delegation d
    Age,            \* Age[d]: its place by time of creation, older is smaller
    Actions,        \* the joins and leaves that may be signed
    NoAction

Action == [address : Addresses, delegation : Delegations, kind : {"join", "leave"},
           height : Nat, seq : Nat, sig : Nat]

ASSUME TallyAssumption ==
    /\ NoDelegation \notin Delegations
    /\ Owner \in [Delegations -> Addresses]
    /\ Age \in [Delegations -> Nat]
    /\ \A c, d \in Delegations : Age[c] = Age[d] => c = d
    /\ Actions \subseteq Action
    /\ NoAction \notin Actions
    \* A signature verifies one message.
    /\ \A a, b \in Actions : a.sig = b.sig => a = b

----------------------------------------------------------------------------
(* Membership *)

\* The actions of address x that decide at height e.
Deciding(S, x, e) == {a \in S : a.address = x /\ a.height <= e}

Best(S, x, e) ==
    {a \in Deciding(S, x, e) : \A b \in Deciding(S, x, e) : a = b \/ Beats(a, b)}

\* resolveDelegationState: the delegation x is joined to at height e.
Membership(S, x, e) ==
    IF \E a \in Best(S, x, e) : a.kind = "join"
      THEN (CHOOSE a \in Best(S, x, e) : TRUE).delegation
      ELSE NoDelegation

\* The same as the code computes it, row by row.
BestRow(rows, x, e) ==
    LET Better(best, a) ==
            IF a.address = x /\ a.height <= e /\ (best # NoAction => Beats(a, best))
              THEN a ELSE best
    IN  FoldLeft(Better, NoAction, rows)

RowsMembership(rows, x, e) ==
    LET best == BestRow(rows, x, e)
    IN  IF best # NoAction /\ best.kind = "join" THEN best.delegation ELSE NoDelegation

\* Every order in which the table may list its rows.
Listings(S) == SetToSeqs(S)

----------------------------------------------------------------------------
(* The tally *)

\* delegatorsBySigner: of several delegations of one signer the list, newest
\* first, leaves the oldest in the map.
SignedBy(known, v) ==
    {d \in known : Owner[d] = v /\ \A c \in known : Owner[c] = v => Age[d] <= Age[c]}

\* Bug: votes of members are counted too.
CountedAll(S, voters, e) == voters

\* Votes of delegated addresses are ignored.
Counted(S, voters, e) == {v \in voters : Membership(S, v, e) = NoDelegation}

\* The addresses whose balances the vote of v carries.
Carried(S, known, v, e) ==
    {v} \cup {x \in Addresses : Membership(S, x, e) \in SignedBy(known, v)}

\* Bug: delegations of voters who are members themselves are priced.
PricedAll(S, known, voters, e) ==
    Counted(S, voters, e)
        \cup {x \in Addresses : \E v \in voters : Membership(S, x, e) \in SignedBy(known, v)}

\* computeVerdict: the addresses espo is asked the balances of.
Priced(S, known, voters, e) ==
    LET ids == UNION {SignedBy(known, v) : v \in Counted(S, voters, e)}
    IN  Counted(S, voters, e) \cup {x \in Addresses : Membership(S, x, e) \in ids}

=============================================================================
