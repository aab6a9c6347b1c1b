--------------------------- MODULE MCVerdictSweep ---------------------------
(* Instances of VerdictSweep for TLC. *)
EXTENDS VerdictSweep, TLC

CONSTANTS A, B, alice, bob

AB == {A, B}

\* Alice's delegation with bob as its member: both count by alice's vote, and
\* neither by bob's own.
DelegationTables == [votes : {{alice}, {bob}}, members : {{bob}}, listed : {TRUE}]

\* If requests may fail, any node may be the first to answer with rows.
Symmetry == Permutations(AB)

AllTables == [Nodes -> Tables]

\* A proposal passes with half the supply.
Half == [s \in Supplies |-> s \div 2]

=============================================================================
