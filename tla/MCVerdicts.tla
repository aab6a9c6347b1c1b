---------------------------- MODULE MCVerdicts ----------------------------
(* Instances of Verdicts for TLC. *)
EXTENDS Verdicts

CONSTANTS A, B, alice, bob

AB == {A, B}

\* Votes of addresses that delegate to nobody.
VoteTables == [votes : SUBSET Addresses, members : {{}}, listed : {FALSE}]

\* Alice's delegation, with bob as its member or none: as a member bob counts by
\* alice's vote and not by his own.
DelegationTables == [votes : {{alice}, {bob}}, members : {{}, {bob}}, listed : {TRUE}]

AllTables == [Nodes -> Tables]
AgreedTables == {t \in AllTables : t[A] = t[B]}

\* A proposal passes with half the supply.
Half == [s \in Supplies |-> s \div 2]

=============================================================================
