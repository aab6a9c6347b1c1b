------------------------------ MODULE Nonces ------------------------------
(***************************************************************************)
(* The order of everything an address signs about delegations              *)
(* (compareActions in shared/src/delegation.ts) and the window of heights  *)
(* a node accepts (surtur-node/src/routes.ts).  A record carries a nonce:  *)
(* the height it was signed at, a sequence number within that height, and  *)
(* its signature, here a number, in the order of the strings.              *)
(***************************************************************************)
EXTENDS Integers

Nonce == [height : Nat, seq : Nat, sig : Nat]

\* Bug: equal heights and sequence numbers are left undecided.
BeatsUnlessTied(a, b) ==
    \/ a.height > b.height
    \/ a.height = b.height /\ a.seq > b.seq

\* compareActions(a, b) > 0: the higher (height, seq) wins, an exact tie
\* goes to the smaller signature.
Beats(a, b) ==
    \/ a.height > b.height
    \/ a.height = b.height /\ a.seq > b.seq
    \/ a.height = b.height /\ a.seq = b.seq /\ a.sig < b.sig

\* Bug: heights of the past are let through.
InWindowAhead(height, tip, allowance) == height <= tip + allowance

\* The height is within the allowance of the tip espo answers.
InWindow(height, tip, allowance) ==
    /\ height <= tip + allowance
    /\ height >= tip - allowance

=============================================================================
