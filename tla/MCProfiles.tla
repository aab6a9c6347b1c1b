---------------------------- MODULE MCProfiles ----------------------------
(* Instances of Profiles for TLC. *)
EXTENDS Profiles

CONSTANTS A, B

AB == {A, B}

N(height, seq, sig) == [height |-> height, seq |-> seq, sig |-> sig]

\* A tie that only the signature decides, and a later update.
ThreeUpdates == {N(0, 0, 1), N(0, 0, 2), N(1, 0, 3)}

=============================================================================
