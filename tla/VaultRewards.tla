--------------------------- MODULE VaultRewards ---------------------------
(***************************************************************************)
(* Percentages of the supply (resolveThreshold and thresholdPower in       *)
(* shared/src/types.ts) and what a vault position can claim at a height    *)
(* (shared/src/vaultPower.ts).                                             *)
(*                                                                         *)
(* Amounts are bigints, which do not overflow, and divisions round down.   *)
(* Percentages are in basis points, as thresholdPower makes them.          *)
(***************************************************************************)
EXTENDS Integers

CONSTANT Scale          \* ACC_SCALE

ASSUME ScaleAssumption == Scale \in Nat \ {0}

\* A schedule maps fork heights to the basis points in force from there on.
Forks(schedule, h) == {k \in DOMAIN schedule : k <= h}

\* resolveThreshold.  Below every fork the lowest entry is in force.
InForce(schedule, h) ==
    IF DOMAIN schedule = {} THEN 0
    ELSE IF Forks(schedule, h) # {}
      THEN schedule[CHOOSE k \in Forks(schedule, h) : \A l \in Forks(schedule, h) : l <= k]
      ELSE schedule[CHOOSE k \in DOMAIN schedule : \A l \in DOMAIN schedule : k <= l]

ThresholdPower(supply, bp) == (supply * bp) \div 10000

----------------------------------------------------------------------------
(* The accumulator *)

Globals == [acc : Nat, lastAccrual : Nat, totalWeight : Nat, farmStart : Nat,
            farmBlocks : Nat, slicePot : Nat, migrated : BOOLEAN]

MulDiv(a, b, c) == IF c = 0 THEN 0 ELSE (a * b) \div c

FarmEnd(g) == IF g.farmStart = 0 THEN 0 ELSE g.farmStart + g.farmBlocks
Emission(g) == IF g.farmBlocks = 0 THEN 0 ELSE g.slicePot \div g.farmBlocks

\* What each unit of weight earns in that many blocks.
Earned(g, blocks) == MulDiv(Emission(g) * blocks, Scale, g.totalWeight)

Now(g, h) == IF h < FarmEnd(g) THEN h ELSE FarmEnd(g)

Accrued(g, h) ==
    IF Now(g, h) > g.lastAccrual /\ g.lastAccrual > 0 /\ g.totalWeight > 0
      THEN Earned(g, Now(g, h) - g.lastAccrual) ELSE 0

\* The vault that migrated has the rest of the farm to come.
Remaining(g, h) ==
    IF g.migrated /\ g.totalWeight > 0 /\ FarmEnd(g) > Now(g, h)
      THEN Earned(g, FarmEnd(g) - Now(g, h)) ELSE 0

\* accumulatorAt.
Accumulator(g, h) == g.acc + Accrued(g, h) + Remaining(g, h)

----------------------------------------------------------------------------
(* A position *)

Record == [weight : Nat, debt : Nat, banked : Nat, claimed : Nat]

Vested(r, acc) ==
    LET gross == MulDiv(r.weight, acc, Scale)
    IN  r.banked + (IF gross > r.debt THEN gross - r.debt ELSE 0)

\* claimableOf.
Claimable(r, acc) == IF Vested(r, acc) > r.claimed THEN Vested(r, acc) - r.claimed ELSE 0

\* The vault, once the position has claimed.
Claim(r, acc) == [r EXCEPT !.claimed = @ + Claimable(r, acc)]

=============================================================================
