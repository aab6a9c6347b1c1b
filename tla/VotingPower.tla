---------------------------- MODULE VotingPower ----------------------------
(***************************************************************************)
(* How much an address holds of the supply, wherever it is asked:          *)
(* shareMeets and computeVerdict of the nodes (surtur-node/src/espo.ts),   *)
(* checkThresholds (frontend/lib/dao/nodeStore.ts), the page that submits  *)
(* and the button that leads there (frontend/app/proposals/[dao]/new/      *)
(* page.tsx, hooks/useProposerEligibility.ts), the lists of holders        *)
(* (lib/dao/governance.ts), on top of the exclusions (shared/src/          *)
(* circulating.ts) and of what vaults owe (shared/src/vaultPower.ts).      *)
(*                                                                         *)
(* One DAO with one vault, as espo answers for one block.  The limit on    *)
(* the list of holders is not reached.                                     *)
(***************************************************************************)
EXTENDS VaultRewards, FiniteSetsExt

CONSTANTS
    Holders,        \* addresses
    Contract,       \* a contract that holds positions
    Positions,      \* position tokens
    Percents        \* thresholds, in basis points

ASSUME PowerAssumption ==
    /\ IsFiniteSet(Holders) /\ IsFiniteSet(Positions)
    /\ Contract \notin Holders
    /\ Percents \subseteq 1..10000

\* wallet: balances.  pool: what the vault holds; other: other contracts.
\* excluded: nonCirculating.addresses; the vault is in nonCirculating.alkanes.
\* record: the vault's records of the positions; globals: its accrual state.
World == [wallet : [Holders -> Nat], pool : Nat, other : Nat, excluded : SUBSET Holders,
          holder : [Positions -> Holders \cup {Contract}], record : [Positions -> Record],
          globals : Globals, height : Nat, fromHeight : Nat]

Total(f) == MapThenSumSet(LAMBDA x : f[x], DOMAIN f)

----------------------------------------------------------------------------
(* The vault *)

Pending(w, p) == Claimable(w.record[p], Accumulator(w.globals, w.height))

\* A read at no height in particular, at the tip, is not held against the fork.
Live(w) == [w EXCEPT !.fromHeight = 0]
PastFork(w) == w.height >= w.fromHeight

\* The positions that vaultUnclaimed counts: none before the fork, and none of
\* a vault whose accumulator is 0, which it skips like one espo does not know.
CountedPositions(w) ==
    {p \in Positions : /\ PastFork(w)
                       /\ Accumulator(w.globals, w.height) > 0
                       /\ w.holder[p] \in Holders \ w.excluded}

\* The contract banks for a position only what its accumulator has earned: a
\* vault that vaultUnclaimed skips owes nothing.
EarnedFirst(w) == \A p \in Positions : w.record[p].banked > 0 => w.globals.acc > 0

UnclaimedBy(w, a) == Total([p \in {q \in CountedPositions(w) : w.holder[q] = a} |-> Pending(w, p)])
UnclaimedTotal(w) == Total([p \in CountedPositions(w) |-> Pending(w, p)])

----------------------------------------------------------------------------
(* Supply and power *)

\* get_circulating_supply counts every holder, contracts included.
RawSupply(w) == Total(w.wallet) + w.pool + w.other
NonCirculating(w) == Total([a \in w.excluded |-> w.wallet[a]]) + w.pool

\* Bug: the vault is left in circulation although its debts are counted.
SupplyWithPool(w) == RawSupply(w) - (NonCirculating(w) - w.pool) + UnclaimedTotal(w)

\* subtractNonCirculating, with the unclaimed added.
Supply(w) ==
    (IF RawSupply(w) > NonCirculating(w) THEN RawSupply(w) - NonCirculating(w) ELSE 0)
        + UnclaimedTotal(w)

\* Bug: exclusions are left to the supply.
ListedAll(w) == [a \in Holders |-> w.wallet[a] + UnclaimedBy(w, a)]

\* An excluded address has no power.
Power(w, a) == IF a \in w.excluded THEN 0 ELSE w.wallet[a] + UnclaimedBy(w, a)

\* parseHolders and holdersWithUnclaimed: excluded addresses are not listed.
ListedHolders(w) == [a \in Holders \ w.excluded |-> w.wallet[a] + UnclaimedBy(w, a)]

\* shareMeets, and checkThresholds once espo knows the block.
Held(w, a, members) == Power(w, a) + Total([m \in members |-> Power(w, m)])

\* voterHoldsToken, at the tip: may the address vote?
VoterHolds(w, a) == a \notin w.excluded /\ (w.wallet[a] > 0 \/ UnclaimedBy(Live(w), a) > 0)

NodeAccepts(supply, held, bp) == supply > 0 /\ held >= ThresholdPower(supply, bp)

BrowserAccepts(raw, supply, held, bp) == raw > 0 => held >= ThresholdPower(supply, bp)

\* The submit handler: from the list of holders at the tip, in hundredths of a
\* percent.
ListedShare(w, a, members) ==
    LET listed == ListedHolders(Live(w))
    IN  Total([x \in DOMAIN listed \cap (members \cup {a}) |-> listed[x]])

SharePercent(supply, mine) == IF supply > 0 THEN (mine * 10000) \div supply ELSE 0

PageAccepts(supply, mine, bp) == SharePercent(supply, mine) >= bp

\* fetchProposerShare, at the tip: an excluded proposer has nothing, not even
\* of the members; an excluded member brings its balance.
ProposerShare(w, a, members) ==
    IF a \in w.excluded THEN 0
    ELSE Total([x \in members \cup {a} |-> w.wallet[x] + UnclaimedBy(Live(w), x)])

\* useProposerEligibility: are the "New proposal" buttons unlocked?
Eligible(supply, share, bp) == supply > 0 /\ share >= ThresholdPower(supply, bp)

----------------------------------------------------------------------------
VARIABLE world

\* The holder of p claims: the vault pays.
Claimed(w, p) ==
    [w EXCEPT !.record[p] = Claim(@, Accumulator(w.globals, w.height)),
              !.pool = @ - Pending(w, p),
              !.wallet[w.holder[p]] = @ + Pending(w, p)]

ClaimPosition(p) ==
    /\ world.holder[p] \in Holders
    /\ 0 < Pending(world, p) /\ Pending(world, p) <= world.pool
    /\ world' = Claimed(world, p)

\* Tokens change hands, and a block is mined.
Send(a, b) ==
    /\ a # b /\ world.wallet[a] > 0
    /\ world' = [world EXCEPT !.wallet[a] = @ - 1, !.wallet[b] = @ + 1]

MineFor(last) ==
    /\ world.height < last
    /\ world' = [world EXCEPT !.height = @ + 1]

PowerNext(last) ==
    \/ \E p \in Positions : ClaimPosition(p)
    \/ \E a, b \in Holders : Send(a, b)
    \/ MineFor(last)

----------------------------------------------------------------------------
(* Properties *)

\* vaultPower.ts: unclaimed SLICE counts "so they don't need to claim from
\* their positions to vote".  A claim past the fork changes nobody's power and
\* not the supply: what leaves the vault was counted already.
ClaimNeutral ==
    [][\A p \in Positions :
          ClaimPosition(p) /\ PastFork(world) =>
              /\ Supply(world') = Supply(world)
              /\ \A a \in Holders : Power(world', a) = Power(world, a)]_world

\* Nobody's tokens count twice: all addresses together have no more power than
\* the supply that thresholds are taken of.
WithinSupply == Total([a \in Holders |-> Power(world, a)]) <= Supply(world)

\* Who may vote is who has power, both with the unclaimed.
VotersHavePower == PastFork(world) => \A a \in Holders : VoterHolds(world, a) <=> Power(world, a) > 0

\* new/page.tsx: "Surtur nodes re-enforce this on POST; the client check just
\* fails fast".  A submission that passes the page's check, made on truncated
\* percents from another list at the tip, passes the nodes' and every
\* browser's check of that block.  The tip is past the fork (vaultPower.ts:
\* "A live read is always past it").
SubmitAccepted ==
    PastFork(world) =>
        LET supply == Supply(world)
            tipSupply == Supply(Live(world))
        IN  \A a \in Holders : \A members \in SUBSET (Holders \ {a}) :
                LET held == Held(world, a, members)
                    mine == ListedShare(world, a, members)
                IN  \A bp \in Percents :
                        PageAccepts(tipSupply, mine, bp) =>
                            /\ NodeAccepts(supply, held, bp)
                            /\ BrowserAccepts(RawSupply(world), supply, held, bp)

\* useProposerEligibility.ts: "surtur nodes re-enforce the same rule on POST".
\* Unless the DAO excludes one of them, the buttons are unlocked for exactly
\* the proposers, with their members, that the nodes accept.
ButtonsAgree ==
    PastFork(world) =>
        LET supply == Supply(world)
            tipSupply == Supply(Live(world))
        IN  \A a \in Holders \ world.excluded :
                \A members \in SUBSET (Holders \ (world.excluded \cup {a})) :
                    LET held == Held(world, a, members)
                        share == ProposerShare(world, a, members)
                    IN  \A bp \in Percents :
                            Eligible(tipSupply, share, bp) <=> NodeAccepts(supply, held, bp)

\* No power from nothing, and none that only one of those who check sees.
SharesAgree == WithinSupply /\ VotersHavePower /\ SubmitAccepted /\ ButtonsAgree

=============================================================================
