---------------------------- MODULE MCFrontend ----------------------------
(***************************************************************************)
(* Instances of the frontend's modules for TLC.  They share no state, so   *)
(* what one does between the steps of another tells nothing: a behaviour   *)
(* is one of `part', and the others stay as they start.                    *)
(***************************************************************************)
EXTENDS WalletContext, PopupRequests, Overview, ThresholdReads, VotingPower, ProposalPage,
        SigningPages, TLC

CONSTANTS Passport, Subfrost, Pizza, Sign1, Sign2, Sign3, Alice, Bob, Team, P1, P2, Join,
          FirstServer

\* Two calls of one connector and one of the other.
Connectors == Sign1 :> Subfrost @@ Sign2 :> Subfrost @@ Sign3 :> Pizza

\* The share is reached never, or only with the join.
SomeContexts == {{}, {{Join}}}

\* The vault pays 2 a block for 2 blocks, to a weight of 3; it may be migrated.
Globals1(migrated) ==
    [acc |-> 1, lastAccrual |-> 1, totalWeight |-> 3, farmStart |-> 1, farmBlocks |-> 2,
     slicePot |-> 5, migrated |-> migrated]
Record1(banked) == [weight |-> 2, debt |-> 1, banked |-> banked, claimed |-> 1]

\* The fork is at the second of three blocks.
Worlds ==
    [wallet : {Alice :> 1 @@ Bob :> 0 @@ Team :> 1}, pool : {5}, other : {0, 1},
     excluded : {{}, {Team}},
     holder : {f \in [Positions -> Holders \cup {Contract}] : f[P1] # Contract /\ f[P2] # Bob},
     record : {P1 :> Record1(2) @@ P2 :> Record1(1)},
     globals : {Globals1(FALSE), Globals1(TRUE)}, height : {1}, fromHeight : {2}]
LastBlock == 3

ASSUME WorldsAssumption == \A w \in Worlds : w \in World /\ EarnedFirst(w)

----------------------------------------------------------------------------
VARIABLE part

frontendVars ==
    <<part, walletVars, popupVars, overviewVars, readVars, world, pageVars, signVars>>

\* A proposal and a delegation that are judged: nothing that is fair is left to do.
ReadsOver ==
    /\ reaches = {} /\ sound = FALSE
    /\ has = [n \in Servers |-> Joins]
    /\ verdict = "fails" /\ delegation = "fails" /\ asked = FALSE /\ offered = FALSE
    /\ check = [c \in Checks |-> Free]
    /\ listed = FALSE /\ opened = FALSE /\ missed = FALSE
    /\ lacked = [j \in Judged |-> FALSE]

\* A page that shows the verdict: the tip is the same and nothing is fetched.
PageOver ==
    /\ outcome = "passed" /\ over = TRUE /\ decided = Deciders /\ ended = TRUE
    /\ shown = "passed" /\ fetching = FALSE /\ effect = Idling

FrontendInit ==
    /\ part \in {"wallet", "popup", "overview", "reads", "power", "page", "signing"}
    /\ WalletInit /\ (part # "wallet" => stored = Nobody)
    /\ PopupInit /\ (part # "popup" => window.origin = Pizza)
    /\ OverviewInit
    \* The nodes are alike: one that has the join at the start is FirstServer.
    /\ IF part = "reads" THEN ReadsInit /\ has[FirstServer] = Joins ELSE ReadsOver
    /\ IF part = "power" THEN world \in Worlds ELSE world = CHOOSE w \in Worlds : TRUE
    /\ IF part = "page" THEN PageInit ELSE PageOver
    /\ SignInit /\ (part # "signing" => kind = "membership")

\* Nothing is said of a blind page, which stays so.
FrontendNext ==
    \/ /\ part = "wallet" /\ WalletNext
       /\ UNCHANGED <<part, popupVars, overviewVars, readVars, world, pageVars, signVars>>
    \/ /\ part = "popup" /\ PopupNext
       /\ UNCHANGED <<part, walletVars, overviewVars, readVars, world, pageVars, signVars>>
    \/ /\ part = "overview" /\ OverviewNext
       /\ UNCHANGED <<part, walletVars, popupVars, readVars, world, pageVars, signVars>>
    \/ /\ part = "reads" /\ ReadsNext
       /\ UNCHANGED <<part, walletVars, popupVars, overviewVars, world, pageVars, signVars>>
    \/ /\ part = "power" /\ PowerNext(LastBlock)
       /\ UNCHANGED <<part, walletVars, popupVars, overviewVars, readVars, pageVars, signVars>>
    \/ /\ part = "page" /\ PageNext
       /\ UNCHANGED <<part, walletVars, popupVars, overviewVars, readVars, world, signVars>>
    \/ /\ part = "signing" /\ ~blind /\ SignNext
       /\ UNCHANGED <<part, walletVars, popupVars, overviewVars, readVars, world, pageVars>>

FrontendSpec ==
    /\ FrontendInit
    /\ [][FrontendNext]_frontendVars
    /\ WalletFairness
    /\ PopupFairness
    /\ ReadsFairness
    /\ WF_pageVars(part = "page" /\ NewTip)
    /\ WF_pageVars(part = "page" /\ FetchOver)

\* SharesAgree takes a while to evaluate.
PowerAgrees == part = "power" => SharesAgree

\* The types of the part that moves.
FrontendTypeOK ==
    /\ part = "wallet" => WalletTypeOK
    /\ part = "popup" => PopupTypeOK
    /\ part = "overview" => OverviewTypeOK
    /\ part = "reads" => ReadsTypeOK
    /\ part = "power" => world \in World
    /\ part = "page" => PageTypeOK
    /\ part = "signing" => SignTypeOK

=============================================================================
