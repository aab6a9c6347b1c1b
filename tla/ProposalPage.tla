--------------------------- MODULE ProposalPage ---------------------------
(***************************************************************************)
(* The status a proposal's page shows: the query keyed on the tip          *)
(* (frontend/app/proposals/[dao]/[id]/page.tsx) and the effect that closes *)
(* a proposal whose end block is mined before the nodes say so (useVoting  *)
(* in frontend/components/VotingSection.tsx).                              *)
(*                                                                         *)
(* Tips only go up, so each one is a query that was never made.  Nodes     *)
(* decide alike, each in its own time, if espo answers all they ask        *)
(* (Verdicts); the orchestrator and the page's own tally of what it hears  *)
(* may say anything.                                                       *)
(***************************************************************************)
EXTENDS FiniteSets

CONSTANT Deciders       \* the nodes

VARIABLES
    outcome,        \* the verdict the nodes come to
    over,           \* the end block is mined
    decided,        \* the nodes that have stored their verdict
    ended,          \* the page's tip has reached the end block
    shown,          \* the status on the page
    fetching,       \* the query of this tip is under way
    effect          \* the close transition

pageVars == <<outcome, over, decided, ended, shown, fetching, effect>>

Terminal == {"passed", "rejected"}

\* verdict: what an effect at "update" is about to apply.
Effect == [stage : {"idle", "orchestrator", "tally"}, verdict : {"none"}]
            \cup [stage : {"update"}, verdict : Terminal]
Idling == [stage |-> "idle", verdict |-> "none"]
Asks == [stage |-> "orchestrator", verdict |-> "none"]

PageTypeOK ==
    /\ outcome \in Terminal
    /\ over \in BOOLEAN /\ ended \in BOOLEAN /\ (ended => over)
    /\ decided \subseteq Deciders
    /\ shown \in {"none", "missing", "open"} \cup Terminal
    /\ fetching \in BOOLEAN
    /\ effect \in Effect

PageInit ==
    /\ outcome \in Terminal
    /\ over = FALSE
    /\ decided = {}
    /\ ended = FALSE
    /\ shown = "none"
    /\ fetching = TRUE
    /\ effect = Idling

----------------------------------------------------------------------------
(* The chain and the nodes *)

MineEndBlock ==
    /\ ~over
    /\ over' = TRUE
    /\ UNCHANGED <<outcome, decided, ended, shown, fetching, effect>>

Decide(n) ==
    /\ over /\ n \notin decided
    /\ decided' = decided \cup {n}
    /\ UNCHANGED <<outcome, over, ended, shown, fetching, effect>>

----------------------------------------------------------------------------
(* The query *)

WindowEnded == ended /\ shown = "open"

\* React runs the effect when windowEnded becomes true, and cancels the one
\* under way when it becomes false: what that would apply is dropped.
Rerender ==
    effect' = IF ~WindowEnded' THEN Idling ELSE IF WindowEnded THEN effect ELSE Asks

\* getProposal with the answers of S: "a terminal status from any node beats
\* 'open'".
Heard(S) == IF S = {} THEN "missing" ELSE IF S \cap decided # {} THEN outcome ELSE "open"

\* Bug: the query's key does not have the tip in it.
NewTipCached ==
    /\ ended' \in {ended, over}
    /\ UNCHANGED <<outcome, over, decided, shown, fetching>>
    /\ Rerender

\* useEspoHeight polls another tip: the old status is shown (placeholderData)
\* while the new query is under way.
NewTip ==
    /\ ended' \in {ended, over}
    /\ fetching' = TRUE
    /\ UNCHANGED <<outcome, over, decided, shown>>
    /\ Rerender

FetchEnds(S) ==
    /\ fetching
    /\ fetching' = FALSE
    /\ shown' = Heard(S)
    /\ UNCHANGED <<outcome, over, decided, ended>>
    /\ Rerender

FetchOver == \E S \in SUBSET Deciders : FetchEnds(S)

\* Without a tip the end block is not known to be mined.
LoadPage ==
    /\ ended' \in {FALSE, over}
    /\ shown' = "none"
    /\ fetching' = TRUE
    /\ effect' = Idling
    /\ UNCHANGED <<outcome, over, decided>>

----------------------------------------------------------------------------
(* The effect *)

\* GET /api/orchestrator/verdicts: a verdict, or none.
OrchestratorAnswers ==
    /\ effect.stage = "orchestrator"
    /\ \/ \E v \in Terminal : effect' = [stage |-> "update", verdict |-> v]
       \/ effect' = [effect EXCEPT !.stage = "tally"]
    /\ UNCHANGED <<outcome, over, decided, ended, shown, fetching>>

\* The page adds up the votes it hears of, or some request fails: "next load
\* retries the transition".
TallyEnds ==
    /\ effect.stage = "tally"
    /\ \/ \E v \in Terminal : effect' = [stage |-> "update", verdict |-> v]
       \/ effect' = Idling
    /\ UNCHANGED <<outcome, over, decided, ended, shown, fetching>>

\* updateProposalStatus reads the proposal again and applies the verdict to
\* it; the page writes it into the query of the tip it is at now.
UpdateEnds(S) ==
    /\ effect.stage = "update"
    /\ effect' = Idling
    /\ shown' = IF S = {} THEN shown ELSE effect.verdict
    /\ UNCHANGED <<outcome, over, decided, ended, fetching>>

----------------------------------------------------------------------------
PageNext ==
    \/ MineEndBlock \/ NewTip \/ LoadPage
    \/ \E n \in Deciders : Decide(n)
    \/ FetchOver \/ OrchestratorAnswers \/ TallyEnds
    \/ \E S \in SUBSET Deciders : UpdateEnds(S)

\* Blocks are mined and polled (every 30 s), and requests end.
PageFairness ==
    /\ WF_pageVars(NewTip)
    /\ WF_pageVars(FetchOver)

PageSpec == PageInit /\ [][PageNext]_pageVars /\ PageFairness

----------------------------------------------------------------------------
(* Properties *)

\* nodeStore.ts: "the next read converges on the nodes' own verdict".  What
\* the orchestrator or the page's own tally made of the votes may be wrong for
\* a while; once all nodes have decided, the page ends up with their verdict
\* and never shows another, nor an open proposal, again.
ShownInTheEnd ==
    <>[](decided = Deciders => shown \in {outcome, "missing", "none"})

=============================================================================
