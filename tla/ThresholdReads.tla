-------------------------- MODULE ThresholdReads --------------------------
(***************************************************************************)
(* How a browser decides whether to show a proposal and a delegation:      *)
(* listProposals, getProposal, filterValidProposals, checkThresholds,      *)
(* listDelegators, filterValidDelegators and checkDelegatorThresholds with *)
(* the verdicts they cache (frontend/lib/dao/nodeStore.ts), for one        *)
(* proposal whose proposer owns a delegation.                              *)
(*                                                                         *)
(* The verdict depends on the joins and leaves the browser has heard of    *)
(* when it asks espo for the balances at the start block: `reaches' is the *)
(* set of those contexts with which the proposer has the share, {} being   *)
(* the own balance alone (VotingPower has the arithmetic).  A request to   *)
(* all nodes is answered by any of them, and a batch of requests to espo   *)
(* perhaps in part.  The nodes may have let in a                           *)
(* delegation below its own threshold (they too trust what espo has no     *)
(* answer for): `sound' says whether its creator had the share.            *)
(***************************************************************************)
EXTENDS FiniteSets

CONSTANTS
    Servers,        \* the nodes
    Joins,          \* joins and leaves up to the start block
    Contexts,       \* what `reaches' may be
    Checks          \* bound: checkThresholds calls under way

ASSUME ReadsAssumption == Contexts \subseteq SUBSET SUBSET Joins

VARIABLES
    reaches,
    sound,
    has,            \* has[n]: node n's delegation rows
    verdict,        \* the proposal's entry of thresholdVerdictCache
    delegation,     \* the delegation's
    asked,          \* is a checkDelegatorThresholds under way?
    check,          \* check[c]: a checkThresholds call
    listed,         \* does the list show the proposal?
    opened,         \* does its own page?
    offered,        \* does the list of delegations show this one?
    missed,         \* a check went on with less than all rows, or with too much
    lacked          \* history: did espo's answer lack what may have turned the
                    \* cached verdict?

delegationVars == <<delegation, asked, offered>>
readVars ==
    <<reaches, sound, has, verdict, check, listed, opened, missed, lacked, delegationVars>>

\* What a batch that espo answers in part leaves out: nothing that matters,
\* balances of the addresses asked for or of the excluded ones, or records of
\* the vaults (and perhaps balances).
Lacks == {"nothing", "balances", "vaults"}
Judged == {"proposal", "delegation"}

\* blocking: getProposal waits for it.
Check == [stage : {"free", "delegators", "actions", "espo"}, blocking : BOOLEAN,
          heard : SUBSET Joins]
Free == [stage |-> "free", blocking |-> FALSE, heard |-> {}]
Verdicted == {"none", "passes", "fails"}

ReadsTypeOK ==
    /\ reaches \in SUBSET SUBSET Joins
    /\ has \in [Servers -> SUBSET Joins]
    /\ verdict \in Verdicted /\ delegation \in Verdicted
    /\ sound \in BOOLEAN /\ asked \in BOOLEAN /\ offered \in BOOLEAN
    /\ check \in [Checks -> Check]
    /\ listed \in BOOLEAN /\ opened \in BOOLEAN /\ missed \in BOOLEAN
    /\ lacked \in [Judged -> BOOLEAN]

ReadsInit ==
    /\ reaches \in Contexts
    /\ sound \in BOOLEAN
    /\ has \in [Servers -> SUBSET Joins]
    /\ UNION {has[n] : n \in Servers} = Joins
    /\ verdict = "none" /\ delegation = "none" /\ asked = FALSE /\ offered = FALSE
    /\ check = [c \in Checks |-> Free]
    /\ listed = FALSE /\ opened = FALSE /\ missed = FALSE
    /\ lacked = [j \in Judged |-> FALSE]

----------------------------------------------------------------------------
\* A row comes to a node.
Gossip(n, j) ==
    /\ j \notin has[n]
    /\ has' = [has EXCEPT ![n] = @ \cup {j}]
    /\ UNCHANGED <<delegationVars, reaches, sound, verdict, check, listed, opened, missed, lacked>>

Begin(c, blocking) ==
    /\ check[c] = Free
    /\ check' = [check EXCEPT ![c] = [stage |-> "delegators", blocking |-> blocking, heard |-> {}]]

\* Bug: the background verdict is not looked at again.
ListOptimistic(c) ==
    /\ IF verdict = "none" THEN Begin(c, FALSE) ELSE UNCHANGED check
    /\ listed' = TRUE
    /\ UNCHANGED <<delegationVars, reaches, sound, has, verdict, opened, missed, lacked>>

\* listProposals: what is not judged is shown, and judged in the background.
List(c) ==
    /\ IF verdict = "none"
         THEN Begin(c, FALSE) /\ listed' = TRUE
         ELSE listed' = (verdict = "passes") /\ UNCHANGED check
    /\ UNCHANGED <<delegationVars, reaches, sound, has, verdict, opened, missed, lacked>>

\* getProposal: what is not judged is judged first.
OpenProposal(c) ==
    /\ IF verdict = "none"
         THEN Begin(c, TRUE) /\ UNCHANGED opened
         ELSE opened' = (verdict = "passes") /\ UNCHANGED check
    /\ UNCHANGED <<delegationVars, reaches, sound, has, verdict, listed, missed, lacked>>

\* No node answers with the proposal.
ListNothing ==
    /\ listed' = FALSE
    /\ UNCHANGED <<delegationVars, reaches, sound, has, verdict, check, opened, missed, lacked>>

OpenNothing ==
    /\ opened' = FALSE
    /\ UNCHANGED <<delegationVars, reaches, sound, has, verdict, check, listed, missed, lacked>>

\* fanOutGet drops the nodes that fail.
Rows(S) == UNION {has[n] : n \in S}

\* filterValidDelegators, optimistic: what is not judged is shown, and judged
\* in the background.  Calls that overlap are one: espo tells them the same.
AskEspo(heard) ==
    /\ delegation' = delegation
    /\ asked' = (asked \/ (heard /\ delegation = "none"))

\* listDelegators for the list of delegations.
ListDelegations(S) ==
    /\ AskEspo(S # {})
    /\ offered' = (S # {} /\ delegation # "fails")
    /\ UNCHANGED <<reaches, sound, has, verdict, check, listed, opened, missed, lacked>>

\* listDelegators for a proposal: without the delegation the own balance is
\* all there is, and a delegation not yet judged counts.
HearDelegators(c, S) ==
    LET counts == S # {} /\ delegation # "fails" IN
    /\ check[c].stage = "delegators"
    /\ check' = [check EXCEPT ![c].stage = IF counts THEN "actions" ELSE "espo"]
    /\ missed' = (missed \/ (sound # counts /\ Joins # {}))
    /\ AskEspo(S # {})
    /\ UNCHANGED <<reaches, sound, has, verdict, listed, opened, offered, lacked>>

HearActions(c, S) ==
    /\ check[c].stage = "actions"
    /\ check' = [check EXCEPT ![c].stage = "espo", ![c].heard = Rows(S)]
    /\ missed' = (missed \/ Rows(S) # Joins)
    /\ UNCHANGED <<delegationVars, reaches, sound, has, verdict, listed, opened, lacked>>

Judgement(heard) == IF heard \in reaches THEN "passes" ELSE "fails"

\* Does an answer that lacks this turn a judgement into v?  A balance espo does
\* not answer is 0 and an exclusion it does not answer is not taken off the
\* supply; a vault whose records it does not answer adds neither to the supply
\* nor to anybody's balance.
Turns(v, lack) ==
    \/ v = "fails" /\ lack # "nothing"
    \/ v = "passes" /\ lack = "vaults"

Outcomes(right, lack) == {v \in {"passes", "fails"} : v = right \/ Turns(v, lack)}

\* checkDelegatorThresholds, at the block of the creation: what espo answers,
\* if only the supply, is judged and cached.
JudgeDelegation(lack) ==
    /\ asked
    /\ asked' = FALSE
    /\ delegation' \in Outcomes(IF sound THEN "passes" ELSE "fails", lack)
    /\ lacked' = [lacked EXCEPT !["delegation"] = Turns(delegation', lack)]
    /\ UNCHANGED <<reaches, sound, has, verdict, check, listed, opened, missed, offered>>

\* The batch fails, or answers no supply at that block.
TrustDelegation ==
    /\ asked
    /\ asked' = FALSE
    /\ UNCHANGED <<reaches, sound, has, verdict, delegation, check, listed, opened, missed,
                   offered, lacked>>

End(c, shown) ==
    /\ check' = [check EXCEPT ![c] = Free]
    /\ opened' = IF check[c].blocking THEN shown ELSE opened

Judge(c, lack) ==
    /\ check[c].stage = "espo"
    /\ verdict' \in Outcomes(Judgement(check[c].heard), lack)
    /\ lacked' = [lacked EXCEPT !["proposal"] = Turns(verdict', lack)]
    /\ End(c, verdict' = "passes")
    /\ UNCHANGED <<delegationVars, reaches, sound, has, listed, missed>>

\* Bug: the nodes are trusted once and for all.
TrustCached(c) ==
    /\ check[c].stage = "espo"
    /\ verdict' = "passes"
    /\ lacked' = [lacked EXCEPT !["proposal"] = FALSE]
    /\ End(c, TRUE)
    /\ UNCHANGED <<delegationVars, reaches, sound, has, listed, missed>>

\* The batch fails, or answers no supply (a start block espo has no view of
\* yet): the nodes are trusted, and nothing is cached.
Trust(c) ==
    /\ check[c].stage = "espo"
    /\ End(c, TRUE)
    /\ UNCHANGED <<delegationVars, reaches, sound, has, verdict, listed, missed, lacked>>

----------------------------------------------------------------------------
EspoAnswers(c) == \E lack \in Lacks : Judge(c, lack)
EspoAnswersDelegation == \E lack \in Lacks : JudgeDelegation(lack)

ReadsNext ==
    \/ \E n \in Servers, j \in Joins : Gossip(n, j)
    \/ \E c \in Checks : List(c) \/ OpenProposal(c)
    \/ ListNothing \/ OpenNothing
    \/ \E c \in Checks, S \in SUBSET Servers : HearDelegators(c, S) \/ HearActions(c, S)
    \/ \E c \in Checks : EspoAnswers(c) \/ Trust(c)
    \/ \E S \in SUBSET Servers : ListDelegations(S)
    \/ EspoAnswersDelegation \/ TrustDelegation

\* Pages are loaded again and again; requests end, at the latest when their
\* time is over; and espo, if asked again and again, answers some time.
ReadsFairness ==
    /\ WF_readVars(\E c \in Checks : List(c))
    /\ WF_readVars(\E c \in Checks : OpenProposal(c))
    /\ \A c \in Checks :
          /\ WF_readVars(\E S \in SUBSET Servers : HearDelegators(c, S) \/ HearActions(c, S))
          /\ WF_readVars(EspoAnswers(c) \/ Trust(c))
          /\ SF_readVars(EspoAnswers(c))
    /\ WF_readVars(\E S \in SUBSET Servers : ListDelegations(S))
    /\ WF_readVars(EspoAnswersDelegation \/ TrustDelegation)
    /\ SF_readVars(EspoAnswersDelegation)

ReadsSpec == ReadsInit /\ [][ReadsNext]_readVars /\ ReadsFairness

----------------------------------------------------------------------------
(* Properties *)

\* The joins that count for the proposer.
Due == IF sound THEN Joins ELSE {}

\* nodeStore.ts: "Fail-open results ... are deliberately not cached".  Batches
\* that fail, a start block espo has no view of, checks that overlap and the
\* background check of the delegation never leave a wrong verdict in the cache.
\* Rows nobody answered with do, and a delegation wrongly counted or dropped;
\* so does a batch espo answered in part, against the proposal for a balance it
\* left out, and either way for a vault.
VerdictRight ==
    verdict # "none" /\ ~missed /\ ~lacked["proposal"] => verdict = Judgement(Due)

\* nodeStore.ts: "Anything that fails the check is pruned on the next fetch".
\* A proposal that no set of joins carries over the threshold, and a delegation
\* below its own, is shown while espo has not judged it, but in the end no page
\* shows it, unless it passed because espo's answer lacked a vault.
Pruned ==
    LET Blind(j, v) == v = "passes" /\ lacked[j]
    IN  <>[](/\ reaches = {} /\ ~Blind("proposal", verdict) => ~listed /\ ~opened
             /\ ~sound /\ ~Blind("delegation", delegation) => ~offered)

=============================================================================
