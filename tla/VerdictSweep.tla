---------------------------- MODULE VerdictSweep ----------------------------
(***************************************************************************)
(* GET /api/orchestrator/verdicts (frontend/app/api/orchestrator/verdicts/ *)
(* route.ts) on top of the nodes of Verdicts: the orchestrator adopts the  *)
(* verdict of the first node that answers, or computes it itself from the  *)
(* votes and delegations of all nodes, and holds it as long as its process *)
(* lives.                                                                  *)
(***************************************************************************)
EXTENDS Verdicts

CONSTANT First      \* the head of SURTUR_NODES, the first node asked for rows

ASSUME SweepAssumption == First \in Nodes

VARIABLES
    cache,          \* verdictCache of the proposal
    sweep,          \* the sweep in flight
    rows,           \* the proposal's status in node answers on their way to GETs
    answered,       \* the verdicts the orchestrator has answered
    swept           \* history: how what the sweeps computed with was amiss

sweepVars == <<cache, sweep, rows, answered, swept>>

NoVerdict == "none"
Terminal == {"passed", "rejected"}

\* A sweep waits for the tip (phase "tip"), then for the votes of voteWaits and
\* the delegation context of contextWaits.  votes, members and listed: the
\* tables of the nodes that answered.  early: see Early.
Sweep == [phase : {"tip", "votes"}, early : BOOLEAN,
          voteWaits : SUBSET Nodes, contextWaits : SUBSET Nodes,
          votes : SUBSET SUBSET Addresses, members : SUBSET SUBSET Addresses,
          listed : SUBSET BOOLEAN]
NoSweep == [phase |-> "idle"]

\* What GET /delegations and GET /delegators answer.
ContextParts == {"actions", "delegators"}

SweepTypeOK ==
    /\ cache \in Terminal \cup {NoVerdict}
    /\ sweep \in Sweep \cup {NoSweep}
    /\ rows \subseteq Statuses
    /\ answered \subseteq Terminal
    /\ swept \subseteq Doubts

SweepInit ==
    /\ Init
    /\ cache = NoVerdict
    /\ sweep = NoSweep
    /\ rows = {}
    /\ answered = {}
    /\ swept = {}

----------------------------------------------------------------------------
(* GET up to the rows *)

\* fetchNodeRows takes the first node that answers.  The node's handler is a
\* Read of Verdicts: it answers the row as it found it, or its own verdict.
ReadRows(n) ==
    /\ Unreliable \/ n = First
    /\ \E s \in {status[n], "open"} : rows' = rows \cup {s}
    /\ UNCHANGED <<cache, sweep, answered, swept>>

\* Bug: a verdict is adopted while a sweep is in flight.
JoinSweepAdopting(s) ==
    /\ s \in rows
    /\ sweep # NoSweep
    /\ rows' = rows \ {s}
    /\ cache' = IF s = "open" THEN cache ELSE s
    /\ UNCHANGED <<sweep, answered, swept>>

\* A sweep is in flight: wait for it, whatever the rows say.
JoinSweep(s) ==
    /\ s \in rows
    /\ sweep # NoSweep
    /\ rows' = rows \ {s}
    /\ UNCHANGED <<cache, sweep, answered, swept>>

AnswerCached(s) ==
    /\ s \in rows
    /\ sweep = NoSweep
    /\ cache # NoVerdict
    /\ rows' = rows \ {s}
    /\ answered' = answered \cup {cache}
    /\ UNCHANGED <<cache, sweep, swept>>

----------------------------------------------------------------------------
(* sweepDao *)

\* Bug: the row's status is adopted without a look at what it says.
AdoptAny(s) ==
    /\ s \in rows
    /\ sweep = NoSweep
    /\ cache = NoVerdict
    /\ cache' = s
    /\ rows' = rows \ {s}
    /\ answered' = answered \cup (Terminal \cap {s})
    /\ UNCHANGED <<sweep, swept>>

\* The node has decided: its verdict is the answer.
Adopt(s) ==
    /\ s \in rows \cap Terminal
    /\ sweep = NoSweep
    /\ cache = NoVerdict
    /\ cache' = s
    /\ rows' = rows \ {s}
    /\ answered' = answered \cup {s}
    /\ UNCHANGED <<sweep, swept>>

Asking(phase, early, nodes) ==
    [phase |-> phase, early |-> early, voteWaits |-> nodes, contextWaits |-> nodes,
     votes |-> {}, members |-> {}, listed |-> {}]

StartSweep(s) ==
    /\ s \in rows
    /\ s = "open"
    /\ sweep = NoSweep
    /\ cache = NoVerdict
    /\ sweep' = Asking("tip", Early, {})
    /\ rows' = rows \ {s}
    /\ UNCHANGED <<cache, answered, swept>>

\* The tip is below the end block, or espo fails.
SkipSweep ==
    /\ sweep.phase = "tip"
    /\ sweep.early \/ Unreliable
    /\ sweep' = NoSweep
    /\ UNCHANGED <<cache, rows, answered, swept>>

AskAll == sweep' = Asking("votes", FALSE, Nodes)

\* Bug: the end block is not compared with the tip.
FetchVotesEarly ==
    /\ sweep.phase = "tip"
    /\ AskAll
    /\ UNCHANGED <<cache, rows, answered, swept>>

\* Votes and delegations are fetched from every node, the balances from espo.
FetchVotes ==
    /\ sweep.phase = "tip"
    /\ Ended
    /\ AskAll
    /\ UNCHANGED <<cache, rows, answered, swept>>

HearVotes(n) ==
    /\ sweep.phase = "votes"
    /\ n \in sweep.voteWaits
    /\ sweep' = [sweep EXCEPT !.voteWaits = @ \ {n}, !.votes = @ \cup {tables[n].votes}]
    /\ UNCHANGED <<cache, rows, answered, swept>>

\* A node that does not answer is left out.
MissVotes(n) ==
    /\ sweep.phase = "votes"
    /\ n \in sweep.voteWaits
    /\ Unreliable
    /\ sweep' = [sweep EXCEPT !.voteWaits = @ \ {n}]
    /\ UNCHANGED <<cache, rows, answered, swept>>

\* fetchDelegationContext: joins and leaves, and the delegations there are, by
\* two requests; if one of them fails both answers are dropped, if one is
\* refused the other is used.
HearContext(n, parts) ==
    /\ sweep.phase = "votes"
    /\ n \in sweep.contextWaits
    /\ Unreliable \/ parts = ContextParts
    /\ sweep' = [sweep EXCEPT
          !.contextWaits = @ \ {n},
          !.members = @ \cup {m \in {tables[n].members} : "actions" \in parts},
          !.listed = @ \cup {l \in {tables[n].listed} : "delegators" \in parts}]
    /\ UNCHANGED <<cache, rows, answered, swept>>

\* The sets heard are joined: one vote per address, the smallest signature; one
\* delegation per member, the latest action.  If the nodes differ on an address
\* either may be the one.
Merges(heard) ==
    {v \in SUBSET UNION heard : \A x \in UNION heard : (\A t \in heard : x \in t) => x \in v}

Merged == [votes : Merges(sweep.votes), members : Merges(sweep.members),
           listed : {TRUE \in sweep.listed}]

\* Unlike a node (thresholdPower of 0 is 0), the sweep lets nothing pass on a
\* supply of 0.
SweepVerdict(r) == IF r.supply > 0 THEN Verdict(r) ELSE "rejected"

\* What is amiss in favour of the verdict v: espo's answer r for these voters,
\* and what no node answered.  Without votes or delegations power is missing;
\* without joins and leaves the own votes of members count in place of their
\* membership.
SweepDoubts(v, voters, r) ==
    LET noVotes   == sweep.voteWaits = {} /\ sweep.votes = {}
        noActions == sweep.contextWaits = {} /\ sweep.members = {}
        noListing == sweep.contextWaits = {} /\ sweep.listed = {}
    IN  DoubtsOf(v, voters, r) \cup
          {d \in Doubts :
              \/ v = "passed" /\ d = "lenient" /\ noActions
              \/ /\ v = "rejected" /\ d = "strict"
                 /\ noVotes \/ noActions \/ noListing \/ r.supply = 0}

CacheVerdict(v) ==
    /\ cache' = v
    /\ answered' = answered \cup {v}
    /\ sweep' = NoSweep
    /\ UNCHANGED rows

\* Balances and supply have come in, too: what they come to is cached.
CacheComputed ==
    \E t \in Merged : \E r \in Readings(Counted(t)) :
        /\ Unreliable \/ r = Whole(Counted(t))
        /\ CacheVerdict(SweepVerdict(r))
        /\ swept' = swept \cup SweepDoubts(SweepVerdict(r), Counted(t), r)

\* Bug: the votes that have come in when espo answers are enough.
FinishSweepFirst == sweep.phase = "votes" /\ CacheComputed

\* The verdict waits for every answer, and is held for every later request.
FinishSweep ==
    /\ sweep.phase = "votes"
    /\ sweep.voteWaits = {} /\ sweep.contextWaits = {}
    /\ CacheComputed

\* Bug: a sweep that fails counts as one without votes.
FailSweepRejects ==
    /\ Unreliable
    /\ sweep.phase = "votes"
    /\ CacheVerdict("rejected")
    /\ UNCHANGED swept

\* Espo fails, if only one request of the batch: nothing is cached.
FailSweep ==
    /\ Unreliable
    /\ sweep.phase = "votes"
    /\ sweep' = NoSweep
    /\ UNCHANGED <<cache, rows, answered, swept>>

\* The orchestrator's process dies, and its cache with it.
Restart ==
    /\ Unreliable
    /\ cache' = NoVerdict
    /\ sweep' = NoSweep
    /\ rows' = {}
    /\ UNCHANGED <<answered, swept>>

----------------------------------------------------------------------------
Orchestrate ==
    \/ \E n \in Nodes : ReadRows(n) \/ HearVotes(n) \/ MissVotes(n)
    \/ \E n \in Nodes, parts \in SUBSET ContextParts : HearContext(n, parts)
    \/ \E s \in rows : JoinSweep(s) \/ AnswerCached(s) \/ Adopt(s) \/ StartSweep(s)
    \/ SkipSweep \/ FetchVotes \/ FinishSweep \/ FailSweep
    \/ Restart

SweepNext ==
    \/ Next /\ UNCHANGED sweepVars
    \/ Orchestrate /\ UNCHANGED vars

SweepSpec == SweepInit /\ [][SweepNext]_<<vars, sweepVars>>

----------------------------------------------------------------------------
(* Properties *)

SameTables == \A m, n \in Nodes : tables[m] = tables[n]

\* All that was amiss in what the nodes and the sweeps computed with.
AllDoubts == swept \cup UNION {doubts[n] : n \in Nodes}

\* route.ts: "nodes run the identical deterministic computation".  If the
\* nodes store the same records, the orchestrator holds what every node that
\* has decided stores, whoever was first, unless an answer was amiss: it passes
\* what a node rejects only if espo or a dropped delegation context was amiss
\* in favour of the proposal, or the node's answer against it, and the other
\* way round.  One node that answers is enough for each part.
CacheAgrees ==
    SameTables => \A n \in Nodes : Consistent(cache, AllDoubts, status[n], doubts[n])

\* No visitor is told passed and another one rejected unless an answer was
\* amiss, even though the orchestrator and the nodes restart, fail and compute
\* again in between.
OneAnswer == SameTables => Cardinality(answered) <= 1 \/ AllDoubts # {}

\* route.ts: verdicts are "pinned at each proposal's end block".  None is
\* cached, or computed by a sweep, before the end block is mined.
CachedAfterEnd == cache # NoVerdict \/ sweep.phase = "votes" => Ended

\* "computed at most ONCE per proposal": whatever sweeps and adoptions
\* overlap, a cached verdict is replaced by none but lost with the process.
CacheHeld == [][cache' \in {cache, NoVerdict} \/ cache = NoVerdict]_<<vars, sweepVars>>

=============================================================================
