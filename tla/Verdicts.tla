----------------------------- MODULE Verdicts -----------------------------
(***************************************************************************)
(* How a node decides an ended proposal and accepts its resolution:        *)
(* refreshVerdicts, the GET handlers that call it and POST /resolutions    *)
(* (surtur-node/src/routes.ts), with computeVerdict (espo.ts).             *)
(*                                                                         *)
(* One proposal, stored open by every node; every node has every other as  *)
(* its peer.  A handler waits for espo twice, for the tip and for the      *)
(* balances at the end block, and holds on to the row it read at first.    *)
(*                                                                         *)
(* What a node stores about the proposal is a table: who voted FOR, who is *)
(* a member of a delegation and whether that delegation, Owner's, is       *)
(* listed.  Each balance is 1.  VoteGossip and Memberships say how votes   *)
(* and members come to be stored.                                          *)
(*                                                                         *)
(* Espo answers a batch request by request, and the node looks at no       *)
(* error: a balance without an answer is 0, a supply without one is 0, an  *)
(* exclusion without one is not taken off the supply.                      *)
(***************************************************************************)
EXTENDS Naturals, FiniteSets

CONSTANTS
    Nodes,
    Addresses,      \* addresses whose balance may count
    Resolutions,    \* resolutions the DAO's resolver signs
    NoResolution,
    Owner,          \* the signer of the delegation
    Tables,         \* bound: what a node may come to store
    InitialTables,  \* what tables may be at the start
    Supply,         \* the circulating supply at the end block
    Supplies,       \* what the answers for it may come to
    Threshold,      \* Threshold[s]: FOR power that passes at supply s
    EndBlock,
    MaxTip,         \* bound: the highest block mined
    Late,           \* may a node store records after the end block?
    Unreliable      \* may requests be lost, nodes crash, espo fail?

\* What a node stores: the FOR voters, the members of the delegation, and
\* whether the delegation itself is known.
Table == [votes : SUBSET Addresses, members : SUBSET Addresses, listed : BOOLEAN]

ASSUME VerdictAssumption ==
    /\ NoResolution \notin Resolutions
    /\ IsFiniteSet(Addresses)
    /\ Tables \subseteq Table
    /\ InitialTables \subseteq [Nodes -> Tables]
    /\ Supplies \subseteq Nat /\ Supply \in Supplies
    /\ Threshold \in [Supplies -> Nat]
    /\ EndBlock \in Nat /\ MaxTip \in Nat
    /\ Late \in BOOLEAN /\ Unreliable \in BOOLEAN

VARIABLES
    tip,            \* espo's tip
    tables,         \* tables[n]: what node n stores
    status,         \* status[n]: proposals.status at node n
    inFlight,       \* inFlight[n]: is the proposal in n's verdictInFlight?
    tipWaits,       \* handlers that wait for the tip
    computing,      \* handlers that wait for the balances
    resolution,     \* resolution[n]: row of node n's resolutions table
    resMsgs,        \* POST /resolutions requests under way
    posted,         \* resolutions the resolver has posted
    doubts          \* history, doubts[n]: how what n decided by was amiss

vars == <<tip, tables, status, inFlight, tipWaits, computing, resolution, resMsgs, posted, doubts>>

Statuses == {"open", "passed", "rejected"}

\* An answer may be amiss in favour of the proposal, or against it.
Doubts == {"lenient", "strict"}

\* A handler serves a read (res is NoResolution) or the POST of a resolution.
\* early: see Early.
TipWait == [at : Nodes, res : Resolutions \cup {NoResolution}, early : BOOLEAN]
Computing == [at : Nodes, res : Resolutions \cup {NoResolution}, voters : SUBSET Addresses]
ResMsg == [to : Nodes, res : Resolutions]

TypeOK ==
    /\ tip \in 0..MaxTip
    /\ tables \in [Nodes -> Tables]
    /\ status \in [Nodes -> Statuses]
    /\ inFlight \in [Nodes -> BOOLEAN]
    /\ tipWaits \subseteq TipWait
    /\ computing \subseteq Computing
    /\ resolution \in [Nodes -> Resolutions \cup {NoResolution}]
    /\ resMsgs \subseteq ResMsg
    /\ posted \subseteq Resolutions
    /\ doubts \in [Nodes -> SUBSET Doubts]

Init ==
    /\ tip = 0
    /\ tables \in InitialTables
    /\ status = [n \in Nodes |-> "open"]
    /\ inFlight = [n \in Nodes |-> FALSE]
    /\ tipWaits = {}
    /\ computing = {}
    /\ resolution = [n \in Nodes |-> NoResolution]
    /\ resMsgs = {}
    /\ posted = {}
    /\ doubts = [n \in Nodes |-> {}]

Ended == EndBlock <= tip

----------------------------------------------------------------------------
(* The chain and the tables *)

Mine ==
    /\ tip < MaxTip
    /\ tip' = tip + 1
    /\ UNCHANGED <<tables, status, inFlight, tipWaits, computing, resolution, resMsgs, posted, doubts>>

\* A vote, join or leave is stored.  No route compares with the end block;
\* Late = FALSE leaves out the records that arrive after it.
StoreRecord(n, t) ==
    /\ Late \/ ~Ended
    /\ tables' = [tables EXCEPT ![n] = t]
    /\ UNCHANGED <<tip, status, inFlight, tipWaits, computing, resolution, resMsgs, posted, doubts>>

----------------------------------------------------------------------------
(* Requests *)

Post(targets, r) == {[to |-> n, res |-> r] : n \in targets}

\* The resolver's client posts a resolution, once.
Resolve(r, targets) ==
    /\ r \notin posted
    /\ posted' = posted \cup {r}
    /\ resMsgs' = resMsgs \cup Post(targets, r)
    /\ UNCHANGED <<tip, tables, status, inFlight, tipWaits, computing, resolution, doubts>>

LoseResolution(m) ==
    /\ Unreliable
    /\ m \in resMsgs
    /\ resMsgs' = resMsgs \ {m}
    /\ UNCHANGED <<tip, tables, status, inFlight, tipWaits, computing, resolution, posted, doubts>>

\* The answer may be a tip below the end block.  If requests may fail, so may
\* this one at any time, and what it would have said is not told apart.
Early == ~Ended /\ ~Unreliable

AskTip(n, r) == tipWaits' = tipWaits \cup {[at |-> n, res |-> r, early |-> Early]}

\* GET /proposals or /proposals/:id with the row still open.
Read(n) ==
    /\ status[n] = "open"
    /\ AskTip(n, NoResolution)
    /\ UNCHANGED <<tip, tables, status, inFlight, computing, resolution, resMsgs, posted, doubts>>

\* POST /resolutions with the row still open: decide it first.
ResolveOpen(m) ==
    /\ m \in resMsgs
    /\ resolution[m.to] = NoResolution
    /\ status[m.to] = "open"
    /\ resMsgs' = resMsgs \ {m}
    /\ AskTip(m.to, m.res)
    /\ UNCHANGED <<tip, tables, status, inFlight, computing, resolution, posted, doubts>>

\* A known resolution, or a rejected proposal.
RefuseResolution(m) ==
    /\ m \in resMsgs
    /\ resolution[m.to] # NoResolution \/ status[m.to] = "rejected"
    /\ resMsgs' = resMsgs \ {m}
    /\ UNCHANGED <<tip, tables, status, inFlight, tipWaits, computing, resolution, posted, doubts>>

\* INSERT OR IGNORE: the first resolution stays.
Insert(n, r) ==
    resolution' = [resolution EXCEPT ![n] = IF @ = NoResolution THEN r ELSE @]

\* POST /resolutions with the row already passed.
ResolvePassed(m) ==
    /\ m \in resMsgs
    /\ resolution[m.to] = NoResolution
    /\ status[m.to] = "passed"
    /\ Insert(m.to, m.res)
    /\ resMsgs' = (resMsgs \ {m}) \cup Post(Nodes \ {m.to}, m.res)
    /\ UNCHANGED <<tip, tables, status, inFlight, tipWaits, computing, posted, doubts>>

----------------------------------------------------------------------------
(* refreshVerdicts *)

\* The tip is below the end block, the request for it failed, or another
\* handler is computing: the row stays open for this handler, which answers
\* a read with it and refuses a resolution with 403.
SkipVerdict(w) ==
    /\ w \in tipWaits
    /\ w.early \/ Unreliable \/ inFlight[w.at]
    /\ tipWaits' = tipWaits \ {w}
    /\ UNCHANGED <<tip, tables, status, inFlight, computing, resolution, resMsgs, posted, doubts>>

\* Whose balance counts FOR: the FOR voters who are not members, and, if the
\* delegation's signer is one of them, its members.
Counted(t) ==
    LET own == t.votes \ t.members
    IN  own \cup (IF t.listed /\ Owner \in own THEN t.members ELSE {})

\* Bug: the end block is not compared with the tip.
StartVerdictEarly(w) ==
    /\ w \in tipWaits
    /\ ~inFlight[w.at]
    /\ tipWaits' = tipWaits \ {w}
    /\ inFlight' = [inFlight EXCEPT ![w.at] = TRUE]
    /\ computing' = computing \cup {[at |-> w.at, res |-> w.res, voters |-> Counted(tables[w.at])]}
    /\ UNCHANGED <<tip, tables, status, resolution, resMsgs, posted, doubts>>

\* Bug: the set of computations in flight is not asked.
StartVerdictTwice(w) ==
    /\ w \in tipWaits
    /\ Ended
    /\ tipWaits' = tipWaits \ {w}
    /\ inFlight' = [inFlight EXCEPT ![w.at] = TRUE]
    /\ computing' = computing \cup {[at |-> w.at, res |-> w.res, voters |-> Counted(tables[w.at])]}
    /\ UNCHANGED <<tip, tables, status, resolution, resMsgs, posted, doubts>>

\* The tables are read and espo is asked for the balances.  The row's status
\* is the one the handler started with: it is not read again.
StartVerdict(w) ==
    /\ w \in tipWaits
    /\ Ended
    /\ ~inFlight[w.at]
    /\ tipWaits' = tipWaits \ {w}
    /\ inFlight' = [inFlight EXCEPT ![w.at] = TRUE]
    /\ computing' = computing \cup {[at |-> w.at, res |-> w.res, voters |-> Counted(tables[w.at])]}
    /\ UNCHANGED <<tip, tables, status, resolution, resMsgs, posted, doubts>>

\* What espo's answers come to: the voters whose balance it answers, the rest
\* counting 0, and the supply, 0 if it is not answered (or not yet computed at
\* the tip).
Readings(voters) == [priced : SUBSET voters, supply : Supplies]
Whole(voters) == [priced |-> voters, supply |-> Supply]

\* Bug: the status the frontend has and the nodes do not.
VerdictExecuted(r) ==
    IF Cardinality(r.priced) >= Threshold[r.supply] THEN "executed" ELSE "rejected"

Verdict(r) == IF Cardinality(r.priced) >= Threshold[r.supply] THEN "passed" ELSE "rejected"

\* How the answer is amiss in favour of the verdict v that follows from it: a
\* threshold too low; or one too high, or a balance that is missing.
DoubtsOf(v, voters, r) ==
    {d \in Doubts :
        \/ v = "passed" /\ d = "lenient" /\ Threshold[r.supply] < Threshold[Supply]
        \/ /\ v = "rejected" /\ d = "strict"
           /\ Threshold[r.supply] > Threshold[Supply] \/ r.priced # voters}

Leave(c) ==
    /\ computing' = computing \ {c}
    /\ inFlight' = [inFlight EXCEPT ![c.at] = FALSE]

\* The batch is answered, in part if espo fails single requests, and the
\* verdict that follows is stored.
StoreVerdict(c, r) ==
    /\ c \in computing
    /\ Unreliable \/ r = Whole(c.voters)
    /\ status' = [status EXCEPT ![c.at] = Verdict(r)]
    /\ doubts' = [doubts EXCEPT ![c.at] = @ \cup DoubtsOf(Verdict(r), c.voters, r)]
    /\ Leave(c)
    /\ UNCHANGED <<tip, tables, tipWaits, posted>>

\* Bug: the verdict is not looked at before the resolution is stored.
FinishVerdictResolving(c, r) ==
    /\ StoreVerdict(c, r)
    /\ IF c.res # NoResolution
         THEN Insert(c.at, c.res) /\ resMsgs' = resMsgs \cup Post(Nodes \ {c.at}, c.res)
         ELSE UNCHANGED <<resolution, resMsgs>>

\* A handler with a resolution goes on to store and relay it if the proposal
\* passed.
FinishVerdict(c, r) ==
    /\ StoreVerdict(c, r)
    /\ IF c.res # NoResolution /\ Verdict(r) = "passed"
         THEN Insert(c.at, c.res) /\ resMsgs' = resMsgs \cup Post(Nodes \ {c.at}, c.res)
         ELSE UNCHANGED <<resolution, resMsgs>>

\* Bug: a batch that fails counts as one without balances.
FailVerdictRejects(c) ==
    /\ Unreliable
    /\ c \in computing
    /\ status' = [status EXCEPT ![c.at] = "rejected"]
    /\ Leave(c)
    /\ UNCHANGED <<tip, tables, tipWaits, resolution, resMsgs, posted, doubts>>

\* Bug: no "finally".
FailVerdictLeaks(c) ==
    /\ Unreliable
    /\ c \in computing
    /\ computing' = computing \ {c}
    /\ UNCHANGED <<tip, tables, status, inFlight, tipWaits, resolution, resMsgs, posted, doubts>>

\* The whole batch fails (no HTTP answer, or none in 20 seconds), or a read of
\* the vaults does: the row stays open, a resolution is refused.
FailVerdict(c) ==
    /\ Unreliable
    /\ c \in computing
    /\ Leave(c)
    /\ UNCHANGED <<tip, tables, status, tipWaits, resolution, resMsgs, posted, doubts>>

\* The process of n dies and restarts: tables stay, memory is empty.
Crash(n) ==
    /\ Unreliable
    /\ tipWaits' = {w \in tipWaits : w.at # n}
    /\ computing' = {c \in computing : c.at # n}
    /\ inFlight' = [inFlight EXCEPT ![n] = FALSE]
    /\ UNCHANGED <<tip, tables, status, resolution, resMsgs, posted, doubts>>

----------------------------------------------------------------------------
Progress ==
    \/ \E m \in resMsgs : ResolveOpen(m) \/ RefuseResolution(m) \/ ResolvePassed(m)
    \/ \E w \in tipWaits : SkipVerdict(w) \/ StartVerdict(w)

Start(n) == \E w \in tipWaits : w.at = n /\ StartVerdict(w)
Finish(n) == \E c \in computing : c.at = n /\ \E r \in Readings(c.voters) : FinishVerdict(c, r)
Fail(n) == \E c \in computing : c.at = n /\ FailVerdict(c)

Next ==
    \/ Mine
    \/ \E n \in Nodes, t \in Tables : StoreRecord(n, t)
    \/ \E r \in Resolutions, targets \in SUBSET Nodes \ {{}} : Resolve(r, targets)
    \/ \E m \in resMsgs : LoseResolution(m)
    \/ \E n \in Nodes : Read(n)
    \/ Progress
    \/ \E n \in Nodes : Finish(n) \/ Fail(n) \/ Crash(n)

Spec == Init /\ [][Next]_vars

\* Pages go on reading the proposal; the event loop serves what arrived; a
\* wait for espo ends, at the latest when its 20 seconds are over (espo.ts);
\* and espo, if asked again and again, answers some time.
FairSpec ==
    /\ Spec
    /\ WF_vars(Progress)
    /\ \A n \in Nodes :
          /\ WF_vars(Read(n))
          /\ WF_vars(Finish(n) \/ Fail(n))
          /\ SF_vars(Start(n))
          /\ SF_vars(Finish(n))

----------------------------------------------------------------------------
(* Properties *)

\* verdictInFlight holds the proposal exactly while one handler computes.
OneComputation ==
    \A n \in Nodes :
        /\ inFlight[n] <=> \E c \in computing : c.at = n
        /\ \A c, d \in computing : c.at = n /\ d.at = n => c = d

\* No verdict, and none under way, before the end block is mined.
NoVerdictBeforeEnd ==
    \A n \in Nodes : status[n] # "open" \/ inFlight[n] => Ended

\* Of two verdicts, v reached with doubts d and w with e: if they differ, the
\* one that passed had an answer amiss in favour of the proposal, or the one
\* that rejected had an answer amiss against it.
Consistent(v, d, w, e) ==
    /\ v = "passed" /\ w = "rejected" => "lenient" \in d \/ "strict" \in e
    /\ v = "rejected" /\ w = "passed" => "strict" \in d \/ "lenient" \in e

\* espo.ts: "the persisted status is final".  A handler that still holds the
\* row as open writes another verdict only if espo left out parts of an
\* answer, its or an earlier one.
VerdictFinal ==
    [][\A n \in Nodes : status[n] # "open" =>
          /\ status'[n] # "open"
          /\ Consistent(status[n], doubts[n], status'[n], doubts'[n])]_vars

\* api/orchestrator/verdicts/route.ts: nodes "run the identical deterministic
\* computation".  Nodes that store the same records decide alike, whatever
\* each went through, unless espo left out parts of an answer; a balance it
\* left out can only reject, a supply it left out can only pass.
NodesAgree ==
    \A m, n \in Nodes :
        tables[m] = tables[n] => Consistent(status[m], doubts[m], status[n], doubts[n])

\* A node holds a resolution only of a proposal that passed, unless a handler
\* that computed again had an answer amiss, or the first one had.
ResolvedIsPassed ==
    \A n \in Nodes : resolution[n] # NoResolution =>
        \/ status[n] = "passed"
        \/ status[n] = "rejected" /\ doubts[n] # {}

\* Once its end block is mined, a proposal that keeps being read is decided
\* at every node: no failure, restart or overlap of handlers leaves it open
\* for good.
Decided == Ended ~> \A n \in Nodes : status[n] # "open"

Quiet == resMsgs = {} /\ tipWaits = {} /\ computing = {}

\* relay.ts: "a client only needs to reach one node for the whole network to
\* converge".  If one node stores the resolution, all do once the network is
\* quiet.
ResolutionEverywhere ==
    Quiet /\ (\E n \in Nodes : resolution[n] # NoResolution)
        => \A n \in Nodes : resolution[n] # NoResolution

=============================================================================
