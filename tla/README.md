# Surtur DAO: a TLA+ model of its nodes and clients

Surtur is governance for token DAOs without a server of record. Proposals,
votes, delegations and resolutions are signed records. A small whitelisted
network of `surtur-node` processes stores and relays them; a Next.js frontend
posts to every node and merges what the nodes answer; an indexer, espo, answers
what an address held at a block. Nothing coordinates the nodes: whatever
agreement there is comes from each node applying the same rule to whatever
reaches it, in whatever order.

The modules here model that network and the client code around it. TLC checks
them on small instances, TLAPS proves the central results for every size.

## 1. The system

| Component | State | Operations | Talks to |
|---|---|---|---|
| Orchestrator endpoint (`frontend/app/api/orchestrator/route.ts`, `surtur.config.ts`, `daos.ts`) | the node whitelist and the DAOs of the deployed build | GET | nodes pull it |
| Node: configuration sync (`surtur-node/src/orchestrator.ts`, end of `db.ts`) | tables `peers`, `daos` | pull at boot and every minute | orchestrator |
| Node: relay (`relay.ts`) | none | POST an accepted record to every peer, once, no retry | other nodes |
| Node: proposals (`routes.ts` 62-167) | table `proposals` | POST, GET (which refreshes verdicts) | espo, relay |
| Node: votes (`routes.ts` 169-247) | table `votes`, one row per proposal and address | POST, GET, counts | espo, relay |
| Node: delegations (`routes.ts` 249-491, `shared/src/delegation.ts`) | tables `delegators` (profile with its latest update) and `delegation_actions` | create, update profile, join, leave | espo tip, relay |
| Node: verdicts and resolutions (`routes.ts` 514-636, `espo.ts` 165-233) | `proposals.status`, the set `verdictInFlight`, table `resolutions` | compute on read, resolve | espo, relay |
| Orchestrator: verdicts (`api/orchestrator/verdicts/route.ts`) | `verdictCache`, `inflight` | GET: adopt or compute | nodes, espo |
| Orchestrator: overview (`api/orchestrator/overview/route.ts`) | `tipCache`, `overviewCache`, `inflight` | GET | espo |
| Frontend node store (`frontend/lib/dao/nodeStore.ts`) | `ThresholdVerdictCache` in localStorage | fan-out writes, merging reads, threshold checks | nodes, espo |
| Shared arithmetic (`shared/src/types.ts`, `circulating.ts`, `vaultPower.ts`) | none | thresholds, circulating supply, unclaimed vault emissions | |
| Shared verification (`verify.ts`, `bip322.ts`, `proposal.ts`, `schemas.ts`) | none | ids, signatures, shapes | |
| Wallet transport (`frontend/lib/wc/frtun/*`, `lib/wallet/mobile.ts`) | WebSocket streams, pairing session | listen, pair, request | relay server, phone |
| Popup connector (`subfrost-connect/src/connector.ts`, `VendorWalletContext.tsx`) | one popup, pending requests, connected account | connect, sign | wallet window |
| Pages (`VotingSection.tsx`, `app/proposals/*`, `app/delegations/*`, hooks) | queries cached by React Query, a submission under way, the close transition | show, vote, propose, join, leave, edit | node store, espo, orchestrator, wallets |
| i18n, local store, transaction assembly, WASM bindings | view state | | |

What is hard here:

- A handler reads SQLite, waits for espo (up to 20 s), then writes on the
  strength of what it read. SQLite is synchronous (`node:sqlite`), so the waits
  for espo are the only places where handlers of one node interleave, and they
  are in the middle of every read-decide-write.
- Relays are fire-and-forget. They overtake each other, they are lost with the
  process or the connection, and a record a peer refuses today is not sent
  again tomorrow. There is no anti-entropy.
- Rules meant to make order irrelevant (smallest signature, highest nonce,
  verdict pinned at the end block) rest on every node comparing against what it
  stores at that moment and on every record arriving in time.
- Results that depend on what has arrived so far are stored for ever: statuses,
  resolutions, the browser's threshold cache.
- Espo answers a batch request by request, and nodes and browser look at no error in
  it: a balance without an answer is 0, a supply without one is 0, and what follows is
  stored for ever, too.

What makes each component correct, in short: an accepted vote is valid and is
never lost by its node; nodes converge on the smallest signature; a profile
never goes back to an older nonce; membership at a settled height never
changes; a verdict is final and the same everywhere, as far as espo answers;
every balance counts once
in a tally; a request to a wallet gets the answer meant for it, once, and the page
never swaps one wallet for another; what a visitor is shown does not go back; a
page ends up with the status the nodes came to; what a user signs last wins; and
a share is over a threshold for all who compare it, or for none.

## 2. Modules

`NodeConfig` -- the pull from the orchestrator. `listing` is what the
orchestrator answers, `peers[n]` and `dao[n]` node n's tables. `Publish` is a new
deployment, `Sync` one successful pull. A failed pull changes nothing.

`ProposalGossip` (EXTENDS `NodeConfig`) -- POST /proposals, the relay and the
client's fan-out. A request in flight is a record in `propMsgs`; a handler that
waits for espo is a record in `propHandlers`.

`VoteGossip` (EXTENDS `ProposalGossip`) -- POST /votes. `StartVote` is the code
up to `await voterHoldsToken`, with the stored vote it read kept in the handler
(`existing`); `InsertVote`, `ReplaceVote` and `KeepVote` are the three ends of
the handler, `KnownVote` and `RefuseVote` its early returns, `FailVote` an error
or a refusal of espo, `Crash` a restart of the process. `cast` and `acked` are
history: the votes posted by clients and the votes a node answered "ok" to.

`SmallestVote` -- the abstract specification of the votes route: a node merges
an acknowledged vote by taking the smaller signature, in one step.

`Verdicts` -- how an ended proposal is decided and its resolution accepted:
refreshVerdicts, the reads that call it, POST /resolutions, computeVerdict. A
handler waits twice: `tipWaits` holds the handlers that asked espo for the tip,
`computing` those that asked for the balances at the end block. Both hold on to
the row they read first, so `StartVerdict` and `FinishVerdict` do not look at
`status` again. `inFlight[n]` is node n's `verdictInFlight`. A handler of a POST
carries the resolution (`res`), which `FinishVerdict` or `ResolvePassed` stores
and relays; a handler of a read carries none. What a node stores about the
proposal is `tables[n]`: who voted FOR, who is a member of a delegation and whether
that delegation is listed. `Counted` derives who counts FOR, as computeVerdict does;
each balance is 1. `StoreRecord` replaces the table by any other of `Tables`: it
stands for the routes that store such records, none of which compares with the end
block; `Late = FALSE` leaves out those that arrive after it. `early` marks a request
for the tip made before the end block was mined: its answer may be too low (if
requests may fail, `SkipVerdict` is possible at any time and the mark is not kept).

espoBatch (`espo.ts` 17-28) throws if the batch fails as a whole: `FailVerdict`, the
row stays open. It keeps only the `result` of each answer: `Readings` are what a batch
may come to if espo fails single requests, any part of the balances (`priced`) and any
of `Supplies`. A supply comes out as 0 if it was not answered or is not yet computed
at the tip, too low if a vault's record is missing, too high if the balance of an
excluded address is. `Threshold[s]` is the power that passes at a supply of s;
`Threshold[0]` is 0, so a node passes anything on a supply of 0. `StoreVerdict` stores
what follows from the reading. `doubts[n]` is history: "lenient" if n stored passed
with a threshold too low, "strict" if it stored rejected with one too high or without
some balance.

`VerdictSweep` (EXTENDS `Verdicts`) -- GET /api/orchestrator/verdicts over those
nodes. `cache` is `verdictCache`, `sweep` the promise in `inflight`. `rows` are the
statuses on their way from the first node that answered (`ReadRows`: such a read
is a `Read` of `Verdicts`, whose answer is the row it found or the verdict it
computed). Then: `JoinSweep` waits for the sweep in flight; `AnswerCached`; `Adopt`
takes the node's verdict; `StartSweep` asks for the tip. `FetchVotes` asks all nodes
for votes and for the delegation context. `HearVotes` and `MissVotes` are the answers
to the first; `HearContext` those to the second, two requests per node: if one fails
both are dropped, if one is refused the other is used. `FinishSweep` merges and caches,
`SkipSweep` and `FailSweep` end the sweep without a verdict. Where nodes differ on an
address the smallest signature or the highest nonce decides in the code; either row
may be the one here (`Merges`). `SweepVerdict` is a node's `Verdict` except on a supply
of 0, which rejects. Its batch throws if any request of it failed (`governance.ts`),
but a supply answered as 0, a list without holders or a vault without its record do
get through. `swept` is history: what was amiss in favour of what the sweeps cached,
espo's answer or a part of the records that no node answered with.

`Nonces` -- compareActions (`Beats`), the order of everything signed about
delegations, and the window of heights around the tip that a node accepts.

`Profiles` -- one delegation: POST /delegators, which waits for the tip and then
for the creator's balances (`Creating`), and POST /delegator-updates, which waits
for the tip. `profile[n]` is the update in node n's row. `ApplyUpdate` and
`KeepUpdate` are applyDelegatorUpdate returning true and false: it reads,
compares and writes in one turn of the event loop, after the wait, which is what
the votes route does not do. An answer of espo is any tip between the one at the
time of the question (`asked`) and the present one.

`DelegatedTally` -- the pure part: resolveDelegationState as a definition
(`Membership`: the action no other beats) and as the loop over rows
(`RowsMembership`), which votes count and which balances they carry, and the
addresses computeVerdict asks espo about.

`Memberships` -- POST /delegations over any number of delegations. `log[n]` is
node n's action table, `known[n]` its delegations; the owner check and the lookup
of the delegation come before the wait for the tip, INSERT OR IGNORE after it.

In `Profiles` and `Memberships`, `missed[n]` is history: what was lost on the way to n, or n refused or
failed at. The relay has no memory, so what it promises can only be said of
nodes that missed nothing, or up to what a node missed. Every node has every
other as its peer.

The rest is the browser's and the orchestrator's side. Each of these modules has
state of its own and none shares a variable with another.

`WalletCalls` -- the abstract specification of asking a wallet: a call returns
once, with an answer given to that very call, or fails, and does one of the two.

`FrtunSessions` -- pairing with a phone over the bridge: `listen` and
`FrtunStream` (`transport.ts`), `connect` and `FrtunSession` (`client.ts`).
`link[p]` is a pairing with its socket: the event it waits for (`stage`), what
the bridge has said (`far`), frames on their way (`wire`), the requests chained
in `tail` (`queue`). The bridge, the phone and the network do what they like:
refuse, hang up, answer late, send what does not decrypt. A frame and all it lets
run is one step, as it is one turn of the event loop.

`WalletContext` (EXTENDS `FrtunSessions`) -- `VendorWalletContext.tsx` with
`ConnectWalletModal.tsx`: the session shown, the one in localStorage, the
adapter that signs, the modal, the pairing it shows and the popup or extension
being connected. `PairingEnds` is what `startMobilePairing` does after each step
of its connection; `Reload` loads the page again.

`PopupRequests` -- `SubfrostConnector.request` with the popups opened in the
click. All calls of both connectors share one named window. `window` is its
page: which origin was loaded last, which call's init it heard first. `Message`,
`Closed` and `Timeout` are the three ways `request` settles.

`Overview` -- GET /api/orchestrator/overview. `visit[v]` is a request to the
route, `fetch[v]` the request to espo it started and that others share, `tipCache`
and `overview` the two caches. Espo answers with the height it is at when it serves
a request, which reaches the route later (`got`). `seen` and `floor` are
history: the newest figures anybody was answered, and what that was when v came.

`ThresholdReads` -- whether a browser shows a proposal and a delegation:
listProposals, getProposal, checkThresholds, listDelegators and
checkDelegatorThresholds around `thresholdVerdictCache`, whose two entries are
`verdict` and `delegation`. `check[c]` is one checkThresholds call, waiting for the
delegations, the joins and leaves, then espo. listDelegators, which it calls, starts
a background check of the delegation (`asked`) and counts the delegation meanwhile.
A batch that fails, or answers no supply, ends in `Trust`: nothing is cached. Else
`Judge` caches what follows, also if the answer lacks balances or the records of a
vault (`lack`): the first can only fail the proposer, the second turns either way
(`Turns`). `missed` and `lacked` are history: some call went on without a row or with a
delegation wrongly counted or dropped; the cached verdict may have been turned by what
espo left out.

`VaultRewards` and `VotingPower` -- the arithmetic: resolveThreshold and
thresholdPower, what a vault position can claim, and who holds how much of which
supply according to the nodes, the threshold check, the page that submits and the
buttons. `world` is what espo answers for the present block; claims, transfers
and blocks change it.

`ProposalPage` -- the status on a proposal's page: the query of each tip and the
effect of `useVoting` that closes an ended proposal before the nodes say so.

`SigningPages` -- the nonce a delegation page signs, from the query held at the
click (`captured`), through the tip, the wallet and `fanOutPost`, to the read that
unlocks the button. `newest` is the last record the page got accepted; `blind`
says that the page could not know better: it read from nodes that miss a record,
was clicked before its first answer, was told of a failure that was none, or was
left while it posted.

`MCVoteGossip`, `MCVerdicts`, `MCVerdictSweep`, `MCProfiles`, `MCMemberships`,
`MCFrontend` -- instances for TLC. `VoteGossipProofs`, `VerdictProofs` (with the
sweep's), `ProfileProofs`, `MembershipProofs`, `WalletProofs`, `PowerProofs`,
`FrontendProofs` -- theorems; `Inductions` -- the inductions over numbers and finite
sets that they share. `Verdicts` is a module of its own
rather than an extension of `VoteGossip`: the verdict depends on a node's tables
only, and the vote gossip adds nothing to them that `StoreRecord` does not.

Abstractions shared by the modules of the nodes: one DAO (handlers never look at two); a
record that is malformed or wrongly signed is not posted (the checks are pure
and end in a refusal without effect); a signature is a number, ordered as the
strings are; equal requests of one sender that are in flight at the same time
are one, messages and handlers being sets.

The definitions under a comment "Bug:" are variations of the code used to check
that each property can fail; nothing else refers to them.

## 3. Runs

| Run | Instance | Question | Result |
|---|---|---|---|
| `votes_unreliable` | 2 nodes, 1 proposal, 1 voter, 2 signatures, 2 posts; node B and the DAO's flag change with deployments; losses, crashes, espo failures, overlapping handlers | does a node ever store a vote it should not, or lose one it accepted? | no: `TypeOK`, `StoredVotesValid`, `AckedIsStored` hold |
| `votes_serial` | 2 nodes, 3 signatures, 3 posts, nothing lost, no overlap of handlers for one key | is smallest-signature enough to converge, and does the relay stop? | yes: `SmallestEverywhere`, `KeepsThePromise`, `GossipEnds` |
| `votes_overlap` | as above with overlap | and when handlers overlap? | no: `SmallestEverywhere` fails |
| `votes_early` | 2 nodes, 1 vote, no loss, no overlap, the proposal still spreading | and when a vote overtakes its proposal? | no: `SmallestEverywhere` fails |
| `verdicts_in_time` | 2 nodes, 2 addresses, a delegation, 1 resolution, end block 1; losses, crashes, overlapping handlers, espo failing or answering in part (4 supplies); records before the end block only | is a verdict computed after the end, for good, the same everywhere, and eventually? | yes, up to answers that were amiss in favour of the verdict: `NoVerdictBeforeEnd`, `ResolvedIsPassed`, `NodesAgree`, `VerdictFinal`, `Decided` |
| `verdicts_late` | records after the end block too, nothing fails | and when a record is late? | no: `VerdictFinal` fails |
| `verdicts_resolve` | nodes with the same tables, nothing fails or is late | does a resolution reach every node? | no: `ResolutionEverywhere` fails |
| `verdict_sweep` | 2 nodes, 2 addresses, a delegation with a member, end block 1, records in time; losses, crashes, espo failing or answering in part (2 supplies), nodes that answer only in part or not at all, restarts of the orchestrator | does the orchestrator hold the nodes' verdict, and only after the end block? | yes, up to answers that were amiss and records no node answered with: `CacheAgrees`, `OneAnswer`, `CachedAfterEnd`, `CacheHeld` |
| `profiles` | 2 nodes, 3 updates (two tie on height and seq), 2 posts, 2 blocks, allowance 0; losses, crashes, espo failures, updates before the delegation | does a node keep the greatest update, in any order? | yes: `GreatestKept`, `BehindOnlyIfMissed` |
| `memberships` | 2 nodes, 3 addresses, 2 delegations (one late at B), 4 joins and leaves, 2 posts, 2 blocks, allowance 0; losses, crashes, espo failures | is history settled, do nodes agree, does a balance count once? | yes: `HistorySettled`, `MembersAgree`, `LackedOnlyIfMissed`, `ResolveOrderFree`, `BalanceOnce`, `PricedIsCarried` |
| `memberships_tie` | 2 nodes, one join signed twice and another at its nonce, nothing lost | does the smallest signature decide a tie? | no: `MembersAgree` fails |
| `frontend` | seven parts, one per behaviour (below) | does the client side keep its promises over wallets, caches and nodes that fail in every way? | yes: the thirteen properties below |

Bounds: `MaxPosts` caps how often clients post; a proposal is published once.
Two nodes have every order of relay, echo and client post between them; three
signatures give a replacement that is itself replaced while both are relayed.
Convergence is proved for any number, so the small instance is a check of the
formulas, not the argument.

`votes_overlap`: A starts signature 2, then signature 1, both with nothing
stored. Signature 2 is inserted; INSERT OR IGNORE drops 1, which is answered
"ok" and relayed all the same; at the other node the order is reversed. Or: the
stored vote is 3, both handlers read 3, 1 replaces 3, then 2 replaces 1. The
comment at `routes.ts` 222-228 promises a result "regardless of arrival order".

`votes_early`: node A stores proposal and vote and relays both; B gets the vote
first and answers 400 "unknown proposal"; the relay logs it at most, and B never
learns the vote. `relay.ts` 4-5 says that "a client only needs to reach one node
for the whole network to converge".

`verdicts_late`: two reads at A find the row open; the first stores "rejected"; a
vote that was stored meanwhile makes the second store "passed". `espo.ts` 166-168
calls the persisted status final, `routes.ts` 590 "computed once".

`verdicts_resolve`: B is computing for a reader when the resolution relayed by A
arrives; `refreshVerdicts` skips the proposal, the row is still open, the answer
is 403. B then stores "passed", and never learns the resolution.

`memberships_tie`: Alice joins D1 with signature 3 at node A and with signature 1
at node B (the same action, signed twice), and D2 with signature 2, all at one
nonce. A answers "known" to signature 1 and keeps 3, so that D2 wins there; B
keeps 1, so that D1 wins. `delegation.ts` 11-13 lets ties "converge on the
lexicographically smallest signature".

In `profiles` and `memberships` one block after the start puts an action of the
first block out of the window, the allowance being 0: this is the least instance
in which an action is accepted by one node and too late at another, and a height
is settled. The code's allowance of 5 needs six blocks for the same; the proofs
are for any.

`verdicts_in_time` and `verdict_sweep` do not show that a verdict never changes: in
this code it may. `espo.ts` 166-168 calls a stored status final, `verdicts/route.ts`
the computation of the nodes identical; but with one balance refused a node stores
"rejected" where another, or its own earlier handler, stored "passed", even beside a
resolution it has accepted; and on a supply of 0, which `espo.ts` 66-70 expects at the
exact tip where verdicts are computed, a node stores "passed" and the orchestrator
caches "rejected". What the runs show is that there is no other way, and in which
direction each goes (`Consistent`): of two verdicts that differ, the one that passed had
a threshold too low, or the one that rejected had one too high, a supply of 0 in a
sweep, or a balance missing. No overlap of handlers, restart, loss or failure of a
whole batch is among the reasons.

For the orchestrator there are three more, when no node at all answers with a part
of the records. Without votes, or without delegations, power is missing: the sweep may
reject what the nodes pass. Without joins and leaves the members' own votes count and
their balances do not follow their delegate: it may go wrong either way. It holds the
result for as long as the process lives. A sweep whose espo request fails caches
nothing.

The verdict runs need no more than one block after the start (`MaxTip`): only the
comparison with the end block matters. Alice owns the delegation and Bob is its
member or not: a table passes by alice's vote with bob's balance, or fails by a vote
that carries nobody; read without the joins, bob's vote would count. Supplies are the
true one, 0, and in `verdicts_in_time` one too low and one too high. In
`verdict_sweep` bob is always a member, which is what makes a lost context matter, and
nodes are symmetric: `First` tells them apart only where requests do not fail.

`frontend` checks seven parts that share no variable. A behaviour is one of
`part`; the variables of the others keep a fixed value, so that the state space
is the sum of the seven (about 244,000 states) and not their product.

| Part | Instance | Question | Properties |
|---|---|---|---|
| `wallet` | 2 pairings, 2 signatures, one other wallet, reloads | does a request to the phone end, with its own answer? can a wallet turn into another? | `FrtunCalls`, `DeadSettles`, `NoReplacement`, `StoredIsShown` |
| `popup` | 2 calls of one connector, 1 of the other, one window name, 2 windows, 1 message under way | the same of the popup | `PopupCalls` |
| `overview` | 3 visitors, 2 blocks | does anybody see older figures than somebody before? | `OverviewForward` |
| `reads` | 2 nodes with any rows, a join, 2 checks at once, a delegation above or below its threshold, a share reached never or only with the join, batches answered in part | is the cached verdict the right one, and does what fails leave the pages? | `VerdictRight`, `Pruned` |
| `power` | 3 addresses (one may be excluded), a contract, a vault with 2 positions, 3 blocks around the fork, 4 thresholds | does a claim move a threshold? do all who check a share agree? | `ClaimNeutral`, `PowerAgrees` |
| `page` | 2 nodes, either verdict, the end block mined at any time, reloads | does the page end up with the nodes' verdict? | `ShownInTheEnd` |
| `signing` | 2 nodes, 3 records, 2 blocks, membership or profile | does the last click win? | `LastClickWins` |

`FrontendTypeOK` holds the types of the part that moves. Two pairings are a pairing
given up and its successor, the least in which a phone accepts too late; two
requests are one that waits and one chained behind it. Three calls on one window
are two of one origin, which only the request id tells apart, and one that loads
another page over both. Three visitors are one that starts a fetch, one that joins
it, and one that comes after; two blocks suffice for an answer to be older than
its label or than what was seen. Of two nodes one may lack the join (the
nodes being alike, `FirstServer` has it), which carries the proposer over the threshold
or does not. The vault pays 2 a block at a scale of 4, which makes every division round; its
positions are held by an address, an excluded address or a contract. Three records
are one signed at each of two heights and one more at either.

`LastClickWins` speaks of a page that is not blind, so the part stops when it is:
two records at one nonce are then possible and their signatures decide. `PowerAgrees`
speaks of DAOs that exclude nobody among the proposer and the members where the
buttons are concerned: fetchProposerShare (`governance.ts` 334) counts an excluded
member, which the nodes do not.

CHECK_DEADLOCK is FALSE throughout: a network with nothing to do stops.

Fairness of `VoteGossip`: `FairSpec` asks only that something that can be served is eventually
served (weak fairness of `Progress`): the event loop takes requests that
arrived, and a wait for espo ends because the request carries a 20 s timeout
(`espo.ts`). Clients, deployments, losses and crashes are under no fairness.
`Verdicts` is lazy, so its liveness (`Decided`) needs readers: weak fairness of
`Read`, of the handlers' progress and of the end of a wait, and strong fairness
of espo's answers, which says that espo does not fail every single time.
In `frontend`: the timer of a request goes off (5 minutes in `client.ts`, that of
the call in `connector.ts`), and nothing is asked of the phone, the bridge or the
user. `Pruned` needs that pages are loaded again, that requests end (all carry a
timeout) and, as strong fairness of `EspoAnswers` and `EspoAnswersDelegation`, that
espo answers some time, if only in part.
`ShownInTheEnd` needs the poll for the tip, every 30 s, and that reads end.

## 4. Proofs

Assumptions are those of the modules (`ConfigAssumption`, `ProposalAssumption`,
`VoteAssumption`): any sets of nodes, proposals and voters, signatures as
natural numbers.

- `TypeCorrect`: the type invariant.
- `VotersKept`: no voter is ever lost (`VotersAreKept`). The step lemma `GrowsStep` collects what no
  step shrinks: proposals, the DAO row, posted votes, voters stored.
- `StoredValid`, `AckedStored`: from `ValidInv`, which adds to the two
  properties what holds of requests in flight and of waiting handlers
  (`InFlightValid`). The checks a handler made before it waited still hold when
  it writes only because those tables grow: this is why the invariant needs
  `GrowsStep`, and why nothing similar is true of a check against `enabled`.
- `PromiseKept` (no overlap): `VoteGossip` implements `SmallestVote`, losses and
  crashes included. The strengthening is `SerialInv`: a waiting handler's
  `existing` is still what the table holds.
- `RelaysAreNews` (no overlap, whatever is lost): unless a client posts, a node only
  sends a vote that it has just stored in the place of none or of a larger one. Each
  node does so at most once per signature, which is the reason why gossip ends:
  the safety half of `GossipEnds`. `relay.ts` says that a "known" answer ends the
  gossip; the assumption is needed, as an insertion that another handler has
  overtaken is ignored, yet relayed.
- `Convergence` (no overlap, nothing lost, configuration settled):
  `SmallestEverywhere` for any number of nodes. `Spreading` says that what one
  node stores, every other node already stores, or something smaller, or has on
  its way; `SmallestAcked` that a node's row is the smallest it acknowledged. In
  a quiet network the two leave one possible value.

- `TypeCorrect`, `OneAtATime`, `DecidedAfterEnd` (`Verdicts`, late records or not): the
  in-flight set is exact, and nothing is decided before the end. The second needs
  the first, and that the tip never goes back (`EndedStays`).
- `VerdictsFinal`, `SameTablesSameVerdict`, `ResolvedPassed` (records in time, any
  thresholds, supplies and tables): a handler writes without looking at the status
  again, so finality rests on `TablesDecide`: every computation under way is over
  the node's tables, which no longer change, and every stored verdict is that of the
  tables when espo answers everything (`TruthOf`), or an answer was amiss in its
  favour (`Justified`). `ReadingJustified` is the step: fewer balances have less
  power, so a partial answer passes what a whole one rejects only through the
  threshold. Two justified verdicts are `Consistent`. `verdicts_late` shows the
  assumption is needed.

- `CacheAfterEnd`, `CacheIsHeld` (`VerdictSweep`, late records or not): the
  orchestrator's steps leave the nodes' variables alone (`NodesRun`: `SweepSpec`
  implies `Spec`), so the theorems about `Verdicts` hold of its nodes. `RowsAfterEnd`
  says that a decided status under way was decided after the end block;
  `SweepUncached` that a sweep in flight means nothing is cached, which is what one
  sweep at a time buys.
- `CacheIsTheirs`, `OneIsAnswered` (`VerdictSweep`, records in time): `AgreeInv` says
  that with equal tables every status on its way, the cache and all past answers
  are justified, and that a sweep has heard those tables or nothing of a part.
  `SweepJustified` goes through the parts that may be missing: with the members known
  nobody counts who does not in the tables (`FewerCount`), so a missing vote or
  listing only rejects; without them either may follow.

- `GreatestIsKept`, `NeverBack` (`Profiles`): directly inductive, because no wait
  separates the comparison from the write; they need that `Beats` is a strict
  total order. This is the theorem the votes route would have if it compared as
  late.
- `BehindMeansMissed` (`Profiles`): the strengthening says that what one node
  stores every other one stores, or something newer, or has on its way, or
  missed. It is `Convergence` without its assumptions of no overlap and no loss.
- `SettledHistory` (`Memberships`): an insertion is admitted by a tip no older
  than the handler's question, so its height is above every settled one, and
  `Membership` at a height only looks at actions up to it.
- `LackingMeansMissed`, `Agreement` (`Memberships`): the analogous strengthening
  on the keys of actions. `Agreement` assumes that no two actions differ in the
  signature alone; `memberships_tie` shows why.
- `CountedOnce`, `PricedExactly` (`Memberships`): from the definitions, for any
  tables whatever. The first rests on `Membership` being a function, on members
  not being counted and on a delegation having one owner.
- `OrderNeverMatters` (`Memberships`): `resolveDelegationState` goes through the rows
  as SQLite lists them and keeps the best one so far, so it could depend on the listing.
  `ScanLeads`, by induction on the rows seen, says that the best one so far wins over all of
  them (`Leads`). It needs that compareActions is transitive (`BeatsOn`) and decides
  between any two actions of an address (`Decides`); that a table can be listed, that it is
  finite (`TablesFinite`, kept by every step).

- `WalletTypes`, `DeadSocketsSettle`, `StorageFollows`, `WalletNeverReplaced`
  (`WalletContext`, any numbers of pairings, requests and wallets). The invariant
  adds to the types, for every socket, `LinkOK` (no request is queued before it is
  open nor once it is closed) and, for the page, `OneWay`: there is one way to a
  session at a time, and none while there is one. This is what `NoReplacement`
  rests on, and what cancelling in the modal buys. `AdapterStarted` keeps requests
  away from a pairing that has not begun.
- `RequestsAreCalls`, `PopupsAreCalls`: `WalletContext` and `PopupRequests` implement
  `WalletCalls`. Every step of a session, of the network, of the phone or of the user
  maps to a step of the calls or a stutter: no call returns twice, or what was
  not answered to it. For frtun this needs `CallsInv`, where a request may be, with
  which outcome: in at most one queue and there once, asked and on the wire only with
  answers the phone gave to that id; and `AdapterPaired`. For popups it needs `PopupInv`:
  an answer under way carries the id of the call it was given to, since the window
  may have been loaded by another call meanwhile. The theorems reduce `FrtunCalls`
  and `PopupCalls` to `Settles`, that no call waits for ever; that is liveness, and TLC's.
- `OverviewNeverBack` (`Overview`): `OverviewInv` says that one fetch at most is
  under way (`OneFetch`), that what it will bring is no older than its label, than
  the cached figures (`FetchesForward`), which are the newest ever shown, and that each visitor's
  fallback is no older than its floor. Without the shared promise two fetches may
  end in the opposite order, which is the mutant.
- `CachedVerdictRight` (`ThresholdReads`): `ChecksHeardAll`, a call that waits for
  espo has heard all joins that count, unless some call missed a row or counted a
  delegation that fails or dropped one that does not. What such a call caches is then
  right unless espo's answer lacked something that turns it, and the latest call to
  cache decides.
- `LastClickAlwaysWins` (`SigningPages`): `Sighted` holds as long as the page is not
  blind: the newest accepted record beats all stored ones (`NewestLeads`), the record
  under way beats them all (`RowLeads`), and what the query or the click holds leads
  to such a nonce (`UpToDate`). It needs the read between two submissions, which
  unlocks the button, and that the tip does not go back.
- `ForksAhead`, `PagePassesNodes`, `ClaimedOnce`: of the arithmetic, for all
  values. A later fork changes nothing about an earlier block; the page's rounded
  percentage is never more lenient than the nodes' product; a claim leaves nothing.
- `PowerAlwaysAgrees`, `ClaimsAreNeutral` (`VotingPower`, any finite sets of holders
  and positions, any amounts): balances and unclaimed rewards are sums over sets.
  `Total` is a fold of the community modules, chosen by a recursive equation; that the
  equation has a solution (`FoldExists`, by induction on the size of the parts) gives `TotalAdds`,
  and from there what adding, removing and splitting do to a sum. Writing the proof
  showed what neutrality rests on: `vaultUnclaimed` skips a vault whose accumulator is
  0, with whatever its positions have banked, and a claim would then bring tokens nobody
  had counted. `EarnedFirst` says that the contract banks only what its
  accumulator has earned; it is an assumption on the contract (which is not part of
  the repository), kept by every step, and holds of all worlds TLC starts from
  (`WorldsAssumption`).
- `SignTypeCorrect`, `FrontendTypesCorrect`: the types of the signing part, where
  every nonce is 0 or follows that of a stored record (`RowsNumbered`), which keeps it below
  the number of records; and of all seven parts (`FrontendInv`).
- `PartsOnTheirOwn`, `SharesAlwaysAgree`: a behaviour of `FrontendSpec`, the one
  specification the run `frontend` checks, is a behaviour of each part's own specification, the
  other parts standing still. So what is proved of the parts holds of what is
  run. The parts `reads` and `power` start from values of no meaning unless they are
  the one that moves, hence the conditions.

What the proofs assume beyond the modules' assumptions is in their statements: records in
time, no overlap, a settled configuration, an `EarnedFirst` world. Each of the first two
has a violation in section 3 that shows what happens without it.

Induction over data is carried out on sets: `Inductions` derives from well-foundedness
of the naturals, and of finite sets under inclusion, statements whose parameter
is a set of values rather than an operator (`NatGrowth`, `FiniteGrowth`, `FiniteDescent`),
and from them the least and greatest element of a finite set and the value of a fold.

Only model-checked: liveness (`GossipEnds`, `Decided`, `Pruned`, `ShownInTheEnd`, and
`Settles` of both kinds of wallet calls), which is out of the prover's reach, and the
five violations.

## 5. The plan, and what is not modelled

Done: configuration, proposals, votes; verdicts, resolutions and the
orchestrator's sweep; delegations and the tally's choice of balances; the
overview; the wallets; the browser's threshold cache; shares and vault claims; the
proposal page and the delegation pages; their proofs. Worth adding: two resolutions of one proposal signed apart; the
composition of `Verdicts` with `Memberships` and `VoteGossip` through
`DelegatedTally`, which `StoreRecord` stands for now.

Left out of modules that model the rest of their code:

- casting a vote from the page (`VotingSection.tsx` 340-375) and merging the votes
  of several nodes in the browser; getDelegator, which waits for the check of a
  delegation as getProposal does for that of a proposal;
- `useProposerEligibility` keeps the previous address's share while that of a new
  one is under way (`placeholderData`); `VotingPower` has what it ends up with;
- a failed request for the tip makes shareMeets run again at the tip, and a supply
  of 0 near the tip too: `VotingPower` compares answers for one block;
- before the fork, reads at the tip count unclaimed rewards and reads at a block do
  not: the properties speak of blocks past the fork;
- in `transport.ts`, a stream that never sends its first frame: `KeyTimeout` may
  or may not happen, so nothing that is checked rests on its timer;
- `currentTip` can go back when two answers of espo overtake each other: this is in
  `Overview`, and why its property is about figures and not about tips;
- several tabs that share one localStorage.

Not modelled:

- the WASM bindings and the wallet library behind them (`lib/alkanes-web-sys`):
  generated code;
- cryptography and parsing (`verify.ts`, `bip322.ts`, `schemas.ts`, the codecs of
  `frtun` and of vault records): pure functions that end in a refusal or a value;
- transaction assembly (`psbt.ts`, `rpc.ts`, `balances.ts`): calls in sequence to
  external services, with arithmetic on values they return;
- rendering, translations, the localStorage prototype of the node store.
