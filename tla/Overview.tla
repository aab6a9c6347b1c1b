----------------------------- MODULE Overview -----------------------------
(***************************************************************************)
(* The figures of a DAO's treasury, cached per block by the orchestrator:  *)
(* GET /api/orchestrator/overview (frontend/app/api/orchestrator/overview/ *)
(* route.ts) for one DAO.                                                  *)
(*                                                                         *)
(* Espo answers a request with the block it is at some time between the    *)
(* request and its answer; overview data is named by that block.  Requests *)
(* of visitors overlap, each waits for espo's height and for the overview. *)
(***************************************************************************)
EXTENDS Naturals, FiniteSets

CONSTANTS
    Visits,         \* requests to the route
    MaxHeight       \* bound: blocks espo indexes

ASSUME OverviewAssumption == MaxHeight \in Nat \ {0}

Heights == 1..MaxHeight

VARIABLES
    height,         \* espo's height
    tipCache,       \* the last height heard, 0 if none; fresh: TIP_TTL_MS is not over
    overview,       \* overviewCache: label 0 if empty
    visit,          \* visit[v]: a request to the route
    fetch,          \* fetch[v]: the request for the overview v has started
    seen,           \* the newest overview any visitor was answered
    floor           \* floor[v]: `seen' when v came

overviewVars == <<height, tipCache, overview, visit, fetch, seen, floor>>

\* label: OverviewEntry.height, the tip of the request that fetched it.
Entry == [label : 0..MaxHeight, data : 0..MaxHeight]
NoEntry == [label |-> 0, data |-> 0]

\* got: espo's answer that is under way, 0 before espo has served the request.
\* cached: what the caches held when the wait began,
\* or, once it is done, the answer.
Visit == [stage : {"idle", "tip", "overview", "done", "failed"}, got : 0..MaxHeight,
          retried : BOOLEAN, tip : 0..MaxHeight, cached : Entry, on : Visits]
At(stage, entry, s) ==
    [stage |-> stage, got |-> 0, retried |-> FALSE, tip |-> 0, cached |-> entry, on |-> s]
Idle(v) == At("idle", NoEntry, v)
Failed(v) == At("failed", NoEntry, v)

Fetch == [going : BOOLEAN, label : 0..MaxHeight, got : 0..MaxHeight, retried : BOOLEAN]
Begun(tip) == [going |-> TRUE, label |-> tip, got |-> 0, retried |-> FALSE]
NoFetch == [going |-> FALSE, label |-> 0, got |-> 0, retried |-> FALSE]

OverviewTypeOK ==
    /\ height \in Heights
    /\ tipCache \in [tip : 0..MaxHeight, fresh : BOOLEAN]
    /\ overview \in Entry
    /\ visit \in [Visits -> Visit]
    /\ fetch \in [Visits -> Fetch]
    /\ seen \in 0..MaxHeight
    /\ floor \in [Visits -> 0..MaxHeight]

OverviewInit ==
    /\ height = 1
    /\ tipCache = [tip |-> 0, fresh |-> FALSE]
    /\ overview = NoEntry
    /\ seen = 0
    /\ visit = [v \in Visits |-> Idle(v)]
    /\ fetch = [v \in Visits |-> NoFetch]
    /\ floor = [v \in Visits |-> 0]

----------------------------------------------------------------------------
IndexBlock ==
    /\ height < MaxHeight
    /\ height' = height + 1
    /\ UNCHANGED <<tipCache, overview, visit, fetch, seen, floor>>

TipExpires ==
    /\ tipCache.fresh
    /\ tipCache' = [tipCache EXCEPT !.fresh = FALSE]
    /\ UNCHANGED <<height, overview, visit, fetch, seen, floor>>

Sees(entry) == seen' = IF entry.data > seen THEN entry.data ELSE seen

\* Where v stands when it is answered with `entry', or begins to wait for the
\* promise s started.
Answered(v, entry) == At("done", entry, v)
WaitsOn(s) == At("overview", overview, s)
Start(v, tip) == fetch' = [fetch EXCEPT ![v] = Begun(tip)]

Hit(tip) == overview # NoEntry /\ overview.label = tip
InFlight == {s \in Visits : fetch[s].going}

\* Bug: the promise in flight is not looked up.
ResolveAlone(v, tip) ==
    /\ IF Hit(tip)
         THEN visit' = [visit EXCEPT ![v] = Answered(v, overview)] /\ UNCHANGED fetch
         ELSE visit' = [visit EXCEPT ![v] = WaitsOn(v)] /\ Start(v, tip)
    /\ UNCHANGED <<height, overview, seen>>

\* resolveOverview once the tip is known: answer from the cache, wait for the
\* promise in flight, whatever tip it was started at, or start one.
Resolve(v, tip) ==
    /\ IF Hit(tip)
         THEN visit' = [visit EXCEPT ![v] = Answered(v, overview)] /\ UNCHANGED fetch
         ELSE IF InFlight = {}
         THEN visit' = [visit EXCEPT ![v] = WaitsOn(v)] /\ Start(v, tip)
         ELSE /\ \E s \in InFlight : visit' = [visit EXCEPT ![v] = WaitsOn(s)]
              /\ UNCHANGED fetch
    /\ UNCHANGED <<height, overview, seen>>

\* A request comes; currentTip with the tip cached.
VisitFresh(v) ==
    /\ visit[v].stage = "idle"
    /\ tipCache.fresh
    /\ floor' = [floor EXCEPT ![v] = seen]
    /\ Resolve(v, tipCache.tip)
    /\ UNCHANGED tipCache

\* currentTip asks espo; its fallback is the tip cached now.
VisitStale(v) ==
    /\ visit[v].stage = "idle"
    /\ ~tipCache.fresh
    /\ floor' = [floor EXCEPT ![v] = seen]
    /\ visit' = [visit EXCEPT ![v].stage = "tip", ![v].tip = tipCache.tip]
    /\ UNCHANGED <<height, tipCache, overview, fetch, seen>>

EspoServesTip(v) ==
    /\ visit[v].stage = "tip" /\ visit[v].got = 0
    /\ visit' = [visit EXCEPT ![v].got = height]
    /\ UNCHANGED <<height, tipCache, overview, fetch, seen, floor>>

TipComes(v) ==
    /\ visit[v].stage = "tip" /\ visit[v].got # 0
    /\ tipCache' = [tip |-> visit[v].got, fresh |-> TRUE]
    /\ Resolve(v, visit[v].got)
    /\ UNCHANGED floor

\* withRetry: the first failure is tried again.
TipRetried(v) ==
    /\ visit[v].stage = "tip" /\ ~visit[v].retried
    /\ visit' = [visit EXCEPT ![v].retried = TRUE, ![v].got = 0]
    /\ UNCHANGED <<height, tipCache, overview, fetch, seen, floor>>

\* "A slightly stale tip beats a 502."
TipFails(v) ==
    /\ visit[v].stage = "tip" /\ visit[v].retried
    /\ IF visit[v].tip # 0
         THEN Resolve(v, visit[v].tip)
         ELSE /\ visit' = [visit EXCEPT ![v] = Failed(v)]
              /\ UNCHANGED <<height, overview, fetch, seen>>
    /\ UNCHANGED <<tipCache, floor>>

----------------------------------------------------------------------------
EspoServesOverview(s) ==
    /\ fetch[s].going /\ fetch[s].got = 0
    /\ fetch' = [fetch EXCEPT ![s].got = height]
    /\ UNCHANGED <<height, tipCache, overview, visit, seen, floor>>

Waiting(s) == {v \in Visits : visit[v].stage = "overview" /\ visit[v].on = s}

\* The entry is cached, labelled with the tip of the request that started it,
\* and all that wait are answered with it.
OverviewComes(s) ==
    /\ fetch[s].going /\ fetch[s].got # 0
    /\ overview' = [label |-> fetch[s].label, data |-> fetch[s].got]
    /\ visit' = [v \in Visits |-> IF v \in Waiting(s) THEN Answered(v, overview') ELSE visit[v]]
    /\ fetch' = [fetch EXCEPT ![s] = NoFetch]
    /\ Sees(overview')
    /\ UNCHANGED <<height, tipCache, floor>>

OverviewRetried(s) ==
    /\ fetch[s].going /\ ~fetch[s].retried
    /\ fetch' = [fetch EXCEPT ![s].retried = TRUE, ![s].got = 0]
    /\ UNCHANGED <<height, tipCache, overview, visit, seen, floor>>

\* Each that waits falls back on the entry it found when it came, which was
\* answered before.
OverviewFails(s) ==
    /\ fetch[s].going /\ fetch[s].retried
    /\ visit' = [v \in Visits |->
                    IF v \notin Waiting(s) THEN visit[v]
                    ELSE IF visit[v].cached = NoEntry THEN Failed(v)
                    ELSE Answered(v, visit[v].cached)]
    /\ fetch' = [fetch EXCEPT ![s] = NoFetch]
    /\ UNCHANGED <<height, tipCache, overview, seen, floor>>

----------------------------------------------------------------------------
OverviewNext ==
    \/ IndexBlock \/ TipExpires
    \/ \E v \in Visits :
          \/ VisitFresh(v) \/ VisitStale(v)
          \/ EspoServesTip(v) \/ TipComes(v) \/ TipRetried(v) \/ TipFails(v)
          \/ EspoServesOverview(v) \/ OverviewComes(v) \/ OverviewRetried(v) \/ OverviewFails(v)

OverviewSpec == OverviewInit /\ [][OverviewNext]_overviewVars

----------------------------------------------------------------------------
(* Properties *)

\* overview/route.ts: "invalidated per espo BLOCK".  With requests that
\* overlap, tips that are answered out of order, retries and fallbacks, a
\* visitor is never shown figures older than the block they are labelled
\* with, nor older than those shown to anybody before it asked.
OverviewForward ==
    \A v \in Visits :
        visit[v].stage = "done" =>
            /\ visit[v].cached.label <= visit[v].cached.data
            /\ floor[v] <= visit[v].cached.data

=============================================================================
