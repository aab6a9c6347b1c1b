-------------------------- MODULE FrontendProofs --------------------------
(***************************************************************************)
(* What the orchestrator's overview, the browser's threshold verdicts and  *)
(* the pages of a delegation guarantee for every number of visitors, nodes *)
(* and blocks, and what all of the frontend's parts keep to.               *)
(***************************************************************************)
EXTENDS MCFrontend, WalletProofs, PowerProofs

----------------------------------------------------------------------------
(* Overview: one fetch at a time, each Begun(h) after the last one ended *)

Bounded ==
    /\ tipCache.tip <= height /\ overview.data <= height
    /\ \A v \in Visits :
          /\ visit[v].got <= height /\ visit[v].tip <= height
          /\ fetch[v].label <= height /\ fetch[v].got <= height

OneFetch == \A s, t \in Visits : fetch[s].going /\ fetch[t].going => s = t

\* What a fetch brings is as new as its label and as the entry it replaces.
FetchesForward ==
    \A s \in Visits : fetch[s].going /\ fetch[s].got # 0 =>
        fetch[s].label <= fetch[s].got /\ overview.data <= fetch[s].got

EntryForward == overview.label <= overview.data /\ seen = overview.data

VisitsForward ==
    \A v \in Visits :
        /\ floor[v] <= seen
        /\ visit[v].stage \in {"overview", "done"} =>
              visit[v].cached.label <= visit[v].cached.data /\ floor[v] <= visit[v].cached.data

OverviewInv ==
    /\ OverviewTypeOK
    /\ Bounded /\ OneFetch /\ FetchesForward /\ EntryForward /\ VisitsForward

LEMMA OverviewStart == OverviewInit => OverviewInv
<1> SUFFICES ASSUME OverviewInit PROVE OverviewInv
  OBVIOUS
<1> USE OverviewAssumption
<1>1. OverviewTypeOK
  BY DEF OverviewInit, OverviewTypeOK, Heights, Entry, NoEntry, Visit, Idle, At, Fetch, NoFetch
<1>2. Bounded /\ OneFetch /\ FetchesForward /\ EntryForward /\ VisitsForward
  BY DEF OverviewInit, Bounded, OneFetch, FetchesForward, EntryForward, VisitsForward,
         NoEntry, Idle, At, NoFetch
<1> QED BY <1>1, <1>2 DEF OverviewInv

\* What a request writes of its own.
LEMMA VisitTypes ==
    ASSUME NEW v \in Visits, NEW e \in Entry, overview \in Entry
    PROVE  /\ Idle(v) \in Visit /\ Failed(v) \in Visit
           /\ Answered(v, e) \in Visit /\ WaitsOn(v) \in Visit
<1>1. 0 \in 0..MaxHeight
  BY OverviewAssumption
<1>2. NoEntry \in Entry
  BY <1>1 DEF Entry, NoEntry
<1> QED BY <1>1, <1>2 DEF Idle, Failed, Answered, WaitsOn, At, Visit

\* The steps of one visitor leave the others alone.
LEMMA ResolveStep ==
    ASSUME OverviewInv, NEW v \in Visits, NEW h \in 0..MaxHeight, h <= height,
           Resolve(v, h), tipCache' \in [tip : 0..MaxHeight, fresh : BOOLEAN],
           tipCache'.tip <= height,
           floor' \in [Visits -> 0..MaxHeight], floor'[v] <= seen,
           \A w \in Visits \ {v} : floor'[w] = floor[w]
    PROVE  OverviewInv'
<1> USE OverviewAssumption
<1>1. /\ OverviewTypeOK /\ Bounded /\ OneFetch /\ FetchesForward /\ EntryForward /\ VisitsForward
      /\ UNCHANGED <<height, overview, seen>>
  BY DEF OverviewInv, Resolve
<1>2. height \in Nat /\ MaxHeight \in Nat /\ height <= MaxHeight /\ overview \in Entry
  BY <1>1 DEF OverviewTypeOK, Heights
<1>3. CASE Hit(h)
  <2>1. visit' = [visit EXCEPT ![v] = Answered(v, overview)] /\ fetch' = fetch
    BY <1>3 DEF Resolve
  <2>2. /\ Answered(v, overview) \in Visit
        /\ Answered(v, overview).got = 0 /\ Answered(v, overview).tip = 0
        /\ Answered(v, overview).cached = overview
    BY <1>2, VisitTypes DEF Answered, At
  <2>3. \A w \in Visits : visit'[w] = IF w = v THEN Answered(v, overview) ELSE visit[w]
    BY <1>1, <2>1 DEF OverviewTypeOK
  <2>4. OverviewTypeOK'
    BY <1>1, <2>1, <2>2 DEF OverviewTypeOK
  <2>5. Bounded'
    BY <1>1, <1>2, <2>1, <2>2, <2>3 DEF Bounded
  <2>6. OneFetch' /\ FetchesForward' /\ EntryForward'
    BY <1>1, <2>1 DEF OneFetch, FetchesForward, EntryForward
  <2>7. VisitsForward'
    BY <1>1, <2>2, <2>3 DEF VisitsForward, EntryForward
  <2> QED BY <2>4, <2>5, <2>6, <2>7 DEF OverviewInv
<1>4. ASSUME NEW s \in Visits, visit' = [visit EXCEPT ![v] = WaitsOn(s)],
             \/ fetch' = fetch
             \/ InFlight = {} /\ Start(v, h)
      PROVE  OverviewInv'
  <2>1. /\ WaitsOn(s) \in Visit
        /\ WaitsOn(s).got = 0 /\ WaitsOn(s).tip = 0
        /\ WaitsOn(s).cached = overview
    BY <1>2, VisitTypes DEF WaitsOn, At
  <2>2. \A w \in Visits : visit'[w] = IF w = v THEN WaitsOn(s) ELSE visit[w]
    BY <1>1, <1>4 DEF OverviewTypeOK
  <2>3. fetch' = fetch \/ (InFlight = {} /\ fetch' = [fetch EXCEPT ![v] = Begun(h)])
    BY <1>4 DEF Start
  <2>4. Begun(h) \in Fetch
    BY DEF Begun, Fetch
  <2>5. fetch' \in [Visits -> Fetch]
    BY <1>1, <2>3, <2>4 DEF OverviewTypeOK
  <2>6. \A w \in Visits : \/ fetch'[w] = fetch[w]
                          \/ InFlight = {} /\ w = v /\ fetch'[w] = Begun(h)
    BY <1>1, <2>3 DEF OverviewTypeOK
  <2>7. OverviewTypeOK'
    BY <1>1, <1>4, <2>1, <2>5 DEF OverviewTypeOK
  <2>8. Bounded'
    BY <1>1, <1>2, <2>1, <2>2, <2>6 DEF Bounded, Begun
  <2>9. OneFetch'
    BY <1>1, <2>6 DEF OneFetch, InFlight
  <2>10. FetchesForward'
    BY <1>1, <2>6 DEF FetchesForward, Begun
  <2>11. EntryForward'
    BY <1>1 DEF EntryForward
  <2>12. VisitsForward'
    BY <1>1, <2>1, <2>2 DEF VisitsForward, EntryForward
  <2> QED BY <2>7, <2>8, <2>9, <2>10, <2>11, <2>12 DEF OverviewInv
<1>5. CASE ~Hit(h)
  <2>1. CASE InFlight = {}
    BY <1>4, <1>5, <2>1 DEF Resolve
  <2>2. CASE InFlight # {}
    <3>1. PICK s \in InFlight : visit' = [visit EXCEPT ![v] = WaitsOn(s)] /\ fetch' = fetch
      BY <1>5, <2>2 DEF Resolve
    <3> QED BY <1>4, <3>1 DEF InFlight
  <2> QED BY <2>1, <2>2
<1> QED BY <1>3, <1>5

\* A request on its way, or back: only got, retried, stage and tip change.
LEMMA VisitStep ==
    ASSUME OverviewInv, NEW v \in Visits, NEW x \in Visit,
           visit' = [visit EXCEPT ![v] = x],
           x.got <= height, x.tip <= height, x.stage \in {"tip", "failed"},
           floor' \in [Visits -> 0..MaxHeight], floor'[v] <= seen,
           \A w \in Visits \ {v} : floor'[w] = floor[w],
           UNCHANGED <<height, tipCache, overview, fetch, seen>>
    PROVE  OverviewInv'
<1>1. OverviewTypeOK /\ Bounded /\ OneFetch /\ FetchesForward /\ EntryForward /\ VisitsForward
  BY DEF OverviewInv
<1>2. \A w \in Visits : visit'[w] = IF w = v THEN x ELSE visit[w]
  BY <1>1 DEF OverviewTypeOK
<1>3. OverviewTypeOK'
  BY <1>1 DEF OverviewTypeOK
<1>4. Bounded'
  BY <1>1, <1>2 DEF Bounded
<1>5. OneFetch' /\ FetchesForward' /\ EntryForward'
  BY <1>1 DEF OneFetch, FetchesForward, EntryForward
<1>6. VisitsForward'
  BY <1>1, <1>2 DEF VisitsForward
<1> QED BY <1>3, <1>4, <1>5, <1>6 DEF OverviewInv

\* The end of a fetch: each that waits for it is answered as x says.
LEMMA FetchEnd ==
    ASSUME OverviewInv, NEW s \in Visits, fetch[s].going,
           NEW x, \A w \in Waiting(s) :
                     /\ x[w] \in Visit /\ x[w].got = 0 /\ x[w].tip = 0
                     /\ x[w].stage \in {"done", "failed"}
                     /\ x[w].stage = "done" =>
                           x[w].cached.label <= x[w].cached.data /\ floor[w] <= x[w].cached.data,
           visit' = [w \in Visits |-> IF w \in Waiting(s) THEN x[w] ELSE visit[w]],
           fetch' = [fetch EXCEPT ![s] = NoFetch],
           overview' \in Entry, overview'.data <= height, overview'.label <= overview'.data,
           overview.data <= overview'.data, seen' = overview'.data,
           UNCHANGED <<height, tipCache, floor>>
    PROVE  OverviewInv'
<1> USE OverviewAssumption
<1>1. OverviewTypeOK /\ Bounded /\ OneFetch /\ FetchesForward /\ EntryForward /\ VisitsForward
  BY DEF OverviewInv
<1>2. \A w \in Visits : w \in Waiting(s) => visit[w].stage = "overview"
  BY DEF Waiting
<1>3. \A w \in Visits : visit'[w] = IF w \in Waiting(s) THEN x[w] ELSE visit[w]
  OBVIOUS
<1>4. NoFetch \in Fetch /\ ~NoFetch.going /\ NoFetch.label = 0 /\ NoFetch.got = 0
  BY DEF NoFetch, Fetch
<1>5. \A w \in Visits : fetch'[w] = IF w = s THEN NoFetch ELSE fetch[w]
  BY <1>1 DEF OverviewTypeOK
<1>6. \A w \in Visits : ~fetch'[w].going
  BY <1>1, <1>4, <1>5 DEF OneFetch
<1>7. height \in Nat
  BY <1>1 DEF OverviewTypeOK, Heights
<1>8. OverviewTypeOK'
  <2>1. visit' \in [Visits -> Visit]
    BY <1>1 DEF OverviewTypeOK
  <2>2. fetch' \in [Visits -> Fetch]
    BY <1>1, <1>4 DEF OverviewTypeOK
  <2>3. seen' \in 0..MaxHeight
    BY DEF Entry
  <2> QED BY <1>1, <2>1, <2>2, <2>3 DEF OverviewTypeOK
<1>9. Bounded'
  BY <1>1, <1>3, <1>4, <1>5, <1>7 DEF Bounded
<1>10. OneFetch' /\ FetchesForward' /\ EntryForward'
  BY <1>6 DEF OneFetch, FetchesForward, EntryForward
<1>11. VisitsForward'
  <2>1. seen <= seen' /\ seen \in Nat /\ seen' \in Nat /\ \A w \in Visits : floor[w] \in Nat
    BY <1>1, <1>8 DEF EntryForward, OverviewTypeOK
  <2>2. \A w \in Visits : floor'[w] <= seen'
    BY <1>1, <2>1 DEF VisitsForward
  <2> QED BY <1>1, <1>2, <1>3, <2>2 DEF VisitsForward
<1> QED BY <1>8, <1>9, <1>10, <1>11 DEF OverviewInv

LEMMA OverviewStep == OverviewInv /\ [OverviewNext]_overviewVars => OverviewInv'
<1> SUFFICES ASSUME OverviewInv, [OverviewNext]_overviewVars PROVE OverviewInv'
  OBVIOUS
<1> USE OverviewAssumption
<1>1. OverviewTypeOK /\ Bounded /\ OneFetch /\ FetchesForward /\ EntryForward /\ VisitsForward
  BY DEF OverviewInv
<1>2. /\ height \in Nat /\ height # 0 /\ MaxHeight \in Nat /\ height <= MaxHeight
      /\ overview \in Entry /\ seen \in 0..MaxHeight
  BY <1>1 DEF OverviewTypeOK, Heights
<1>3. CASE IndexBlock
  <2>1. height' = height + 1 /\ height' \in Heights
        /\ UNCHANGED <<tipCache, overview, visit, fetch, seen, floor>>
    BY <1>2, <1>3 DEF IndexBlock, Heights
  <2>2. OverviewTypeOK'
    BY <1>1, <2>1 DEF OverviewTypeOK
  <2>3. Bounded'
    BY <1>1, <1>2, <2>1 DEF Bounded, OverviewTypeOK, Entry, Visit, Fetch
  <2> QED BY <1>1, <2>1, <2>2, <2>3
          DEF OverviewInv, OneFetch, FetchesForward, EntryForward, VisitsForward
<1>4. CASE TipExpires
  BY <1>1, <1>4 DEF TipExpires, OverviewInv, OverviewTypeOK, Bounded, OneFetch, FetchesForward,
                    EntryForward, VisitsForward
<1>5. ASSUME NEW v \in Visits, VisitFresh(v) PROVE OverviewInv'
  <2>1. tipCache.tip \in 0..MaxHeight /\ tipCache.tip <= height
    BY <1>1 DEF OverviewTypeOK, Bounded
  <2>2. /\ floor' \in [Visits -> 0..MaxHeight] /\ floor'[v] <= seen
        /\ \A w \in Visits \ {v} : floor'[w] = floor[w]
    BY <1>1, <1>2, <1>5 DEF VisitFresh, OverviewTypeOK
  <2>3. tipCache' = tipCache /\ tipCache \in [tip : 0..MaxHeight, fresh : BOOLEAN]
    BY <1>1, <1>5 DEF VisitFresh, OverviewTypeOK
  <2>4. Resolve(v, tipCache.tip)
    BY <1>5 DEF VisitFresh
  <2> QED BY <2>1, <2>2, <2>3, <2>4, ResolveStep
<1>6. ASSUME NEW v \in Visits, VisitStale(v) PROVE OverviewInv'
  <2> DEFINE x == [visit[v] EXCEPT !.stage = "tip", !.tip = tipCache.tip]
  <2>1. visit[v] \in Visit /\ visit[v].got <= height
        /\ tipCache.tip \in 0..MaxHeight /\ tipCache.tip <= height
    BY <1>1 DEF OverviewTypeOK, Bounded
  <2>2. x \in Visit /\ x.got <= height /\ x.tip <= height /\ x.stage = "tip"
    BY <2>1 DEF Visit
  <2>3. visit' = [visit EXCEPT ![v] = x]
    BY <1>6 DEF VisitStale
  <2>4. /\ floor' \in [Visits -> 0..MaxHeight] /\ floor'[v] <= seen
        /\ \A w \in Visits \ {v} : floor'[w] = floor[w]
    BY <1>1, <1>2, <1>6 DEF VisitStale, OverviewTypeOK
  <2>5. UNCHANGED <<height, tipCache, overview, fetch, seen>>
    BY <1>6 DEF VisitStale
  <2> HIDE DEF x
  <2> QED BY <2>2, <2>3, <2>4, <2>5, VisitStep
<1>7. /\ floor \in [Visits -> 0..MaxHeight]
      /\ \A v \in Visits : visit[v] \in Visit /\ fetch[v] \in Fetch /\ floor[v] <= seen
                           /\ visit[v].got <= height /\ visit[v].tip <= height
  BY <1>1 DEF OverviewTypeOK, VisitsForward, Bounded
<1>8. ASSUME NEW v \in Visits, EspoServesTip(v) PROVE OverviewInv'
  <2> DEFINE x == [visit[v] EXCEPT !.got = height]
  <2>1. x \in Visit /\ x.got <= height /\ x.tip <= height /\ x.stage = "tip"
    BY <1>2, <1>7, <1>8 DEF Visit, EspoServesTip
  <2>2. visit' = [visit EXCEPT ![v] = x] /\ floor' = floor
        /\ UNCHANGED <<height, tipCache, overview, fetch, seen>>
    BY <1>8 DEF EspoServesTip
  <2> HIDE DEF x
  <2> QED BY <1>7, <2>1, <2>2, VisitStep
<1>9. ASSUME NEW v \in Visits, TipComes(v) PROVE OverviewInv'
  <2>1. visit[v].got \in 0..MaxHeight /\ visit[v].got <= height
    BY <1>7 DEF Visit
  <2>2. /\ tipCache' = [tip |-> visit[v].got, fresh |-> TRUE] /\ floor' = floor
        /\ Resolve(v, visit[v].got)
    BY <1>9 DEF TipComes
  <2>3. tipCache' \in [tip : 0..MaxHeight, fresh : BOOLEAN] /\ tipCache'.tip <= height
    BY <2>1, <2>2
  <2> QED BY <1>7, <2>1, <2>2, <2>3, ResolveStep
<1>10. ASSUME NEW v \in Visits, TipRetried(v) PROVE OverviewInv'
  <2> DEFINE x == [visit[v] EXCEPT !.retried = TRUE, !.got = 0]
  <2> DEFINE y == [visit[v] EXCEPT !.got = 0]
  <2>3. y \in Visit /\ y.got = 0 /\ y.tip = visit[v].tip /\ y.stage = "tip"
    BY <1>2, <1>7, <1>10 DEF Visit, TipRetried
  <2>4. x = [y EXCEPT !.retried = TRUE]
    BY <1>7 DEF Visit
  <2>1. x \in Visit /\ x.got <= height /\ x.tip <= height /\ x.stage = "tip"
    <3> HIDE DEF x, y
    <3>1. x \in Visit
      BY <2>3, <2>4 DEF Visit
    <3>2. x.got = y.got /\ x.tip = y.tip /\ x.stage = y.stage
      BY <2>3, <2>4 DEF Visit
    <3> QED BY <1>2, <1>7, <2>3, <3>1, <3>2
  <2>2. visit' = [visit EXCEPT ![v] = x] /\ floor' = floor
        /\ UNCHANGED <<height, tipCache, overview, fetch, seen>>
    BY <1>10 DEF TipRetried
  <2> HIDE DEF x
  <2> QED BY <1>7, <2>1, <2>2, VisitStep
<1>11. ASSUME NEW v \in Visits, TipFails(v) PROVE OverviewInv'
  <2>1. tipCache' = tipCache /\ floor' = floor
    BY <1>11 DEF TipFails
  <2>2. CASE visit[v].tip # 0
    <3>1. visit[v].tip \in 0..MaxHeight
      BY <1>7 DEF Visit
    <3>2. tipCache \in [tip : 0..MaxHeight, fresh : BOOLEAN] /\ tipCache.tip <= height
      BY <1>1 DEF OverviewTypeOK, Bounded
    <3>3. Resolve(v, visit[v].tip)
      BY <1>11, <2>2 DEF TipFails
    <3> QED BY <1>7, <2>1, <3>1, <3>2, <3>3, ResolveStep
  <2>3. CASE visit[v].tip = 0
    <3>1. Failed(v) \in Visit
      BY <1>2, VisitTypes
    <3>2. Failed(v).got <= height /\ Failed(v).tip <= height /\ Failed(v).stage = "failed"
      BY <1>2 DEF Failed, At
    <3>3. visit' = [visit EXCEPT ![v] = Failed(v)] /\ UNCHANGED <<height, overview, fetch, seen>>
      BY <1>11, <2>3 DEF TipFails
    <3> QED BY <1>7, <2>1, <3>1, <3>2, <3>3, VisitStep
  <2> QED BY <2>2, <2>3
<1>12. ASSUME NEW s \in Visits, NEW x \in Fetch, fetch' = [fetch EXCEPT ![s] = x],
              x.going, fetch[s].going, x.label = fetch[s].label, x.got \in {0, height},
              UNCHANGED <<height, tipCache, overview, visit, seen, floor>>
       PROVE  OverviewInv'
  <2>1. \A w \in Visits : fetch'[w] = IF w = s THEN x ELSE fetch[w]
    BY <1>1, <1>12 DEF OverviewTypeOK
  <2>2. OverviewTypeOK'
    BY <1>1, <1>12 DEF OverviewTypeOK
  <2>3. Bounded'
    BY <1>1, <1>2, <1>12, <2>1 DEF Bounded
  <2>4. OneFetch'
    BY <1>1, <1>12, <2>1 DEF OneFetch
  <2>5. FetchesForward'
    BY <1>1, <1>12, <2>1 DEF FetchesForward, Bounded
  <2>6. EntryForward' /\ VisitsForward'
    BY <1>1, <1>12 DEF EntryForward, VisitsForward
  <2> QED BY <2>2, <2>3, <2>4, <2>5, <2>6 DEF OverviewInv
<1>13. ASSUME NEW s \in Visits, EspoServesOverview(s) PROVE OverviewInv'
  <2> DEFINE x == [fetch[s] EXCEPT !.got = height]
  <2>1. x \in Fetch /\ x.going /\ x.label = fetch[s].label /\ x.got = height
    BY <1>2, <1>7, <1>13 DEF Fetch, EspoServesOverview
  <2>2. fetch' = [fetch EXCEPT ![s] = x] /\ fetch[s].going
        /\ UNCHANGED <<height, tipCache, overview, visit, seen, floor>>
    BY <1>13 DEF EspoServesOverview
  <2> HIDE DEF x
  <2> QED BY <1>12, <2>1, <2>2
<1>14. ASSUME NEW s \in Visits, OverviewRetried(s) PROVE OverviewInv'
  <2> DEFINE x == [fetch[s] EXCEPT !.retried = TRUE, !.got = 0]
  <2> DEFINE y == [fetch[s] EXCEPT !.got = 0]
  <2>3. y \in Fetch /\ y.going /\ y.label = fetch[s].label /\ y.got = 0
    BY <1>2, <1>7, <1>14 DEF Fetch, OverviewRetried
  <2>4. x = [y EXCEPT !.retried = TRUE]
    BY <1>7 DEF Fetch
  <2>1. x \in Fetch /\ x.going /\ x.label = fetch[s].label /\ x.got = 0
    <3> HIDE DEF y
    <3> QED BY <2>3, <2>4 DEF Fetch
  <2>2. fetch' = [fetch EXCEPT ![s] = x] /\ fetch[s].going
        /\ UNCHANGED <<height, tipCache, overview, visit, seen, floor>>
    BY <1>14 DEF OverviewRetried
  <2> HIDE DEF x
  <2> QED BY <1>12, <2>1, <2>2
<1>15. ASSUME NEW s \in Visits, OverviewComes(s) PROVE OverviewInv'
  <2>1. /\ fetch[s].going /\ fetch[s].got # 0
        /\ overview' = [label |-> fetch[s].label, data |-> fetch[s].got]
        /\ fetch' = [fetch EXCEPT ![s] = NoFetch] /\ UNCHANGED <<height, tipCache, floor>>
        /\ visit' = [v \in Visits |-> IF v \in Waiting(s) THEN Answered(v, overview') ELSE visit[v]]
        /\ Sees(overview')
    BY <1>15 DEF OverviewComes
  <2>2. /\ overview' \in Entry /\ overview'.data <= height
        /\ overview'.label <= overview'.data /\ overview.data <= overview'.data
    BY <1>1, <1>7, <2>1 DEF Entry, Fetch, FetchesForward, Bounded
  <2>3. seen' = overview'.data
    BY <1>1, <1>2, <2>1, <2>2 DEF Sees, EntryForward, Entry
  <2> DEFINE x == [v \in Visits |-> Answered(v, overview')]
  <2>4. \A w \in Visits :
           /\ x[w] \in Visit /\ x[w].got = 0 /\ x[w].tip = 0 /\ x[w].stage = "done"
           /\ x[w].cached = overview'
    BY <1>2, <2>2, VisitTypes DEF Answered, At
  <2>5. \A w \in Visits : floor[w] <= overview'.data
    BY <1>1, <1>2, <1>7, <2>2 DEF EntryForward, Entry
  <2>6. visit' = [w \in Visits |-> IF w \in Waiting(s) THEN x[w] ELSE visit[w]]
    BY <2>1
  <2>7. Waiting(s) \subseteq Visits
    BY DEF Waiting
  <2> HIDE DEF x
  <2> QED BY <2>1, <2>2, <2>3, <2>4, <2>5, <2>6, <2>7, FetchEnd
<1>16. ASSUME NEW s \in Visits, OverviewFails(s) PROVE OverviewInv'
  <2> DEFINE x == [v \in Visits |-> IF visit[v].cached = NoEntry THEN Failed(v)
                                    ELSE Answered(v, visit[v].cached)]
  <2>1. /\ fetch[s].going /\ fetch' = [fetch EXCEPT ![s] = NoFetch]
        /\ UNCHANGED <<height, tipCache, overview, seen, floor>>
        /\ visit' = [w \in Visits |-> IF w \in Waiting(s) THEN x[w] ELSE visit[w]]
    BY <1>16 DEF OverviewFails
  <2>2. \A w \in Visits : visit[w].cached \in Entry
    BY <1>7 DEF Visit
  <2>3. \A w \in Visits :
           /\ x[w] \in Visit /\ x[w].got = 0 /\ x[w].tip = 0 /\ x[w].stage \in {"done", "failed"}
           /\ x[w].stage = "done" => x[w].cached = visit[w].cached
    BY <1>2, <2>2, VisitTypes DEF Answered, Failed, At
  <2>4. \A w \in Waiting(s) :
           /\ w \in Visits
           /\ visit[w].cached.label <= visit[w].cached.data /\ floor[w] <= visit[w].cached.data
    BY <1>1 DEF Waiting, VisitsForward
  <2>5. /\ overview' \in Entry /\ overview'.data <= height
        /\ overview'.label <= overview'.data /\ overview.data <= overview'.data
        /\ seen' = overview'.data
    BY <1>1, <1>2, <2>1 DEF EntryForward, Bounded, Entry
  <2> HIDE DEF x
  <2>6. \A w \in Waiting(s) : x[w].stage = "done" =>
           x[w].cached.label <= x[w].cached.data /\ floor[w] <= x[w].cached.data
    BY <2>3, <2>4
  <2>7. \A w \in Waiting(s) :
           x[w] \in Visit /\ x[w].got = 0 /\ x[w].tip = 0 /\ x[w].stage \in {"done", "failed"}
    BY <2>3, <2>4
  <2> QED BY <2>1, <2>5, <2>6, <2>7, FetchEnd
<1>17. CASE UNCHANGED overviewVars
  BY <1>1, <1>17 DEF overviewVars, OverviewInv, OverviewTypeOK, Bounded, OneFetch, FetchesForward,
                     EntryForward, VisitsForward
<1> QED BY <1>3, <1>4, <1>5, <1>6, <1>8, <1>9, <1>10, <1>11, <1>13, <1>14, <1>15, <1>16, <1>17
        DEF OverviewNext

\* A visitor is never shown figures older than the block they are labelled
\* with, nor older than those anybody was shown before it asked: whatever the
\* visitors, the blocks, and the order in which espo answers or fails.
THEOREM OverviewNeverBack == OverviewSpec => []OverviewForward
<1>1. OverviewInv => OverviewForward
  BY DEF OverviewInv, OverviewForward, VisitsForward
<1> QED BY <1>1, OverviewStart, OverviewStep, PTL DEF OverviewSpec

----------------------------------------------------------------------------
(* ThresholdReads: while nothing is missed, a check that asks espo has heard  *)
(* of all joins that count                                                    *)

ChecksHeardAll ==
    ~missed => \A c \in Checks :
        /\ check[c].stage = "delegators" => check[c].heard = {}
        /\ check[c].stage = "actions" => Due = Joins
        /\ check[c].stage = "espo" => check[c].heard = Due

ReadsInv == ReadsTypeOK /\ ChecksHeardAll /\ VerdictRight

LEMMA ReadsStart == ReadsInit => ReadsInv
<1> SUFFICES ASSUME ReadsInit PROVE ReadsInv
  OBVIOUS
<1>1. Free \in Check
  BY DEF Free, Check
<1>2. reaches \in SUBSET SUBSET Joins
  BY ReadsAssumption DEF ReadsInit
<1>3. ReadsTypeOK
  BY <1>1, <1>2 DEF ReadsInit, ReadsTypeOK, Verdicted
<1>4. ChecksHeardAll
  BY DEF ReadsInit, ChecksHeardAll, Free
<1> QED BY <1>3, <1>4 DEF ReadsInit, ReadsInv, VerdictRight

LEMMA ReadsStep == ReadsInv /\ [ReadsNext]_readVars => ReadsInv'
<1> SUFFICES ASSUME ReadsInv, [ReadsNext]_readVars PROVE ReadsInv'
  OBVIOUS
<1>1. /\ ReadsTypeOK /\ ChecksHeardAll /\ VerdictRight
      /\ check \in [Checks -> Check] /\ missed \in BOOLEAN
  BY DEF ReadsInv, ReadsTypeOK
<1>2. Free \in Check /\ Free.stage = "free"
  BY DEF Free, Check
<1>3. ASSUME NEW n \in Servers, NEW j \in Joins, Gossip(n, j) PROVE ReadsInv'
  BY <1>1, <1>3 DEF Gossip, ReadsInv, ReadsTypeOK, ChecksHeardAll, VerdictRight,
                         Judgement, Due, delegationVars
<1>4. ASSUME NEW c \in Checks, NEW blocking \in BOOLEAN, Begin(c, blocking),
             listed' \in BOOLEAN, opened' \in BOOLEAN, UNCHANGED <<delegationVars, reaches, sound, has, verdict, missed, lacked>>
      PROVE  ReadsInv'
  <2> DEFINE x == [stage |-> "delegators", blocking |-> blocking, heard |-> {}]
  <2>1. check' = [check EXCEPT ![c] = x] /\ x \in Check
    BY <1>4 DEF Begin, Check
  <2>2. \A d \in Checks : check'[d] = IF d = c THEN x ELSE check[d]
    BY <1>1, <2>1
  <2>3. ReadsTypeOK'
    BY <1>1, <1>4, <2>1 DEF ReadsTypeOK, delegationVars
  <2>4. ChecksHeardAll'
    BY <1>1, <1>4, <2>2 DEF ChecksHeardAll, Due
  <2>5. VerdictRight'
    BY <1>1, <1>4 DEF VerdictRight, Judgement, Due
  <2> QED BY <2>3, <2>4, <2>5 DEF ReadsInv
<1>5. ASSUME listed' \in BOOLEAN, opened' \in BOOLEAN, UNCHANGED <<delegationVars, reaches, sound, has, verdict, check, missed, lacked>>
      PROVE  ReadsInv'
  BY <1>1, <1>5 DEF ReadsInv, ReadsTypeOK, ChecksHeardAll, VerdictRight,
                    Judgement, Due, delegationVars
<1>6. listed \in BOOLEAN /\ opened \in BOOLEAN /\ (verdict = "passes") \in BOOLEAN
  BY <1>1 DEF ReadsTypeOK, delegationVars
<1>7. ASSUME NEW c \in Checks, List(c) PROVE ReadsInv'
  <2>1. CASE verdict = "none"
    BY <1>4, <1>6, <1>7, <2>1 DEF List
  <2>2. CASE verdict # "none"
    BY <1>5, <1>6, <1>7, <2>2 DEF List
  <2> QED BY <2>1, <2>2
<1>8. ASSUME NEW c \in Checks, OpenProposal(c) PROVE ReadsInv'
  <2>1. CASE verdict = "none"
    BY <1>4, <1>6, <1>8, <2>1 DEF OpenProposal
  <2>2. CASE verdict # "none"
    BY <1>5, <1>6, <1>8, <2>2 DEF OpenProposal
  <2> QED BY <2>1, <2>2
<1>9. CASE ListNothing
  BY <1>5, <1>6, <1>9 DEF ListNothing
<1>10. CASE OpenNothing
  BY <1>5, <1>6, <1>10 DEF OpenNothing
<1>11. ASSUME NEW c \in Checks, NEW S \in SUBSET Servers, HearDelegators(c, S) PROVE ReadsInv'
  <2> DEFINE counts == S # {} /\ delegation # "fails"
             stage == IF counts THEN "actions" ELSE "espo"
  <2>1. /\ check' = [check EXCEPT ![c].stage = stage]
        /\ check[c].stage = "delegators" /\ missed' = (missed \/ (sound # counts /\ Joins # {}))
    BY <1>11 DEF HearDelegators
  <2>2. /\ delegation' = delegation /\ asked' \in BOOLEAN
        /\ UNCHANGED <<offered, reaches, sound, has, verdict, listed, opened, lacked>>
    BY <1>1, <1>11 DEF HearDelegators, AskEspo, ReadsTypeOK
  <2>3. \A d \in Checks : d # c => check'[d] = check[d]
    BY <1>1, <2>1
  <2>4. stage \in {"actions", "espo"} /\ check'[c] = [check[c] EXCEPT !.stage = stage]
    BY <1>1, <2>1
  <2>5. check'[c].stage = stage /\ check'[c].heard = check[c].heard
    BY <1>1, <2>4 DEF Check
  <2>6. check' \in [Checks -> Check] /\ missed' \in BOOLEAN
    <3>1. check[c] \in Check /\ check'[c] \in Check
      BY <1>1, <2>4 DEF Check
    <3> QED BY <1>1, <2>1, <3>1
  <2>7. ReadsTypeOK'
    BY <1>1, <2>2, <2>6 DEF ReadsTypeOK
  <2>8. ~missed' => ~missed /\ (Due = IF counts THEN Joins ELSE {})
    BY <1>1, <2>1 DEF Due
  <2>11. Due' = Due
    BY <2>2 DEF Due
  <2>9. ChecksHeardAll'
    <3>1. ASSUME ~missed', NEW d \in Checks
          PROVE  /\ check'[d].stage = "delegators" => check'[d].heard = {}
                 /\ check'[d].stage = "actions" => Due' = Joins
                 /\ check'[d].stage = "espo" => check'[d].heard = Due'
      <4>1. CASE d = c
        <5>1. ~missed /\ Due = IF counts THEN Joins ELSE {}
          BY <2>8, <3>1
        <5>2. check'[c].heard = {}
          BY <1>1, <2>1, <2>5, <5>1 DEF ChecksHeardAll
        <5> HIDE DEF counts
        <5> QED BY <2>5, <2>11, <4>1, <5>1, <5>2
      <4>2. CASE d # c
        BY <1>1, <2>3, <2>8, <2>11, <3>1, <4>2 DEF ChecksHeardAll
      <4> QED BY <4>1, <4>2
    <3> QED BY <3>1 DEF ChecksHeardAll
  <2>10. VerdictRight'
    BY <1>1, <2>2, <2>8 DEF VerdictRight, Judgement, Due
  <2> QED BY <2>7, <2>9, <2>10 DEF ReadsInv
<1>12. ASSUME NEW c \in Checks, NEW S \in SUBSET Servers, HearActions(c, S) PROVE ReadsInv'
  <2>1. /\ check[c].stage = "actions"
        /\ check' = [check EXCEPT ![c].stage = "espo", ![c].heard = Rows(S)]
        /\ missed' = (missed \/ Rows(S) # Joins)
        /\ UNCHANGED <<delegationVars, reaches, sound, has, verdict, listed, opened, lacked>>
    BY <1>12 DEF HearActions
  <2>2. Rows(S) \in SUBSET Joins
    BY <1>1 DEF ReadsTypeOK, Rows
  <2>3. \A d \in Checks : d # c => check'[d] = check[d]
    BY <1>1, <2>1
  <2>4. check'[c].stage = "espo" /\ check'[c].heard = Rows(S)
    BY <1>1, <2>1 DEF Check
  <2> DEFINE x == [check[c] EXCEPT !.stage = "espo", !.heard = Rows(S)]
  <2>8. x \in Check
    BY <1>1, <2>2 DEF Check
  <2>9. check' = [check EXCEPT ![c] = x]
    BY <2>1
  <2>10. check' \in [Checks -> Check]
    <3> HIDE DEF x
    <3> QED BY <1>1, <2>8, <2>9
  <2>11. missed' \in BOOLEAN
    BY <2>1
  <2>5. ReadsTypeOK'
    BY <1>1, <2>1, <2>10, <2>11 DEF ReadsTypeOK, delegationVars
  <2>6. ChecksHeardAll'
    BY <1>1, <2>1, <2>3, <2>4 DEF ChecksHeardAll, Due
  <2>7. VerdictRight'
    BY <1>1, <2>1 DEF VerdictRight, Judgement, Due
  <2> QED BY <2>5, <2>6, <2>7 DEF ReadsInv
<1>13. ASSUME NEW c \in Checks, check' = [check EXCEPT ![c] = Free], opened' \in BOOLEAN,
              verdict' \in Verdicted, lacked' \in [Judged -> BOOLEAN],
              \/ UNCHANGED <<verdict, lacked>>
              \/ check[c].stage = "espo" /\ verdict' = Judgement(check[c].heard)
              \/ lacked'["proposal"],
              UNCHANGED <<delegationVars, reaches, sound, has, listed, missed>>
       PROVE  ReadsInv'
  <2>1. \A d \in Checks : check'[d] = IF d = c THEN Free ELSE check[d]
    BY <1>1, <1>13
  <2>2. ReadsTypeOK'
    BY <1>1, <1>2, <1>13 DEF ReadsTypeOK, delegationVars
  <2>3. ChecksHeardAll'
    BY <1>1, <1>2, <1>13, <2>1 DEF ChecksHeardAll, Due
  <2>4. VerdictRight'
    BY <1>1, <1>13 DEF VerdictRight, ChecksHeardAll, Judgement, Due
  <2> QED BY <2>2, <2>3, <2>4 DEF ReadsInv
<1>14. ASSUME NEW c \in Checks, NEW lack \in Lacks, Judge(c, lack) PROVE ReadsInv'
  <2> DEFINE turned == Turns(verdict', lack)
  <2>1. /\ check[c].stage = "espo"
        /\ check' = [check EXCEPT ![c] = Free]
        /\ lacked' = [lacked EXCEPT !["proposal"] = turned]
        /\ UNCHANGED <<delegationVars, reaches, sound, has, listed, missed>>
    BY <1>14 DEF Judge, End
  <2>2. opened' \in BOOLEAN
    BY <1>6, <1>14 DEF Judge, End
  <2>3. verdict' \in Verdicted /\ (verdict' = Judgement(check[c].heard) \/ turned)
    BY <1>14 DEF Judge, Outcomes, Verdicted
  <2>4. turned \in BOOLEAN
    BY DEF Turns
  <2> HIDE DEF turned
  <2>5. lacked' \in [Judged -> BOOLEAN] /\ lacked'["proposal"] = turned
    BY <1>1, <2>1, <2>4 DEF ReadsTypeOK, Judged
  <2>6. CASE verdict' = Judgement(check[c].heard)
    BY <1>13, <2>1, <2>2, <2>3, <2>5, <2>6
  <2>7. CASE turned
    BY <1>13, <2>1, <2>2, <2>3, <2>5, <2>7
  <2> QED BY <2>3, <2>6, <2>7
<1>18. ASSUME NEW c \in Checks, Trust(c) PROVE ReadsInv'
  <2>1. opened' \in BOOLEAN
    BY <1>6, <1>18 DEF Trust, End
  <2>2. /\ check' = [check EXCEPT ![c] = Free]
        /\ UNCHANGED <<verdict, delegationVars, reaches, sound, has, listed, missed, lacked>>
    BY <1>18 DEF Trust, End
  <2>3. verdict' \in Verdicted /\ lacked' \in [Judged -> BOOLEAN]
    BY <1>1, <2>2 DEF ReadsTypeOK
  <2> QED BY <1>13, <2>1, <2>2, <2>3
<1>15. ASSUME NEW S \in SUBSET Servers, ListDelegations(S) PROVE ReadsInv'
  <2>1. offered' \in BOOLEAN /\ asked' \in BOOLEAN /\ delegation' = delegation
    BY <1>1, <1>15 DEF ListDelegations, AskEspo, ReadsTypeOK
  <2> QED BY <1>1, <1>15, <2>1 DEF ListDelegations, ReadsInv, ReadsTypeOK, ChecksHeardAll,
                                  VerdictRight, Judgement, Due
<1>16. ASSUME asked' \in BOOLEAN, delegation' \in Verdicted,
              lacked' \in [Judged -> BOOLEAN], lacked'["proposal"] = lacked["proposal"],
              UNCHANGED <<reaches, sound, has, verdict, check, listed, opened, missed, offered>>
       PROVE  ReadsInv'
  <2>1. ReadsTypeOK'
    BY <1>1, <1>16 DEF ReadsTypeOK
  <2>2. ChecksHeardAll' /\ VerdictRight'
    BY <1>1, <1>16 DEF ChecksHeardAll, VerdictRight, Judgement, Due
  <2> QED BY <2>1, <2>2 DEF ReadsInv
<1>19. ASSUME NEW lack \in Lacks, JudgeDelegation(lack) PROVE ReadsInv'
  <2> DEFINE turned == Turns(delegation', lack)
  <2>1. lacked' = [lacked EXCEPT !["delegation"] = turned] /\ turned \in BOOLEAN
    BY <1>19 DEF JudgeDelegation, Turns
  <2> HIDE DEF turned
  <2>2. lacked' \in [Judged -> BOOLEAN] /\ lacked'["proposal"] = lacked["proposal"]
    BY <1>1, <2>1 DEF ReadsTypeOK, Judged
  <2>3. asked' \in BOOLEAN /\ delegation' \in Verdicted
    BY <1>19 DEF JudgeDelegation, Outcomes, Verdicted
  <2> QED BY <1>16, <1>19, <2>2, <2>3 DEF JudgeDelegation
<1>20. CASE TrustDelegation
  <2>1. /\ delegation' \in Verdicted /\ asked' \in BOOLEAN
        /\ lacked' \in [Judged -> BOOLEAN] /\ lacked' = lacked
    BY <1>1, <1>20 DEF TrustDelegation, ReadsTypeOK
  <2> QED BY <1>16, <1>20, <2>1 DEF TrustDelegation
<1>17. CASE UNCHANGED readVars
  BY <1>5, <1>6, <1>17 DEF readVars
<1> QED BY <1>3, <1>7, <1>8, <1>9, <1>10, <1>11, <1>12, <1>14, <1>15,
           <1>17, <1>18, <1>19, <1>20
        DEF ReadsNext, EspoAnswers, EspoAnswersDelegation

\* Batches that fail, a start block espo has no view of and checks that overlap
\* never leave a wrong verdict in a browser's cache, whatever the balances,
\* joins, nodes and checks: only missing rows do, a delegation wrongly counted
\* or dropped, and a batch espo answered in part.
THEOREM CachedVerdictRight == ReadsSpec => []VerdictRight
<1>1. ReadsInv => VerdictRight
  BY DEF ReadsInv
<1> QED BY <1>1, ReadsStart, ReadsStep, PTL DEF ReadsSpec

----------------------------------------------------------------------------
(* SigningPages: as long as the page is not blind, what it knows is what the *)
(* nodes store, and what it signs is later than all of that                  *)

Later(r, s) == r.height > s.height \/ (r.height = s.height /\ r.seq > s.seq)

\* What the nodes stored before the submission.
Before == IF submission.stage = "post" THEN Stored \ {submission.row} ELSE Stored

\* Submission without its bounds.
Signing == [stage : {"idle", "tip", "sign", "post", "reread"}, captured : SUBSET Nonce,
            row : Nonce, ok : BOOLEAN]

SignTypes ==
    /\ kind \in {"membership", "profile"}
    /\ tip \in Nat \ {0}
    /\ records \in [Stores -> SUBSET Nonce]
    /\ shownRows \subseteq Nonce
    /\ loaded \in BOOLEAN
    /\ submission \in Signing
    /\ newest \in Nonce

Mined ==
    /\ \A r \in Stored : r.height # 0 /\ r.height <= tip
    /\ submission.stage \in {"sign", "post"} =>
          submission.row.height # 0 /\ submission.row.height <= tip

NewestLeads ==
    \/ Before = {} /\ newest = NoRow
    \/ newest \in Before /\ \A r \in Before \ {newest} : Later(newest, r)

RowLeads ==
    submission.stage \in {"sign", "post"} => \A r \in Before : Later(submission.row, r)

OwnPosts ==
    /\ submission.stage # "post" => posts = {}
    /\ submission.stage \in {"tip", "sign"} => ~submission.ok
    /\ submission.stage = "post" =>
          /\ posts \subseteq {<<n, submission.row>> : n \in Stores}
          /\ submission.ok => submission.row \in Stored

\* What the query answers to a page that hears of all rows.
Shows(rows) ==
    IF kind = "profile" THEN rows = (IF newest = NoRow THEN {} ELSE {newest})
                        ELSE rows = Stored

UpToDate ==
    /\ loaded /\ submission.stage # "reread"
         /\ (submission.stage = "post" => submission.row \notin Stored)
       => Shows(shownRows)
    /\ submission.stage = "tip" => Shows(submission.captured)

Sighted == SignTypes /\ Mined /\ NewestLeads /\ RowLeads /\ OwnPosts /\ UpToDate

SignInv == blind \in BOOLEAN /\ (~blind => Sighted)

LEMMA BestIsLatest ==
    ASSUME NEW S \in SUBSET Nonce, NEW m \in S, \A r \in S \ {m} : Later(m, r)
    PROVE  Best(S) = m
<1>1. \A s \in S \ {m} : Beats(m, s)
  BY DEF Later, Beats
<1>2. ASSUME NEW b \in S, \A s \in S \ {b} : Beats(b, s)
      PROVE  b = m
  BY <1>2 DEF Later, Beats, Nonce
<1> QED BY <1>1, <1>2 DEF Best

LEMMA MaxIsGreatest ==
    ASSUME NEW S \in SUBSET Nat, NEW m \in S, \A y \in S : y <= m
    PROVE  Max(S) = m
<1>1. \A y \in S : m >= y
  OBVIOUS
<1>2. ASSUME NEW b \in S, \A y \in S : b >= y
      PROVE  b = m
  BY <1>2
<1> QED BY <1>1, <1>2 DEF Max

LEMMA StoredType == SignTypes => Stored \subseteq Nonce
BY DEF SignTypes, Stored

LEMMA SignStart == SignInit => SignInv
<1> SUFFICES ASSUME SignInit PROVE SignInv
  OBVIOUS
<1>1. Stored = {} /\ blind = FALSE /\ submission.stage = "idle"
  BY DEF SignInit, Stored, NoSubmission
<1>2. NoRow \in Nonce
  BY DEF NoRow, Nonce
<1>3. SignTypes
  <2>1. NoSubmission \in Signing
    BY <1>2 DEF NoSubmission, Signing
  <2>2. records \in [Stores -> SUBSET Nonce]
    BY DEF SignInit
  <2>3. tip \in Nat \ {0} /\ shownRows \subseteq Nonce
    BY DEF SignInit
  <2>4. loaded \in BOOLEAN
    BY DEF SignInit
  <2> QED BY <1>2, <2>1, <2>2, <2>3, <2>4 DEF SignInit, SignTypes
<1>4. Mined /\ NewestLeads /\ RowLeads /\ OwnPosts /\ UpToDate
  BY <1>1 DEF SignInit, Mined, NewestLeads, Before, RowLeads, OwnPosts, UpToDate
<1> QED BY <1>1, <1>3, <1>4 DEF SignInv, Sighted

\* The nonce the page picks is later than everything stored.
LEMMA SeqLeads ==
    ASSUME Sighted, submission.stage = "tip",
           NEW seq, seq = IF kind = "profile" THEN UpdateSeq(submission.captured, tip)
                                              ELSE ActionSeq(submission.captured, tip)
    PROVE  /\ seq \in Nat
           /\ \A r \in Stored : r.height < tip \/ (r.height = tip /\ r.seq < seq)
<1>1. /\ SignTypes /\ Mined /\ Shows(submission.captured) /\ Before = Stored
      /\ Stored \subseteq Nonce /\ newest \in Nonce /\ tip \in Nat \ {0}
  BY StoredType DEF Sighted, UpToDate, Before, SignTypes
<1>2. \A r \in Stored : r.height \in Nat /\ r.seq \in Nat /\ r.height # 0 /\ r.height <= tip
  BY <1>1 DEF Nonce, Mined
<1>3. CASE Stored = {}
  <2>1. newest = NoRow
    BY <1>1, <1>3 DEF Sighted, NewestLeads
  <2>2. submission.captured = {}
    BY <1>1, <1>3, <2>1 DEF Shows
  <2>3. seq = 0
    BY <2>2 DEF UpdateSeq, ActionSeq
  <2> QED BY <1>3, <2>3
<1>4. CASE Stored # {}
  <2>1. newest \in Stored /\ \A r \in Stored \ {newest} : Later(newest, r)
    BY <1>1, <1>4 DEF Sighted, NewestLeads
  <2>2. \A r \in Stored : r.height < newest.height
                           \/ (r.height = newest.height /\ r.seq <= newest.seq)
    BY <1>2, <2>1 DEF Later
  <2>3. newest.height \in Nat /\ newest.seq \in Nat /\ newest.height <= tip /\ newest.height # 0
    BY <1>2, <2>1
  <2>4. newest # NoRow
    BY <2>3 DEF NoRow
  <2>5. CASE newest.height = tip
    <3>1. seq = newest.seq + 1
      <4>1. CASE kind = "profile"
        <5>1. submission.captured = {newest}
          BY <1>1, <2>4, <4>1 DEF Shows
        <5>2. Best(submission.captured) = newest
          BY <1>1, <5>1, BestIsLatest
        <5> QED BY <2>5, <4>1, <5>1, <5>2 DEF UpdateSeq
      <4>2. CASE kind # "profile"
        <5> DEFINE mine == {r \in Stored : r.height = tip}
                   seqs == {r.seq : r \in mine}
        <5>1. submission.captured = Stored
          BY <1>1, <4>2 DEF Shows
        <5>2. newest \in mine /\ seqs \subseteq Nat /\ newest.seq \in seqs
          BY <1>2, <2>1, <2>5
        <5>3. \A y \in seqs : y <= newest.seq
          BY <1>1, <1>2, <2>2, <2>3, <2>5
        <5>4. Max(seqs) = newest.seq
          <6> HIDE DEF seqs
          <6> QED BY <5>2, <5>3, MaxIsGreatest
        <5> QED BY <4>2, <5>1, <5>2, <5>4 DEF ActionSeq
      <4> QED BY <4>1, <4>2
    <3> QED BY <1>2, <2>2, <2>3, <2>5, <3>1
  <2>6. CASE newest.height # tip
    <3>1. \A r \in Stored : r.height < tip
      BY <1>1, <1>2, <2>2, <2>3, <2>6
    <3>2. seq = 0
      <4>1. CASE kind = "profile"
        <5>1. submission.captured = {newest}
          BY <1>1, <2>4, <4>1 DEF Shows
        <5>2. Best(submission.captured) = newest
          BY <1>1, <5>1, BestIsLatest
        <5> QED BY <2>6, <4>1, <5>1, <5>2 DEF UpdateSeq
      <4>2. CASE kind # "profile"
        <5>1. submission.captured = Stored
          BY <1>1, <4>2 DEF Shows
        <5>2. {r \in Stored : r.height = tip} = {}
          BY <1>1, <1>2, <3>1
        <5> QED BY <4>2, <5>1, <5>2 DEF ActionSeq
      <4> QED BY <4>1, <4>2
    <3> QED BY <3>1, <3>2
  <2> QED BY <2>5, <2>6
<1> QED BY <1>3, <1>4

\* The query is answered while the page can still see.
LEMMA HearsAll ==
    ASSUME Sighted, NEW S \in SUBSET Stores, Hears(S), ~blind'
    PROVE  /\ ~blind /\ shownRows' \subseteq Nonce /\ loaded' \in BOOLEAN
           /\ Before = Stored => Shows(shownRows')
<1> DEFINE rows == UNION {records[n] : n \in S}
<1>1. ~blind /\ rows = Stored
  BY DEF Hears, Blinds
<1>2. Stored \subseteq Nonce /\ newest \in Nonce
  BY StoredType DEF Sighted, SignTypes
<1>3. /\ shownRows' = IF kind = "profile" /\ Stored # {} THEN {Best(Stored)} ELSE Stored
      /\ loaded' \in BOOLEAN
  BY <1>1 DEF Hears
<1>4. CASE Stored = {}
  <2>1. Before = Stored => newest = NoRow
    BY <1>4 DEF Sighted, NewestLeads
  <2> QED BY <1>1, <1>2, <1>3, <1>4, <2>1 DEF Shows
<1>5. CASE Stored # {} /\ Before = Stored
  <2>1. newest \in Stored /\ \A r \in Stored \ {newest} : Later(newest, r)
    BY <1>2, <1>5 DEF Sighted, NewestLeads
  <2>2. newest # NoRow
    BY <2>1 DEF Sighted, Mined, NoRow
  <2>3. Best(Stored) = newest
    BY <1>2, <2>1, BestIsLatest
  <2> QED BY <1>1, <1>2, <1>3, <1>5, <2>2, <2>3 DEF Shows
<1>6. CASE Before # Stored
  <2>1. /\ submission.stage = "post" /\ submission.row \in Stored
        /\ Before = Stored \ {submission.row}
    BY <1>6 DEF Before
  <2>2. \A r \in Stored \ {submission.row} : Later(submission.row, r)
    BY <2>1 DEF Sighted, RowLeads
  <2>3. Best(Stored) = submission.row
    BY <1>2, <2>1, <2>2, BestIsLatest
  <2> QED BY <1>1, <1>2, <1>3, <1>6, <2>1, <2>3
<1> QED BY <1>4, <1>5, <1>6

\* Nothing is stored, posted or accepted.
LEMMA QuietStep ==
    ASSUME Sighted, UNCHANGED <<kind, records, posts, newest>>,
           submission.stage # "post" /\ submission'.stage # "post",
           tip' \in Nat, tip <= tip',
           submission' \in Signing, shownRows' \subseteq Nonce, loaded' \in BOOLEAN,
           submission'.stage = "sign" =>
              /\ submission'.row.height # 0 /\ submission'.row.height <= tip'
              /\ \A r \in Stored : Later(submission'.row, r),
           submission'.stage \in {"tip", "sign"} => ~submission'.ok,
           loaded' /\ submission'.stage # "reread" => Shows(shownRows'),
           submission'.stage = "tip" => Shows(submission'.captured)
    PROVE  Sighted'
<1>1. Stored' = Stored /\ Before' = Before /\ Before = Stored
  BY DEF Stored, Before
<1>2. SignTypes /\ Mined /\ NewestLeads /\ RowLeads /\ OwnPosts /\ UpToDate
  BY DEF Sighted
<1>3. SignTypes' /\ tip \in Nat
  BY <1>2 DEF SignTypes
<1>4. \A r \in Stored : r.height \in Nat
  BY <1>2, StoredType DEF Nonce
<1>5. Mined'
  BY <1>1, <1>2, <1>3, <1>4 DEF Mined
<1>6. NewestLeads'
  BY <1>1, <1>2 DEF NewestLeads
<1>7. RowLeads' /\ OwnPosts'
  BY <1>1, <1>2 DEF RowLeads, OwnPosts
<1>8. UpToDate'
  BY <1>1 DEF UpToDate, Shows
<1> QED BY <1>3, <1>5, <1>6, <1>7, <1>8 DEF Sighted

LEMMA SignStep == SignInv /\ [SignNext]_signVars => SignInv'
<1> SUFFICES ASSUME SignInv, [SignNext]_signVars PROVE SignInv'
  OBVIOUS
<1>1. blind' \in BOOLEAN /\ (blind => blind')
  BY DEF SignInv, SignNext, signVars, MineTip, LeavePage, Click, TipKnown, SignRow, SigningFails,
         PostSettles, Read, Reread, NodeAnswers, Hears, Blinds
<1> SUFFICES ASSUME ~blind' PROVE Sighted'
  BY <1>1 DEF SignInv
<1>2. ~blind /\ Sighted
  BY <1>1 DEF SignInv
<1>3. SignTypes /\ Mined /\ NewestLeads /\ RowLeads /\ OwnPosts /\ UpToDate
  BY <1>2 DEF Sighted
<1>4. /\ submission \in Signing /\ tip \in Nat /\ tip # 0 /\ shownRows \subseteq Nonce
      /\ loaded \in BOOLEAN /\ Stored \subseteq Nonce /\ newest \in Nonce
  BY <1>3, StoredType DEF SignTypes
<1>5. /\ NoSubmission \in Signing /\ NoSubmission.stage = "idle"
  BY DEF NoSubmission, NoRow, Nonce, Signing
<1>6. CASE MineTip
  <2>1. /\ tip' = tip + 1
        /\ UNCHANGED <<kind, records, shownRows, loaded, submission, posts, newest>>
    BY <1>6 DEF MineTip
  <2>2. Stored' = Stored /\ Before' = Before
    BY <2>1 DEF Stored, Before
  <2>3. SignTypes'
    BY <1>3, <1>4, <2>1 DEF SignTypes
  <2>4. \A r \in Stored : r.height \in Nat
    BY <1>4 DEF Nonce
  <2>5. submission.row.height \in Nat
    BY <1>4 DEF Signing, Nonce
  <2>6. Mined'
    BY <1>3, <1>4, <2>1, <2>2, <2>4, <2>5 DEF Mined
  <2>7. NewestLeads' /\ RowLeads' /\ OwnPosts' /\ UpToDate'
    BY <1>3, <2>1, <2>2 DEF NewestLeads, RowLeads, OwnPosts, UpToDate, Shows
  <2> QED BY <2>3, <2>6, <2>7 DEF Sighted
<1>7. CASE LeavePage
  <2>1. /\ submission.stage # "post" /\ submission' = NoSubmission
        /\ shownRows' = {} /\ loaded' = FALSE /\ UNCHANGED <<kind, tip, records, posts, newest>>
    BY <1>7 DEF LeavePage, Blinds
  <2>2. shownRows' \subseteq Nonce /\ loaded' \in BOOLEAN /\ ~loaded'
    BY <2>1
  <2> QED BY <1>2, <1>4, <1>5, <2>1, <2>2, QuietStep
<1>8. CASE Click
  <2> DEFINE x == [NoSubmission EXCEPT !.stage = "tip", !.captured = shownRows]
  <2>1. /\ submission.stage = "idle" /\ loaded /\ submission' = x
        /\ UNCHANGED <<kind, tip, records, shownRows, loaded, posts, newest>>
    BY <1>4, <1>8 DEF Click, Blinds
  <2>2. x \in Signing /\ x.stage = "tip" /\ x.captured = shownRows /\ ~x.ok
    BY <1>4, <1>5 DEF Signing, NoSubmission
  <2>3. Shows(shownRows)
    BY <1>3, <2>1 DEF UpToDate
  <2> HIDE DEF x
  <2> QED BY <1>2, <1>4, <2>1, <2>2, <2>3, QuietStep
<1>9. CASE TipKnown
  <2> DEFINE seq == IF kind = "profile" THEN UpdateSeq(submission.captured, tip)
                                        ELSE ActionSeq(submission.captured, tip)
             row == [height |-> tip, sig |-> 0, seq |-> seq]
             x == [submission EXCEPT !.stage = "sign", !.row = row]
  <2>1. /\ submission.stage = "tip" /\ submission' = x
        /\ UNCHANGED <<kind, tip, records, shownRows, loaded, posts, newest>>
    BY <1>9 DEF TipKnown
  <2>2. /\ seq \in Nat
        /\ \A r \in Stored : r.height < tip \/ (r.height = tip /\ r.seq < seq)
    <3> HIDE DEF seq
    <3> QED BY <1>2, <2>1, SeqLeads DEF seq
  <2> HIDE DEF seq
  <2>3. row \in Nonce /\ row.height = tip /\ row.seq = seq
    BY <1>4, <2>2 DEF Nonce
  <2>4. \A r \in Stored : Later(row, r)
    BY <1>4, <2>2, <2>3 DEF Later, Nonce
  <2> HIDE DEF row
  <2>5. x \in Signing /\ x.stage = "sign" /\ x.row = row /\ x.ok = submission.ok
    BY <1>4, <2>3 DEF Signing
  <2>6. loaded => Shows(shownRows)
    BY <1>3, <2>1 DEF UpToDate
  <2> HIDE DEF x
  <2>7. ~submission.ok
    BY <1>3, <2>1 DEF OwnPosts
  <2> QED BY <1>2, <1>4, <2>1, <2>3, <2>4, <2>5, <2>6, <2>7, QuietStep
<1>10. CASE SigningFails
  <2>1. /\ submission.stage \in {"tip", "sign"} /\ submission' = NoSubmission
        /\ UNCHANGED <<kind, tip, records, shownRows, loaded, posts, newest>>
    BY <1>10 DEF SigningFails
  <2>2. loaded => Shows(shownRows)
    BY <1>3, <2>1 DEF UpToDate
  <2> QED BY <1>2, <1>4, <1>5, <2>1, <2>2, QuietStep
<1>11. CASE SignRow
  <2>1. PICK sig \in Sigs : submission' = [submission EXCEPT !.stage = "post", !.row.sig = sig]
    BY <1>11 DEF SignRow
  <2>2. /\ submission.stage = "sign" /\ posts' = posts \cup {<<n, submission'.row>> : n \in Stores}
        /\ UNCHANGED <<kind, tip, records, shownRows, loaded, newest>>
    BY <1>11 DEF SignRow
  <2>3. sig \in Nat
    BY SigningAssumption DEF Sigs
  <2> DEFINE row == [submission.row EXCEPT !.sig = sig]
  <2>4. row \in Nonce /\ row.height = submission.row.height /\ row.seq = submission.row.seq
    BY <1>4, <2>3 DEF Signing, Nonce
  <2>5. submission' = [submission EXCEPT !.stage = "post", !.row = row]
    BY <2>1
  <2> HIDE DEF row
  <2>6. submission' \in Signing /\ submission'.stage = "post" /\ submission'.row = row
        /\ submission'.ok = submission.ok
    BY <1>4, <2>4, <2>5 DEF Signing
  <2>7. \A r \in Stored : Later(row, r)
    BY <1>3, <2>2, <2>4 DEF RowLeads, Before, Later
  <2>8. row \notin Stored
    BY <1>4, <2>7 DEF Later, Nonce
  <2>9. Stored' = Stored /\ Before = Stored /\ Before' = Stored
    BY <2>2, <2>6, <2>8 DEF Stored, Before
  <2>10. SignTypes'
    BY <1>3, <2>2, <2>6 DEF SignTypes
  <2>11. Mined'
    BY <1>3, <2>2, <2>4, <2>6, <2>9 DEF Mined
  <2>12. NewestLeads' /\ RowLeads'
    BY <1>3, <2>2, <2>6, <2>7, <2>9 DEF NewestLeads, RowLeads
  <2>13. OwnPosts'
    BY <1>3, <2>2, <2>6 DEF OwnPosts
  <2>14. UpToDate'
    BY <1>3, <2>2, <2>6, <2>9 DEF UpToDate, Shows
  <2> QED BY <2>10, <2>11, <2>12, <2>13, <2>14 DEF Sighted
<1>12. CASE PostSettles
  <2>1. /\ submission.stage = "post" /\ \A n \in Stores : <<n, submission.row>> \notin posts
        /\ UNCHANGED <<kind, tip, records, shownRows, loaded, posts>>
    BY <1>12 DEF PostSettles
  <2>2. posts = {}
    <3>1. posts \subseteq {<<n, submission.row>> : n \in Stores}
      BY <1>3, <2>1 DEF OwnPosts
    <3> QED BY <2>1, <3>1
  <2>3. Stored' = Stored /\ Before = Stored \ {submission.row}
    BY <2>1 DEF Stored, Before
  <2>4. CASE submission.ok
    <3>1. submission' = [submission EXCEPT !.stage = "reread"] /\ newest' = submission.row
      BY <1>12, <2>4 DEF PostSettles
    <3>2. /\ submission' \in Signing /\ submission'.stage = "reread" /\ newest' \in Nonce
      BY <1>4, <3>1 DEF Signing
    <3>3. SignTypes'
      BY <1>3, <2>1, <3>2 DEF SignTypes
    <3>4. Mined'
      BY <1>3, <2>1, <2>3, <3>2 DEF Mined
    <3>5. submission.row \in Stored /\ Before' = Stored
      BY <1>3, <2>1, <2>3, <2>4, <3>2 DEF OwnPosts, Before
    <3>6. \A r \in Stored \ {submission.row} : Later(submission.row, r)
      BY <1>3, <2>1, <2>3 DEF RowLeads
    <3>7. NewestLeads' /\ RowLeads'
      BY <3>1, <3>2, <3>5, <3>6 DEF NewestLeads, RowLeads
    <3>8. OwnPosts' /\ UpToDate'
      BY <2>1, <2>2, <3>2 DEF OwnPosts, UpToDate
    <3> QED BY <3>3, <3>4, <3>7, <3>8 DEF Sighted
  <2>5. CASE ~submission.ok
    <3>1. submission' = NoSubmission /\ newest' = newest /\ submission.row \notin Stored
      BY <1>12, <2>5 DEF PostSettles, Blinds
    <3>2. ~submission'.ok /\ submission'.stage = "idle" /\ submission' \in Signing
      BY <1>5, <3>1 DEF NoSubmission
    <3>3. SignTypes'
      BY <1>3, <2>1, <3>1, <3>2 DEF SignTypes
    <3>4. Mined'
      BY <1>3, <2>1, <2>3, <3>2 DEF Mined
    <3>5. Before' = Stored /\ Before = Stored
      BY <2>3, <3>1, <3>2 DEF Before
    <3>6. NewestLeads' /\ RowLeads' /\ OwnPosts'
      BY <1>3, <2>1, <2>2, <3>1, <3>2, <3>5 DEF NewestLeads, RowLeads, OwnPosts
    <3>7. loaded => Shows(shownRows)
      BY <1>3, <2>1, <3>1 DEF UpToDate
    <3>8. UpToDate'
      BY <2>1, <2>3, <3>1, <3>2, <3>7 DEF UpToDate, Shows
    <3> QED BY <3>3, <3>4, <3>6, <3>8 DEF Sighted
  <2> QED BY <2>4, <2>5
<1>13. ASSUME NEW S \in SUBSET Stores, Read(S) PROVE Sighted'
  <2>1. /\ submission.stage # "reread" /\ Hears(S)
        /\ UNCHANGED <<kind, tip, records, submission, posts, newest>>
    BY <1>13 DEF Read
  <2>2. Stored' = Stored /\ Before' = Before
    BY <2>1 DEF Stored, Before
  <2>3. /\ shownRows' \subseteq Nonce /\ loaded' \in BOOLEAN
        /\ Before = Stored => Shows(shownRows')
    BY <1>2, <2>1, HearsAll
  <2>4. SignTypes'
    BY <1>3, <2>1, <2>3 DEF SignTypes
  <2>5. Mined' /\ NewestLeads' /\ RowLeads' /\ OwnPosts'
    BY <1>3, <2>1, <2>2 DEF Mined, NewestLeads, RowLeads, OwnPosts
  <2>6. UpToDate'
    <3>1. (submission.stage = "post" => submission.row \notin Stored) => Before = Stored
      BY DEF Before
    <3> QED BY <1>3, <2>1, <2>2, <2>3, <3>1 DEF UpToDate, Shows
  <2> QED BY <2>4, <2>5, <2>6 DEF Sighted
<1>14. ASSUME NEW S \in SUBSET Stores, Reread(S) PROVE Sighted'
  <2>1. /\ submission.stage = "reread" /\ Hears(S) /\ submission' = NoSubmission
        /\ UNCHANGED <<kind, tip, records, posts, newest>>
    BY <1>14 DEF Reread
  <2>2. Before = Stored
    BY <2>1 DEF Before
  <2>3. shownRows' \subseteq Nonce /\ loaded' \in BOOLEAN /\ Shows(shownRows')
    BY <1>2, <2>1, <2>2, HearsAll
  <2> QED BY <1>2, <1>4, <1>5, <2>1, <2>3, QuietStep
<1>15. ASSUME NEW p \in posts, NEW stores \in BOOLEAN, NEW ok \in BOOLEAN,
              NodeAnswers(p[1], p[2], stores, ok)
       PROVE  Sighted'
  <2>1. /\ submission.stage = "post" /\ posts \subseteq {<<n, submission.row>> : n \in Stores}
        /\ submission.ok => submission.row \in Stored
    BY <1>3, <1>15 DEF OwnPosts
  <2> DEFINE row == submission.row
  <2>2. p[1] \in Stores /\ p[2] = row /\ row \in Nonce
    BY <1>4, <2>1 DEF Signing
  <2>3. /\ ok => stores
        /\ posts' \subseteq posts
        /\ records' = IF stores THEN [records EXCEPT ![p[1]] = @ \cup {row}] ELSE records
        /\ submission' = IF ok THEN [submission EXCEPT !.ok = TRUE] ELSE submission
        /\ UNCHANGED <<kind, tip, shownRows, loaded, newest>>
    BY <1>15, <2>2 DEF NodeAnswers
  <2>4. records' \in [Stores -> SUBSET Nonce]
    BY <1>3, <2>2, <2>3 DEF SignTypes
  <2>5. Stored' = IF stores THEN Stored \cup {row} ELSE Stored
    <3>1. CASE stores
      <4>1. \A n \in Stores : records'[n] = IF n = p[1] THEN records[n] \cup {row} ELSE records[n]
        BY <1>3, <2>3, <3>1 DEF SignTypes
      <4>2. \A r : (\E n \in Stores : r \in records'[n]) <=> (\E n \in Stores : r \in records[n]) \/ r = row
        BY <2>2, <4>1
      <4>3. \A r : r \in Stored' <=> \E n \in Stores : r \in records'[n]
        BY DEF Stored
      <4>4. \A r : r \in Stored <=> \E n \in Stores : r \in records[n]
        BY DEF Stored
      <4>5. \A r : r \in Stored' <=> r \in Stored \cup {row}
        BY <4>2, <4>3, <4>4
      <4> QED BY <3>1, <4>5
    <3>2. CASE ~stores
      BY <2>3, <3>2 DEF Stored
    <3> QED BY <3>1, <3>2
  <2>6. /\ submission' \in Signing /\ submission'.stage = "post" /\ submission'.row = row
        /\ submission'.ok => ok \/ submission.ok
    BY <1>4, <2>1, <2>3 DEF Signing
  <2>7. Before' = Before
    BY <2>1, <2>5, <2>6 DEF Before
  <2>8. SignTypes'
    BY <1>3, <2>3, <2>4, <2>6 DEF SignTypes
  <2>9. Mined'
    BY <1>3, <2>1, <2>3, <2>5, <2>6 DEF Mined
  <2>10. NewestLeads' /\ RowLeads'
    BY <1>3, <2>1, <2>3, <2>6, <2>7 DEF NewestLeads, RowLeads
  <2>11. OwnPosts'
    BY <2>1, <2>3, <2>5, <2>6 DEF OwnPosts
  <2>12. row \notin Stored' => Stored' = Stored
    BY <2>5
  <2>13. UpToDate'
    BY <1>3, <2>1, <2>3, <2>6, <2>12 DEF UpToDate, Shows
  <2> QED BY <2>8, <2>9, <2>10, <2>11, <2>13 DEF Sighted
<1>16. CASE UNCHANGED signVars
  <2>1. UNCHANGED <<kind, tip, records, shownRows, loaded, submission, posts, newest>>
    BY <1>16 DEF signVars
  <2>2. Stored' = Stored /\ Before' = Before
    BY <2>1 DEF Stored, Before
  <2> QED BY <1>3, <2>1, <2>2
          DEF Sighted, SignTypes, Mined, NewestLeads, RowLeads, OwnPosts, UpToDate, Shows
<1> QED BY <1>6, <1>7, <1>8, <1>9, <1>10, <1>11, <1>12, <1>13, <1>14, <1>15, <1>16 DEF SignNext

\* What was clicked last wins over all that was clicked before, whichever and
\* however many nodes took it, as long as the page is not blind.
THEOREM LastClickAlwaysWins == SignSpec => []LastClickWins
<1>1. SignInv => LastClickWins
  <2> SUFFICES ASSUME Sighted, submission.stage # "post", newest # NoRow,
                      NEW r \in Stored \ {newest}
               PROVE  Beats(newest, r)
    BY DEF SignInv, LastClickWins
  <2>1. Before = Stored
    BY DEF Before
  <2> QED BY <2>1 DEF Sighted, NewestLeads, Later, Beats
<1> QED BY <1>1, SignStart, SignStep, PTL DEF SignSpec

----------------------------------------------------------------------------
(* SigningPages: the types of what the page signs, whatever it hears.  The   *)
(* page counts on from a record that is stored, and there are no more        *)
(* sequence numbers in use than signatures.                                  *)

\* A page chooses among finitely many records: that it finds a best one and a
\* greatest number rests on it.
LEMMA RowsFinite == IsFiniteSet(Row)
<1> USE SigningAssumption
<1> DEFINE Nonces == ((1..LastTip) \X (0..MaxSigs)) \X Sigs
           Packed == [r \in Row |-> <<<<r.height, r.seq>>, r.sig>>]
<1>1. IsFiniteSet(Nonces)
  <2>1. IsFiniteSet(1..LastTip) /\ IsFiniteSet(0..MaxSigs) /\ IsFiniteSet(Sigs)
    BY FS_Interval DEF Sigs
  <2> QED BY <2>1, FS_Product
<1>2. Packed \in [Row -> Nonces]
  BY DEF Row
<1>3. \A r, s \in Row : Packed[r] = Packed[s] => r = s
  BY DEF Row
<1>4. Packed \in Injection(Row, Nonces)
  BY <1>2, <1>3 DEF Injection, IsInjective
<1> QED BY <1>1, <1>4, FS_Injection

\* One of the records served wins over the others.
LEMMA BestExists ==
    ASSUME NEW S \in SUBSET Nonce, IsFiniteSet(S), S # {}
    PROVE  Best(S) \in S /\ \A s \in S \ {Best(S)} : Beats(Best(S), s)
<1> DEFINE R == {p \in S \X S : Beats(p[1], p[2])}
<1>1. \A a, b \in S : <<a, b>> \in R <=> Beats(a, b)
  OBVIOUS
<1> HIDE DEF R
<1>2. \A a, b \in S : a # b => Beats(a, b) \/ Beats(b, a)
  BY DEF Nonce, Beats
<1>3. \A a, b, c \in S : Beats(a, b) /\ Beats(b, c) => Beats(a, c)
  BY DEF Nonce, Beats
<1>4. \E m \in S : \A s \in S \ {m} : <<m, s>> \in R
  <2>1. \A a, b \in S : a # b => <<a, b>> \in R \/ <<b, a>> \in R
    BY <1>1, <1>2
  <2>2. \A a, b, c \in S : <<a, b>> \in R /\ <<b, c>> \in R => <<a, c>> \in R
    BY <1>1, <1>3
  <2> QED BY <2>1, <2>2, FiniteBest
<1> QED BY <1>1, <1>4 DEF Best

\* A sequence number is 0, or follows that of a record that is stored.
RowsNumbered ==
    /\ \A r \in Exist : r.seq < r.sig
    /\ shownRows \subseteq Stored /\ submission.captured \subseteq Stored
    /\ submission.stage = "sign" =>
          /\ submission.row \in Draft
          /\ submission.row.seq = 0 \/ \E r \in Stored : r.seq + 1 = submission.row.seq
    /\ submission.stage = "post" => submission.row \in Row

SignTyped == SignTypeOK /\ RowsNumbered

LEMMA StoredRows == SignTypeOK => Stored \subseteq Row /\ Exist \subseteq Row
  BY DEF SignTypeOK, Stored, Exist

LEMMA RowType ==
    /\ \A r \in Row : r.height \in 1..LastTip /\ r.seq \in 0..MaxSigs /\ r.sig \in Sigs
    /\ Sigs \subseteq Nat /\ Row \subseteq Nonce
  BY SigningAssumption DEF Row, Sigs, Nonce

\* The sequence number a page picks follows one that it was served.
LEMMA SeqFollows ==
    ASSUME SignTyped, NEW rows \in SUBSET Stored, NEW at,
           NEW seq \in {UpdateSeq(rows, at), ActionSeq(rows, at)}
    PROVE  seq = 0 \/ \E r \in Stored : r.seq + 1 = seq
<1>1. Stored \subseteq Row
  BY StoredRows DEF SignTyped
<1>2. CASE seq = UpdateSeq(rows, at)
  <2>1. CASE rows = {}
    BY <1>2, <2>1 DEF UpdateSeq
  <2>2. CASE rows # {}
    <3>1. rows \in SUBSET Nonce /\ rows \in SUBSET Row
      BY <1>1, RowType
    <3>2. IsFiniteSet(rows)
      BY <3>1, RowsFinite, FS_Subset
    <3>3. Best(rows) \in rows
      BY <2>2, <3>1, <3>2, BestExists
    <3> QED BY <1>2, <2>2, <3>3 DEF UpdateSeq
  <2> QED BY <2>1, <2>2
<1>3. CASE seq = ActionSeq(rows, at)
  <2> DEFINE mine == {r \in rows : r.height = at}
             seqs == {r.seq : r \in mine}
  <2>1. CASE mine = {}
    BY <1>3, <2>1 DEF ActionSeq
  <2>2. CASE mine # {}
    <3>1. seqs \in SUBSET (0..MaxSigs) /\ seqs \in SUBSET Int /\ seqs # {}
      BY <1>1, <2>2, RowType
    <3>2. IsFiniteSet(seqs)
      <4>1. IsFiniteSet(0..MaxSigs)
        BY SigningAssumption, FS_Interval
      <4> HIDE DEF seqs
      <4> QED BY <3>1, <4>1, FS_Subset
    <3>3. PICK m \in seqs : \A s \in seqs : s <= m
      <4> HIDE DEF seqs
      <4> QED BY <3>1, <3>2, FiniteMax
    <3>4. Max(seqs) = m
      <4> HIDE DEF seqs
      <4> QED BY <3>1, <3>3, SigningAssumption, MaxIsGreatest
    <3>5. seq = m + 1
      BY <1>3, <2>2, <3>4 DEF ActionSeq
    <3> QED BY <3>3, <3>5
  <2> QED BY <2>1, <2>2
<1> QED BY <1>2, <1>3

LEMMA SignTypesStart == SignInit => SignTyped
<1> SUFFICES ASSUME SignInit PROVE SignTyped
  OBVIOUS
<1> USE SigningAssumption
<1>1. NoSubmission \in Submission
  BY DEF NoSubmission, Submission, NoRow
<1>2. SignTypeOK
  <2>1. records \in [Stores -> SUBSET Row]
    BY DEF SignInit
  <2>2. tip \in 1..LastTip /\ shownRows \subseteq Row /\ posts \subseteq Stores \X Row
    BY DEF SignInit
  <2> QED BY <1>1, <2>1, <2>2 DEF SignInit, SignTypeOK
<1>3. Stored = {} /\ Exist = {}
  BY DEF SignInit, Stored, Exist
<1>4. RowsNumbered
  BY <1>3 DEF SignInit, RowsNumbered, NoSubmission
<1> QED BY <1>2, <1>4 DEF SignTyped

LEMMA HearsRows ==
    ASSUME SignTyped, NEW S \in SUBSET Stores, Hears(S)
    PROVE  shownRows' \subseteq Stored /\ loaded' \in BOOLEAN /\ blind' \in BOOLEAN
<1> DEFINE rows == UNION {records[n] : n \in S}
<1>1. rows \in SUBSET Stored /\ rows \in SUBSET Row /\ rows \in SUBSET Nonce
  BY StoredRows, RowType DEF SignTyped, Stored
<1>2. /\ shownRows' = IF kind = "profile" /\ rows # {} THEN {Best(rows)} ELSE rows
      /\ loaded' \in BOOLEAN /\ blind' \in BOOLEAN
  BY DEF Hears, Blinds, SignTyped, SignTypeOK
<1> HIDE DEF rows
<1>3. rows # {} => Best(rows) \in rows
  BY <1>1, RowsFinite, FS_Subset, BestExists
<1> QED BY <1>1, <1>2, <1>3

\* Nothing is stored or posted.
LEMMA QuietTypes ==
    ASSUME SignTyped, UNCHANGED <<kind, records, posts>>,
           tip' \in 1..LastTip, shownRows' \subseteq Stored, loaded' \in BOOLEAN,
           blind' \in BOOLEAN, newest' \in Row \cup {NoRow},
           submission' \in Submission, submission'.captured \subseteq Stored,
           submission'.stage = "sign" =>
              /\ submission'.row \in Draft
              /\ submission'.row.seq = 0 \/ \E r \in Stored : r.seq + 1 = submission'.row.seq,
           submission'.stage = "post" => submission'.row \in Row
    PROVE  SignTyped'
<1>1. Stored' = Stored /\ Exist' = Exist
  BY DEF Stored, Exist
<1>2. Stored \subseteq Row
  BY StoredRows DEF SignTyped
<1>3. SignTypeOK'
  BY <1>2 DEF SignTyped, SignTypeOK
<1>4. RowsNumbered'
  BY <1>1 DEF SignTyped, RowsNumbered
<1> QED BY <1>3, <1>4 DEF SignTyped

LEMMA SignTypesStep == SignTyped /\ [SignNext]_signVars => SignTyped'
<1> SUFFICES ASSUME SignTyped, [SignNext]_signVars PROVE SignTyped'
  OBVIOUS
<1> USE SigningAssumption
<1>1. SignTypeOK /\ RowsNumbered
  BY DEF SignTyped
<1>2. /\ tip \in 1..LastTip /\ shownRows \subseteq Stored /\ loaded \in BOOLEAN
      /\ blind \in BOOLEAN /\ newest \in Row \cup {NoRow} /\ submission \in Submission
      /\ submission.captured \subseteq Stored
      /\ Stored \subseteq Row /\ Exist \subseteq Row
  BY <1>1, StoredRows DEF SignTypeOK, RowsNumbered
<1>3. /\ NoSubmission \in Submission /\ NoSubmission.stage = "idle"
      /\ NoSubmission.captured = {}
  BY DEF NoSubmission, Submission, NoRow
<1>4. CASE MineTip
  <2>1. /\ tip' \in 1..LastTip
        /\ UNCHANGED <<kind, records, shownRows, loaded, submission, posts, newest, blind>>
    BY <1>2, <1>4 DEF MineTip
  <2> QED BY <1>1, <1>2, <2>1, QuietTypes DEF RowsNumbered
<1>5. CASE LeavePage
  <2>1. /\ shownRows' = {} /\ loaded' = FALSE /\ submission' = NoSubmission
        /\ blind' \in BOOLEAN
        /\ UNCHANGED <<kind, tip, records, posts, newest>>
    BY <1>2, <1>5 DEF LeavePage, Blinds
  <2> QED BY <1>2, <1>3, <2>1, QuietTypes
<1>6. CASE Click
  <2> DEFINE x == [NoSubmission EXCEPT !.stage = "tip", !.captured = shownRows]
  <2>1. /\ submission' = x /\ blind' \in BOOLEAN
        /\ UNCHANGED <<kind, tip, records, shownRows, loaded, posts, newest>>
    BY <1>2, <1>6 DEF Click, Blinds
  <2>2. x \in Submission /\ x.stage = "tip" /\ x.captured = shownRows
    BY <1>1, <1>3 DEF SignTypeOK, Submission, NoSubmission
  <2> HIDE DEF x
  <2> QED BY <1>2, <2>1, <2>2, QuietTypes
<1>7. CASE TipKnown
  <2> DEFINE seq == IF kind = "profile" THEN UpdateSeq(submission.captured, tip)
                                        ELSE ActionSeq(submission.captured, tip)
             row == [height |-> tip, sig |-> 0, seq |-> seq]
             x == [submission EXCEPT !.stage = "sign", !.row = row]
  <2>1. /\ submission' = x
        /\ UNCHANGED <<kind, tip, records, shownRows, loaded, posts, newest, blind>>
    BY <1>7 DEF TipKnown
  <2>2. seq = 0 \/ \E r \in Stored : r.seq + 1 = seq
    BY <1>2, SeqFollows
  <2> HIDE DEF seq
  <2>3. seq \in 0..MaxSigs
    <3>1. ASSUME NEW r \in Stored, r.seq + 1 = seq PROVE seq \in 0..MaxSigs
      <4>1. r.seq < r.sig
        BY <1>1 DEF RowsNumbered, Exist
      <4>2. r.seq \in 0..MaxSigs /\ r.sig \in 1..MaxSigs
        BY <1>2, RowType DEF Sigs
      <4> QED BY <3>1, <4>1, <4>2
    <3> QED BY <2>2, <3>1
  <2>4. row \in Draft /\ row.seq = seq
    BY <1>2, <2>3 DEF Draft
  <2> HIDE DEF row
  <2>5. /\ x \in Submission /\ x.stage = "sign" /\ x.row = row
        /\ x.captured = submission.captured
    BY <1>2, <2>4 DEF Submission
  <2> HIDE DEF x
  <2> QED BY <1>2, <2>1, <2>2, <2>4, <2>5, QuietTypes
<1>8. CASE SignRow
  <2>1. PICK sig \in Sigs : /\ \A r \in Exist : r.sig < sig
                            /\ submission' = [submission EXCEPT !.stage = "post", !.row.sig = sig]
    BY <1>8 DEF SignRow
  <2>2. /\ submission.stage = "sign"
        /\ posts' = posts \cup {<<n, submission'.row>> : n \in Stores}
        /\ UNCHANGED <<kind, tip, records, shownRows, loaded, newest, blind>>
    BY <1>8 DEF SignRow
  <2> DEFINE row == [submission.row EXCEPT !.sig = sig]
  <2>3. row \in Row /\ row.seq = submission.row.seq /\ row.sig = sig
    BY <1>1, <2>2 DEF RowsNumbered, Draft, Row
  <2>4. submission' = [submission EXCEPT !.stage = "post", !.row = row]
    BY <2>1
  <2> HIDE DEF row
  <2>5. /\ submission' \in Submission /\ submission'.stage = "post" /\ submission'.row = row
        /\ submission'.captured = submission.captured
    BY <1>2, <2>3, <2>4 DEF Submission
  <2>6. row.seq < row.sig
    <3>1. sig \in Nat \ {0}
      BY DEF Sigs
    <3>2. ASSUME NEW r \in Stored, r.seq + 1 = row.seq PROVE row.seq < row.sig
      <4>1. r.seq < r.sig /\ r.sig < sig
        BY <1>1, <2>1 DEF RowsNumbered, Exist
      <4>2. r.seq \in Nat /\ r.sig \in Nat
        BY <1>2, RowType
      <4> QED BY <2>3, <3>1, <3>2, <4>1, <4>2
    <3> QED BY <1>1, <2>2, <2>3, <3>1, <3>2 DEF RowsNumbered
  <2>7. Stored' = Stored /\ Exist' \subseteq Exist \cup {row}
    BY <2>2, <2>5 DEF Stored, Exist
  <2>8. SignTypeOK'
    BY <1>1, <2>2, <2>3, <2>5 DEF SignTypeOK
  <2>9. RowsNumbered'
    BY <1>1, <2>2, <2>3, <2>5, <2>6, <2>7 DEF RowsNumbered
  <2> QED BY <2>8, <2>9 DEF SignTyped
<1>9. CASE SigningFails
  <2>1. /\ submission' = NoSubmission
        /\ UNCHANGED <<kind, tip, records, shownRows, loaded, posts, newest, blind>>
    BY <1>9 DEF SigningFails
  <2> QED BY <1>2, <1>3, <2>1, QuietTypes
<1>10. CASE PostSettles
  <2>1. submission.row \in Row /\ UNCHANGED <<kind, tip, records, shownRows, loaded, posts>>
    BY <1>1, <1>10 DEF PostSettles, RowsNumbered
  <2>2. newest' \in Row \cup {NoRow} /\ blind' \in BOOLEAN
    BY <1>2, <1>10, <2>1 DEF PostSettles, Blinds
  <2>3. /\ submission' \in Submission /\ submission'.stage \in {"idle", "reread"}
        /\ submission'.captured \subseteq Stored
    <3>1. CASE submission' = NoSubmission
      BY <1>3, <3>1
    <3>2. CASE submission' = [submission EXCEPT !.stage = "reread"]
      BY <1>2, <3>2 DEF Submission
    <3> QED BY <1>10, <3>1, <3>2 DEF PostSettles
  <2> QED BY <1>2, <2>1, <2>2, <2>3, QuietTypes
<1>11. ASSUME NEW S \in SUBSET Stores, Read(S) PROVE SignTyped'
  <2>1. Hears(S) /\ UNCHANGED <<kind, tip, records, submission, posts, newest>>
    BY <1>11 DEF Read
  <2>2. shownRows' \subseteq Stored /\ loaded' \in BOOLEAN /\ blind' \in BOOLEAN
    BY <2>1, HearsRows
  <2> QED BY <1>1, <1>2, <2>1, <2>2, QuietTypes DEF RowsNumbered
<1>12. ASSUME NEW S \in SUBSET Stores, Reread(S) PROVE SignTyped'
  <2>1. /\ Hears(S) /\ submission' = NoSubmission
        /\ UNCHANGED <<kind, tip, records, posts, newest>>
    BY <1>12 DEF Reread
  <2>2. shownRows' \subseteq Stored /\ loaded' \in BOOLEAN /\ blind' \in BOOLEAN
    BY <2>1, HearsRows
  <2> QED BY <1>2, <1>3, <2>1, <2>2, QuietTypes
<1>13. ASSUME NEW p \in posts, NEW stores \in BOOLEAN, NEW ok \in BOOLEAN,
              NodeAnswers(p[1], p[2], stores, ok)
       PROVE  SignTyped'
  <2> DEFINE row == p[2]
  <2>1. p[1] \in Stores /\ row \in Row /\ row \in Exist /\ posts \subseteq Stores \X Row
    BY <1>1 DEF SignTypeOK, Exist
  <2>2. /\ posts' \subseteq posts
        /\ records' = IF stores THEN [records EXCEPT ![p[1]] = @ \cup {row}] ELSE records
        /\ \/ submission' = [submission EXCEPT !.ok = TRUE]
           \/ submission' = submission
        /\ UNCHANGED <<kind, tip, shownRows, loaded, newest, blind>>
    BY <1>13 DEF NodeAnswers
  <2> HIDE DEF row
  <2>3. records' \in [Stores -> SUBSET Row]
    BY <1>1, <2>1, <2>2 DEF SignTypeOK
  <2>4. \A n \in Stores : records[n] \subseteq records'[n] /\ records'[n] \subseteq records[n] \cup {row}
    BY <1>1, <2>1, <2>2 DEF SignTypeOK
  <2>5. Stored \subseteq Stored' /\ Stored' \subseteq Stored \cup {row}
    BY <2>4 DEF Stored
  <2>6. Exist' \subseteq Exist
    BY <2>1, <2>2, <2>5 DEF Exist
  <2>7. /\ submission' \in Submission /\ submission'.stage = submission.stage
        /\ submission'.row = submission.row /\ submission'.captured = submission.captured
    BY <1>2, <2>2 DEF Submission
  <2>8. SignTypeOK'
    BY <1>1, <2>2, <2>3, <2>7 DEF SignTypeOK
  <2>9. RowsNumbered'
    BY <1>1, <2>2, <2>5, <2>6, <2>7 DEF RowsNumbered
  <2> QED BY <2>8, <2>9 DEF SignTyped
<1>14. CASE UNCHANGED signVars
  BY <1>1, <1>2, <1>14, QuietTypes DEF signVars, RowsNumbered
<1> QED BY <1>4, <1>5, <1>6, <1>7, <1>8, <1>9, <1>10, <1>11, <1>12, <1>13, <1>14 DEF SignNext

\* edit/page.tsx and page.tsx: `seq' is a number that counts from 0 at each
\* height; a page, blind or not, never leaves what a record may hold.
THEOREM SignTypeCorrect == SignSpec => []SignTypeOK
<1>1. SignTyped => SignTypeOK
  BY DEF SignTyped
<1> QED BY <1>1, SignTypesStart, SignTypesStep, PTL DEF SignSpec

----------------------------------------------------------------------------
(* All parts: each step is one of the part that moves *)

FrontendInv ==
    /\ part = "wallet" => WalletInv
    /\ part = "popup" => PopupInv
    /\ part = "overview" => OverviewInv
    /\ part = "reads" => ReadsInv
    /\ part = "power" => SoundWorld
    /\ part = "page" => PageTypeOK
    /\ part = "signing" => SignTyped

LEMMA PageStart == PageInit => PageTypeOK
<1>1. Idling \in Effect
  BY DEF Effect, Idling
<1> QED BY <1>1 DEF PageInit, PageTypeOK

LEMMA PageStep == PageTypeOK /\ [PageNext]_pageVars => PageTypeOK'
<1> SUFFICES ASSUME PageTypeOK, [PageNext]_pageVars PROVE PageTypeOK'
  OBVIOUS
<1> USE DEF PageTypeOK
<1>1. /\ Idling \in Effect /\ Asks \in Effect
      /\ [stage |-> "tally", verdict |-> "none"] \in Effect
      /\ \A v \in Terminal : [stage |-> "update", verdict |-> v] \in Effect
  BY DEF Effect, Idling, Asks
<1>2. Rerender => effect' \in Effect
  BY <1>1 DEF Rerender
<1>3. CASE MineEndBlock
  BY <1>3 DEF MineEndBlock
<1>4. CASE NewTip
  BY <1>2, <1>4 DEF NewTip
<1>5. CASE LoadPage
  <2>1. ended' = FALSE \/ ended' = over
    BY <1>5 DEF LoadPage
  <2>2. ended' \in BOOLEAN /\ (ended' => over)
    <3>1. CASE ended' = FALSE
      BY <3>1
    <3>2. CASE ended' = over
      BY <3>2
    <3> QED BY <2>1, <3>1, <3>2
  <2>3. /\ shown' = "none" /\ fetching' = TRUE /\ effect' = Idling
        /\ UNCHANGED <<outcome, over, decided>>
    BY <1>5 DEF LoadPage
  <2> QED BY <1>1, <2>2, <2>3
<1>6. ASSUME NEW n \in Deciders, Decide(n) PROVE PageTypeOK'
  BY <1>6 DEF Decide
<1>7. CASE FetchOver
  <2>1. PICK S \in SUBSET Deciders : FetchEnds(S)
    BY <1>7 DEF FetchOver
  <2>2. Heard(S) \in {"none", "missing", "open"} \cup Terminal
    BY DEF Heard
  <2> QED BY <1>2, <2>1, <2>2 DEF FetchEnds
<1>8. CASE OrchestratorAnswers
  <2>1. effect.stage = "orchestrator" => effect.verdict = "none"
    BY DEF Effect
  <2>2. effect' \in Effect
    <3>1. CASE effect' = [effect EXCEPT !.stage = "tally"]
      BY <1>8, <2>1, <3>1 DEF OrchestratorAnswers, Effect
    <3> QED BY <1>1, <1>8, <3>1 DEF OrchestratorAnswers
  <2> QED BY <1>8, <2>2 DEF OrchestratorAnswers
<1>9. CASE TallyEnds
  BY <1>1, <1>9 DEF TallyEnds
<1>10. ASSUME NEW S \in SUBSET Deciders, UpdateEnds(S) PROVE PageTypeOK'
  <2>1. effect.verdict \in Terminal
    BY <1>10 DEF UpdateEnds, Effect
  <2> QED BY <1>1, <1>10, <2>1 DEF UpdateEnds
<1>11. CASE UNCHANGED pageVars
  BY <1>11 DEF pageVars
<1> QED BY <1>3, <1>4, <1>5, <1>6, <1>7, <1>8, <1>9, <1>10, <1>11 DEF PageNext

LEMMA FrontendStart == FrontendInit => FrontendInv
<1> SUFFICES ASSUME FrontendInit PROVE FrontendInv
  OBVIOUS
<1>1. WalletInv /\ PopupInv /\ OverviewInv /\ SignTyped
  BY InitInv, PopupStart, OverviewStart, SignTypesStart DEF FrontendInit
<1>2. part = "reads" => ReadsInv
  BY ReadsStart DEF FrontendInit
<1>3. part = "power" => SoundWorld
  BY WorldsAssumption DEF FrontendInit, SoundWorld
<1>4. part = "page" => PageTypeOK
  BY PageStart DEF FrontendInit
<1> QED BY <1>1, <1>2, <1>3, <1>4 DEF FrontendInv

LEMMA FrontendStep == FrontendInv /\ [FrontendNext]_frontendVars => FrontendInv'
<1> SUFFICES ASSUME FrontendInv, [FrontendNext]_frontendVars PROVE FrontendInv'
  OBVIOUS
<1>1. part' = part
  BY DEF FrontendNext, frontendVars
<1>2. CASE part = "wallet"
  <2>1. [WalletNext]_walletVars
    BY <1>2 DEF FrontendNext, frontendVars
  <2> QED BY <1>1, <1>2, <2>1, WalletStep DEF FrontendInv
<1>3. CASE part = "popup"
  <2>1. [PopupNext]_popupVars
    BY <1>3 DEF FrontendNext, frontendVars
  <2> QED BY <1>1, <1>3, <2>1, CallStep DEF FrontendInv
<1>4. CASE part = "overview"
  <2>1. [OverviewNext]_overviewVars
    BY <1>4 DEF FrontendNext, frontendVars
  <2> QED BY <1>1, <1>4, <2>1, OverviewStep DEF FrontendInv
<1>5. CASE part = "reads"
  <2>1. [ReadsNext]_readVars
    BY <1>5 DEF FrontendNext, frontendVars
  <2> QED BY <1>1, <1>5, <2>1, ReadsStep DEF FrontendInv
<1>6. CASE part = "power"
  <2>1. [PowerNext(LastBlock)]_world
    BY <1>6 DEF FrontendNext, frontendVars
  <2> QED BY <1>1, <1>6, <2>1, WorldStep DEF FrontendInv, SoundWorld
<1>7. CASE part = "page"
  <2>1. [PageNext]_pageVars
    BY <1>7 DEF FrontendNext, frontendVars
  <2> QED BY <1>1, <1>7, <2>1, PageStep DEF FrontendInv
<1>8. CASE part = "signing"
  <2>1. [SignNext]_signVars
    BY <1>8 DEF FrontendNext, frontendVars
  <2> QED BY <1>1, <1>8, <2>1, SignTypesStep DEF FrontendInv
<1>9. CASE part \notin {"wallet", "popup", "overview", "reads", "power", "page", "signing"}
  BY <1>1, <1>9 DEF FrontendInv
<1> QED BY <1>2, <1>3, <1>4, <1>5, <1>6, <1>7, <1>8, <1>9

LEMMA FrontendAlways == FrontendSpec => []FrontendInv
  BY FrontendStart, FrontendStep, PTL DEF FrontendSpec

\* Each part keeps to its types.
THEOREM FrontendTypesCorrect == FrontendSpec => []FrontendTypeOK
<1>1. FrontendInv => FrontendTypeOK
  BY DEF FrontendInv, FrontendTypeOK, WalletInv, ContextTypes, WalletTypeOK, PopupInv,
         OverviewInv, ReadsInv, SoundWorld, SignTyped
<1> QED BY <1>1, FrontendAlways, PTL

\* vaultPower.ts and voting.ts: the node, the browser, the page of the DAO and
\* the vote button work out the same share, whatever is sent and claimed.
THEOREM SharesAlwaysAgree == FrontendSpec => []PowerAgrees
<1>1. FrontendInv => PowerAgrees
  BY SharesOfWorld DEF FrontendInv, PowerAgrees, SoundWorld
<1> QED BY <1>1, FrontendAlways, PTL

\* Each part does what it does on its own: what is proved of the parts holds
\* of the whole.
THEOREM PartsOnTheirOwn ==
    FrontendSpec =>
        /\ WalletSpec /\ PopupSpec /\ OverviewSpec /\ SignSpec
        /\ part = "reads" => ReadsSpec
        /\ part = "power" => PowerSpec(LastBlock)
<1>1. FrontendInit => /\ WalletInit /\ PopupInit /\ OverviewInit /\ SignInit
                      /\ part = "reads" => ReadsInit
                      /\ part = "power" => SoundWorld
  BY WorldsAssumption DEF FrontendInit, SoundWorld
<1>2. [FrontendNext]_frontendVars =>
         /\ [WalletNext]_walletVars /\ [PopupNext]_popupVars
         /\ [OverviewNext]_overviewVars /\ [SignNext]_signVars
  BY DEF FrontendNext, frontendVars
<1>3. [FrontendNext]_frontendVars => [ReadsNext]_readVars /\ [PowerNext(LastBlock)]_world
  BY DEF FrontendNext, frontendVars
<1> QED
  BY <1>1, <1>2, <1>3, PTL
     DEF FrontendSpec, WalletSpec, PopupSpec, OverviewSpec, SignSpec, ReadsSpec, PowerSpec

=============================================================================
