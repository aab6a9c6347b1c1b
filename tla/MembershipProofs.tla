-------------------------- MODULE MembershipProofs --------------------------
(***************************************************************************)
(* What Memberships guarantees for any number of nodes, addresses,         *)
(* delegations and actions: membership at settled heights is fixed, nodes  *)
(* that missed nothing agree if no action is signed twice, no balance      *)
(* counts in two votes, and the order of the rows decides nothing.         *)
(***************************************************************************)
EXTENDS Memberships, Inductions

----------------------------------------------------------------------------
(* Types *)

LEMMA HandlerType ==
    ASSUME TypeOK, NEW h \in handlers
    PROVE  /\ h.at \in Nodes
           /\ h.action \in Actions
           /\ h.asked \in 0..MaxTip
           /\ PostAction(Nodes \ {h.at}, h.action) \subseteq Msg
BY DEF TypeOK, Handler, PostAction, Msg

LEMMA HandlerHeight ==
    ASSUME TypeOK, NEW h \in handlers
    PROVE  h.action.height \in Nat
<1>1. h.action \in Action
  BY HandlerType, TallyAssumption
<1> QED BY <1>1 DEF Action

LEMMA TypeStep ==
    ASSUME TypeOK, [Next]_vars
    PROVE  TypeOK'
<1> USE MembershipAssumption
<1>1. CASE Mine
  BY <1>1 DEF Mine, TypeOK
<1>2. ASSUME NEW n \in Nodes, NEW d \in Delegations, LearnDelegation(n, d)
      PROVE  TypeOK'
  BY <1>2 DEF LearnDelegation, TypeOK
<1>3. ASSUME NEW a \in Actions, NEW targets \in SUBSET Nodes, SubmitAction(a, targets)
      PROVE  TypeOK'
  <2>1. PostAction(targets, a) \subseteq Msg
    BY DEF PostAction, Msg
  <2>2. posts' \in 0..MaxPosts
    BY <1>3 DEF SubmitAction, TypeOK
  <2> QED BY <1>3, <2>1, <2>2 DEF SubmitAction, TypeOK
<1>4. ASSUME NEW m \in msgs, KnownAction(m)
      PROVE  TypeOK'
  BY <1>4 DEF KnownAction, TypeOK
<1>5. ASSUME NEW m \in msgs, DropAction(m)
      PROVE  TypeOK'
  BY <1>5 DEF DropAction, Miss, TypeOK, Msg
<1>6. ASSUME NEW m \in msgs, StartAction(m)
      PROVE  TypeOK'
  <2>1. [at |-> m.to, action |-> m.action, asked |-> tip] \in Handler
    BY DEF TypeOK, Msg, Handler
  <2> QED BY <1>6, <2>1 DEF StartAction, TypeOK
<1>7. ASSUME NEW h \in handlers, InsertAction(h)
      PROVE  TypeOK'
  BY <1>7, HandlerType DEF InsertAction, TypeOK
<1>8. ASSUME NEW h \in handlers, RefuseAction(h)
      PROVE  TypeOK'
  BY <1>8, HandlerType DEF RefuseAction, Miss, TypeOK
<1>9. ASSUME NEW n \in Nodes, Crash(n)
      PROVE  TypeOK'
  <2>1. {h.action : h \in handlers \ handlers'} \subseteq Actions
    BY HandlerType
  <2> QED BY <1>9, <2>1 DEF Crash, TypeOK
<1>10. CASE UNCHANGED vars
  BY <1>10 DEF vars, TypeOK
<1> QED
  BY <1>1, <1>2, <1>3, <1>4, <1>5, <1>6, <1>7, <1>8, <1>9, <1>10 DEF Next

\* Every variable keeps its type.
THEOREM TypeCorrect == Spec => []TypeOK
<1>1. Init => TypeOK
  BY MembershipAssumption DEF Init, TypeOK
<1>2. TypeOK /\ [Next]_vars => TypeOK'
  BY TypeStep
<1> QED BY <1>1, <1>2, PTL DEF Spec

----------------------------------------------------------------------------
(* Settled heights *)

\* Only an insertion changes a table, and by one action at most.
LEMMA LogSteps ==
    ASSUME TypeOK, [Next]_vars, NEW n \in Nodes
    PROVE  \/ log'[n] = log[n]
           \/ \E h \in handlers :
                 h.at = n /\ Admits(h) /\ log'[n] = log[n] \cup {h.action}
<1>1. CASE UNCHANGED log
  BY <1>1
<1>2. ASSUME NEW h \in handlers, InsertAction(h)
      PROVE  log'[n] = log[n] \/ (h.at = n /\ Admits(h) /\ log'[n] = log[n] \cup {h.action})
  BY <1>2, HandlerType DEF InsertAction, TypeOK
<1> QED
  BY <1>1, <1>2
     DEF Next, vars, Mine, LearnDelegation, SubmitAction, KnownAction, DropAction, StartAction,
         RefuseAction, Crash

\* What espo admits is no older than the handler's question allows.
LEMMA AdmittedHeight ==
    ASSUME TypeOK, NEW h \in handlers, Admits(h), NEW e \in Nat, e < h.asked - Allowance
    PROVE  e < h.action.height
<1>1. PICK t \in h.asked..tip : InWindow(h.action.height, t, Allowance)
  BY DEF Admits
<1>2. h.asked \in 0..MaxTip /\ tip \in 0..MaxTip
  BY HandlerType DEF TypeOK
<1> QED BY <1>1, <1>2, HandlerHeight, MembershipAssumption DEF InWindow

LEMMA MembershipDepends ==
    ASSUME NEW S, NEW T, NEW x, NEW e, Deciding(S, x, e) = Deciding(T, x, e)
    PROVE  Membership(S, x, e) = Membership(T, x, e)
BY DEF Membership, Best

\* The height window of routes.ts settles history: joins and leaves that
\* arrive late never change who was a member at a height below the window.
THEOREM SettledHistory == Spec => HistorySettled
<1>1. TypeOK /\ [Next]_vars
      => [\A n \in Nodes, x \in Addresses, e \in 0..MaxTip :
             Settled(n, e) => Membership(log'[n], x, e) = Membership(log[n], x, e)]_vars
  <2> SUFFICES ASSUME TypeOK, [Next]_vars, NEW n \in Nodes, NEW x \in Addresses,
                      NEW e \in 0..MaxTip, Settled(n, e)
               PROVE  Membership(log'[n], x, e) = Membership(log[n], x, e)
    OBVIOUS
  <2>1. CASE log'[n] = log[n]
    BY <2>1
  <2>2. ASSUME NEW h \in handlers, h.at = n, Admits(h), log'[n] = log[n] \cup {h.action}
        PROVE  Membership(log'[n], x, e) = Membership(log[n], x, e)
    <3>1. e < h.action.height
      BY <2>2, AdmittedHeight, MembershipAssumption DEF Settled
    <3>2. h.action.height \in Nat /\ e \in Nat
      BY HandlerHeight, MembershipAssumption
    <3>3. Deciding(log'[n], x, e) = Deciding(log[n], x, e)
      BY <2>2, <3>1, <3>2 DEF Deciding
    <3> QED BY <3>3, MembershipDepends
  <2> QED BY <2>1, <2>2, LogSteps
<1> QED BY <1>1, TypeCorrect, PTL DEF Spec, HistorySettled

----------------------------------------------------------------------------
(* Agreement *)

\* Node n stores, or will be told, or missed, an action with the key of a.
Reaches(n, a) ==
    \/ HasAction(n, a)
    \/ \E b \in missed[n] : SameKey(a, b)
    \/ \E m \in msgs : m.to = n /\ SameKey(a, m.action)
    \/ \E h \in handlers : h.at = n /\ SameKey(a, h.action)

Spreading == \A m, n \in Nodes : \A a \in log[m] : Reaches(n, a)

LEMMA SameKeyTransitive ==
    ASSUME NEW a, NEW b, NEW c, SameKey(a, b)
    PROVE  SameKey(b, a) /\ (SameKey(b, c) => SameKey(a, c))
BY DEF SameKey

LEMMA ReachKept ==
    ASSUME TypeOK, [Next]_vars, NEW n \in Nodes, NEW a \in Actions, Reaches(n, a)
    PROVE  Reaches(n, a)'
<1>1. log[n] \subseteq log'[n]
  BY LogSteps
<1>2. HasAction(n, a) => HasAction(n, a)'
  BY <1>1 DEF HasAction
<1>3. CASE UNCHANGED <<missed, handlers>> /\ msgs \subseteq msgs'
  BY <1>2, <1>3 DEF Reaches
<1>4. ASSUME NEW m \in msgs, KnownAction(m)
      PROVE  Reaches(n, a)'
  <2>1. CASE m.to = n /\ SameKey(a, m.action)
    <3>1. PICK b \in log[n] : SameKey(m.action, b)
      BY <1>4, <2>1 DEF KnownAction, HasAction
    <3>2. SameKey(a, b)
      BY <2>1, <3>1, SameKeyTransitive
    <3> QED BY <1>1, <3>1, <3>2 DEF Reaches, HasAction
  <2>2. CASE ~(m.to = n /\ SameKey(a, m.action))
    BY <1>2, <1>4, <2>2 DEF KnownAction, Reaches
  <2> QED BY <2>1, <2>2
<1>5. ASSUME NEW m \in msgs, DropAction(m)
      PROVE  Reaches(n, a)'
  BY <1>2, <1>5 DEF DropAction, Miss, Reaches, TypeOK, Msg
<1>6. ASSUME NEW m \in msgs, StartAction(m)
      PROVE  Reaches(n, a)'
  <2> DEFINE d == [at |-> m.to, action |-> m.action, asked |-> tip]
  <2>1. d.at = m.to /\ d.action = m.action /\ handlers' = handlers \cup {d}
    BY <1>6 DEF StartAction
  <2> HIDE DEF d
  <2> QED BY <1>2, <1>6, <2>1 DEF StartAction, Reaches
<1>7. ASSUME NEW h \in handlers, InsertAction(h)
      PROVE  Reaches(n, a)'
  <2>1. CASE h.at = n /\ SameKey(a, h.action)
    <3>1. CASE HasAction(n, h.action)
      <4>1. PICK b \in log[n] : SameKey(h.action, b)
        BY <3>1 DEF HasAction
      <4> QED BY <1>2, <2>1, <4>1, SameKeyTransitive DEF HasAction, Reaches
    <3>2. CASE ~HasAction(n, h.action)
      <4>1. h.action \in log'[n]
        BY <1>7, <2>1, <3>2 DEF InsertAction, TypeOK
      <4> QED BY <2>1, <4>1 DEF HasAction, Reaches
    <3> QED BY <3>1, <3>2
  <2>2. CASE ~(h.at = n /\ SameKey(a, h.action))
    BY <1>2, <1>7, <2>2 DEF InsertAction, Reaches
  <2> QED BY <2>1, <2>2
<1>8. ASSUME NEW h \in handlers, RefuseAction(h)
      PROVE  Reaches(n, a)'
  BY <1>2, <1>8, HandlerType DEF RefuseAction, Miss, Reaches, TypeOK
<1>9. ASSUME NEW k \in Nodes, Crash(k)
      PROVE  Reaches(n, a)'
  <2>1. ASSUME NEW h \in handlers, h.at = n, SameKey(a, h.action)
        PROVE  Reaches(n, a)'
    <3>1. CASE h \in handlers'
      BY <2>1, <3>1 DEF Reaches
    <3>2. CASE h \notin handlers'
      BY <1>9, <2>1, <3>2 DEF Crash, Reaches, TypeOK
    <3> QED BY <3>1, <3>2
  <2>2. missed[n] \subseteq missed'[n] /\ msgs' = msgs
    BY <1>9 DEF Crash, TypeOK
  <2> QED BY <1>2, <2>1, <2>2 DEF Reaches
<1> QED
  BY <1>3, <1>4, <1>5, <1>6, <1>7, <1>8, <1>9
     DEF Next, vars, Mine, LearnDelegation, SubmitAction

LEMMA SpreadingStep ==
    ASSUME TypeOK, Spreading, [Next]_vars
    PROVE  Spreading'
<1> SUFFICES ASSUME NEW m \in Nodes, NEW n \in Nodes, NEW a \in log'[m]
             PROVE  Reaches(n, a)'
  BY DEF Spreading
<1>1. CASE a \in log[m]
  <2>1. a \in Actions /\ Reaches(n, a)
    BY <1>1 DEF Spreading, TypeOK
  <2>2. PICK b \in Actions : b = a
    BY <2>1
  <2>3. Reaches(n, b)'
    BY <2>1, <2>2, ReachKept
  <2> QED BY <2>2, <2>3 DEF Reaches, HasAction
<1>2. CASE a \notin log[m]
  <2>1. PICK h \in handlers : InsertAction(h)
    BY <1>2 DEF Next, vars, Mine, LearnDelegation, SubmitAction, KnownAction, DropAction,
       StartAction, RefuseAction, Crash
  <2>2. h.at = m /\ a = h.action
    BY <1>2, <2>1, HandlerType DEF InsertAction, TypeOK
  <2>3. CASE n = m
    BY <2>3 DEF Reaches, HasAction, SameKey
  <2>4. CASE n # m
    <3>1. [to |-> n, action |-> a] \in msgs'
      BY <2>1, <2>2, <2>4 DEF InsertAction, PostAction
    <3> QED BY <3>1 DEF Reaches, SameKey
  <2> QED BY <2>3, <2>4
<1> QED BY <1>1, <1>2

LEMMA AlwaysSpreading == Spec => []Spreading
<1>1. Init => Spreading
  BY DEF Init, Spreading
<1>2. TypeOK /\ Spreading /\ [Next]_vars => Spreading'
  BY SpreadingStep
<1> QED BY <1>1, <1>2, TypeCorrect, PTL DEF Spec

\* What a node at rest stores, every other node stores or missed.
THEOREM LackingMeansMissed == Spec => []LackedOnlyIfMissed
<1>1. Spreading => LackedOnlyIfMissed
  BY DEF Spreading, Reaches, LackedOnlyIfMissed, Quiet
<1> QED BY <1>1, AlwaysSpreading, PTL

\* If nobody signs the same action twice, nodes at rest that missed nothing
\* agree on every member at every height.
THEOREM Agreement ==
    ASSUME \A a, b \in Actions : SameKey(a, b) => a = b
    PROVE  Spec => []MembersAgree
<1>1. TypeOK /\ Spreading => MembersAgree
  <2> SUFFICES ASSUME TypeOK, Spreading, Quiet, NEW m \in Nodes, NEW n \in Nodes,
                      missed[m] = {}, missed[n] = {}
               PROVE  log[m] = log[n]
    BY DEF MembersAgree
  <2>1. \A a \in log[m] : HasAction(n, a)
    BY DEF Spreading, Reaches, Quiet
  <2>2. \A a \in log[n] : HasAction(m, a)
    BY DEF Spreading, Reaches, Quiet
  <2>3. log[m] \subseteq Actions /\ log[n] \subseteq Actions
    BY DEF TypeOK
  <2> QED BY <2>1, <2>2, <2>3 DEF HasAction
<1> QED BY <1>1, TypeCorrect, AlwaysSpreading, PTL

----------------------------------------------------------------------------
(* The tally *)

LEMMA SignedByOne ==
    ASSUME NEW K \in SUBSET Delegations, NEW v, NEW w, NEW d \in SignedBy(K, v), d \in SignedBy(K, w)
    PROVE  v = w
BY DEF SignedBy

\* Two votes that count carry different balances: a member's own vote is
\* ignored, and a member rides with one delegation, which one address signs.
LEMMA CarriedApart ==
    ASSUME NEW S, NEW K \in SUBSET Delegations, NEW e,
           NEW v \in Counted(S, Addresses, e), NEW w \in Counted(S, Addresses, e), v # w
    PROVE  Carried(S, K, v, e) \cap Carried(S, K, w, e) = {}
<1> SUFFICES ASSUME NEW x \in Carried(S, K, v, e), x \in Carried(S, K, w, e)
             PROVE  FALSE
  OBVIOUS
<1>1. /\ Membership(S, v, e) \notin SignedBy(K, w)
      /\ Membership(S, w, e) \notin SignedBy(K, v)
  BY TallyAssumption DEF Counted, SignedBy
<1>2. /\ x = v \/ Membership(S, x, e) \in SignedBy(K, v)
      /\ x = w \/ Membership(S, x, e) \in SignedBy(K, w)
  BY DEF Carried
<1> QED BY <1>1, <1>2, SignedByOne

\* computeDelegatedTally never counts a balance twice.
THEOREM CountedOnce == Spec => []BalanceOnce
<1>1. TypeOK => BalanceOnce
  BY CarriedApart DEF TypeOK, BalanceOnce
<1> QED BY <1>1, TypeCorrect, PTL

\* computeVerdict asks espo for exactly the balances the tally adds up.
THEOREM PricedExactly == Spec => []PricedIsCarried
<1>1. PricedIsCarried
  BY DEF PricedIsCarried, Priced, Carried, Counted
<1> QED BY <1>1, PTL

----------------------------------------------------------------------------
(* Rows in any order *)

\* What resolveDelegationState makes of the row a after the best one so far.
Better(best, a, x, e) ==
    IF a.address = x /\ a.height <= e /\ (best # NoAction => Beats(a, best)) THEN a ELSE best

\* One step of the recursion of FoldLeft.
RowStep(rows, x, e, g, s) ==
    IF s = {} THEN NoAction ELSE Better(g[s \ {Max(s)}], rows[Max(s)], x, e)

\* g[1..i] is what the code has after i rows.
Scans(g, rows, x, e) ==
    \A s \in SUBSET DOMAIN rows : g[s] = RowStep(rows, x, e, g, s)

LEMMA MaxOfInterval ==
    ASSUME NEW i \in Nat \ {0}
    PROVE  Max(1..i) = i
<1>1. i \in 1..i /\ \A y \in 1..i : i >= y
  OBVIOUS
<1>2. ASSUME NEW m \in 1..i, \A y \in 1..i : m >= y
      PROVE  m = i
  BY <1>2
<1> QED BY <1>1, <1>2 DEF Max

\* Of the places in a list that are not {} there is a last one.
LEMMA MaxOfPlaces ==
    ASSUME NEW n \in Nat, NEW s \in SUBSET (1..n), s # {}
    PROVE  Max(s) \in s
<1>1. IsFiniteSet(1..n) /\ s \in SUBSET Int
  BY FS_Interval
<1>2. IsFiniteSet(s)
  BY <1>1, FS_Subset
<1>3. PICK m \in s : \A y \in s : y <= m
  BY <1>1, <1>2, FiniteMax
<1>4. \A y \in s : m >= y
  BY <1>1, <1>3
<1> QED BY <1>4 DEF Max

LEMMA BestRowScans ==
    ASSUME NEW n \in Nat, NEW rows \in [1..n -> Actions], NEW x, NEW e
    PROVE  \E g : Scans(g, rows, x, e) /\ BestRow(rows, x, e) = g[1..n]
<1> DEFINE D == DOMAIN rows
           V == Actions \cup {NoAction}
           g == CHOOSE h : h = [s \in SUBSET D |-> RowStep(rows, x, e, h, s)]
           Pick == [s \in SUBSET D |-> Max(s)]
           Step == [p \in (SUBSET D) \X V |->
                       IF p[1] = {} THEN NoAction ELSE Better(p[2], rows[Pick[p[1]]], x, e)]
<1>1. BestRow(rows, x, e) = g[D]
  BY DEF BestRow, FoldLeft, MapThenFoldSet, RowStep, Better
<1>2. D = 1..n
  OBVIOUS
<1>3. Picks(Pick, D)
  BY <1>2, MaxOfPlaces DEF Picks
<1>4. Step \in [(SUBSET D) \X V -> V]
  <2>1. ASSUME NEW s \in SUBSET D, NEW best \in V, s # {}
        PROVE  Better(best, rows[Pick[s]], x, e) \in V
    <3>1. rows[Pick[s]] \in Actions
      <4> HIDE DEF Pick
      <4> QED BY <1>2, <1>3, <2>1 DEF Picks
    <3> QED BY <3>1 DEF Better
  <2> HIDE DEF D, Pick
  <2> QED BY <2>1
<1>5. PICK h \in [SUBSET D -> V] : Folds(h, D, Pick, NoAction, Step)
  <2>1. IsFiniteSet(D) /\ NoAction \in V
    BY <1>2, FS_Interval
  <2> HIDE DEF D, V, Pick, Step
  <2> QED BY <1>3, <1>4, <2>1, FoldExists
<1>6. ASSUME NEW s \in SUBSET D
      PROVE  h[s] = RowStep(rows, x, e, h, s)
  <2>1. h[s] = IF s = {} THEN NoAction ELSE Step[<<s, h[s \ {Pick[s]}]>>]
    <3> HIDE DEF D, Pick, Step
    <3> QED BY <1>5 DEF Folds
  <2>2. h[s \ {Pick[s]}] \in V /\ Pick[s] = Max(s)
    <3> HIDE DEF V
    <3> QED OBVIOUS
  <2> HIDE DEF V, Pick
  <2> QED BY <2>1, <2>2 DEF RowStep
<1>7. h = [s \in SUBSET D |-> RowStep(rows, x, e, h, s)]
  <2> HIDE DEF D
  <2> QED BY <1>6
<1> HIDE DEF V, Pick, Step
<1>8. g = [s \in SUBSET D |-> RowStep(rows, x, e, g, s)]
  BY <1>7
<1> HIDE DEF g
<1>9. Scans(g, rows, x, e)
  BY <1>8 DEF Scans
<1> QED BY <1>1, <1>2, <1>9

\* The deciding actions among the first i rows.
Seen(rows, x, e, i) == {a \in {rows[j] : j \in 1..i} : a.address = x /\ a.height <= e}

\* best wins over all of S, or there is nothing to win over.
Leads(best, S) == IF S = {} THEN best = NoAction
                            ELSE best \in S /\ \A b \in S : b = best \/ Beats(best, b)

\* Of two actions of one address one wins: their signatures differ.
LEMMA Decides ==
    ASSUME NEW a \in Actions, NEW b \in Actions, a # b
    PROVE  Beats(a, b) <=> ~Beats(b, a)
<1>1. a \in Action /\ b \in Action /\ a.sig # b.sig
  BY TallyAssumption
<1> QED BY <1>1 DEF Action, Beats

LEMMA BeatsOn ==
    ASSUME NEW a \in Actions, NEW b \in Actions, NEW c \in Actions, Beats(a, b), Beats(b, c)
    PROVE  Beats(a, c)
<1>1. a \in Action /\ b \in Action /\ c \in Action
  BY TallyAssumption
<1> QED BY <1>1 DEF Action, Beats

\* After each row the best one so far wins over the others.
LEMMA ScanLeads ==
    ASSUME NEW n \in Nat, NEW rows \in [1..n -> Actions], NEW x, NEW e, NEW g,
           Scans(g, rows, x, e)
    PROVE  Leads(g[1..n], Seen(rows, x, e, n))
<1> DEFINE Good == {i \in Nat : i <= n => Leads(g[1..i], Seen(rows, x, e, i))}
<1>1. 0 \in Good
  <2>1. 1..0 = {} /\ {} \in SUBSET DOMAIN rows
    OBVIOUS
  <2>2. g[1..0] = NoAction
    BY <2>1 DEF Scans, RowStep
  <2>3. Seen(rows, x, e, 0) = {}
    BY DEF Seen
  <2> QED BY <2>2, <2>3 DEF Leads
<1>2. ASSUME NEW i \in Nat \cap Good
      PROVE  i + 1 \in Good
  <2> SUFFICES ASSUME i + 1 <= n
               PROVE  Leads(g[1..(i + 1)], Seen(rows, x, e, i + 1))
    OBVIOUS
  <2> DEFINE best == g[1..i]
             S == Seen(rows, x, e, i)
             a == rows[i + 1]
  <2>1. Leads(best, S)
    OBVIOUS
  <2>2. i + 1 \in 1..n /\ a \in Actions /\ S \subseteq Actions
    BY DEF Seen
  <2>3. g[1..(i + 1)] = Better(best, a, x, e)
    <3>1. 1..(i + 1) \in SUBSET DOMAIN rows /\ 1..(i + 1) # {}
      OBVIOUS
    <3>2. Max(1..(i + 1)) = i + 1
      BY MaxOfInterval
    <3>3. (1..(i + 1)) \ {i + 1} = 1..i
      OBVIOUS
    <3> QED BY <3>1, <3>2, <3>3 DEF Scans, RowStep
  <2>4. Seen(rows, x, e, i + 1) = IF a.address = x /\ a.height <= e THEN S \cup {a} ELSE S
    <3>1. \A b : (\E j \in 1..(i + 1) : b = rows[j]) <=> (\E j \in 1..i : b = rows[j]) \/ b = a
      OBVIOUS
    <3>2. {rows[j] : j \in 1..(i + 1)} = {rows[j] : j \in 1..i} \cup {a}
      BY <3>1
    <3> QED BY <3>2 DEF Seen
  <2> HIDE DEF best, S, a
  <2>5. NoAction \notin Actions
    BY TallyAssumption
  <2>6. CASE ~(a.address = x /\ a.height <= e)
    BY <2>1, <2>3, <2>4, <2>6 DEF Better
  <2>7. CASE a.address = x /\ a.height <= e /\ S = {}
    BY <2>1, <2>3, <2>4, <2>7 DEF Better, Leads
  <2>8. CASE a.address = x /\ a.height <= e /\ S # {}
    <3>1. best \in S /\ best \in Actions /\ best # NoAction /\ \A b \in S : b = best \/ Beats(best, b)
      BY <2>1, <2>2, <2>5, <2>8 DEF Leads
    <3>2. CASE Beats(a, best)
      <4>1. \A b \in S : Beats(a, b)
        BY <2>2, <3>1, <3>2, BeatsOn
      <4> QED BY <2>3, <2>4, <2>8, <3>2, <4>1 DEF Better, Leads
    <3>3. CASE ~Beats(a, best)
      <4>1. a = best \/ Beats(best, a)
        BY <2>2, <3>1, <3>3, Decides
      <4> QED BY <2>3, <2>4, <2>8, <3>1, <3>3, <4>1 DEF Better, Leads
    <3> QED BY <3>2, <3>3
  <2> QED BY <2>6, <2>7, <2>8
<1>3. n \in Good
  <2> HIDE DEF Good
  <2> QED BY <1>1, <1>2, NatGrowth
<1> QED BY <1>3

\* A list of the rows has each of them.
LEMMA ListingHasAll ==
    ASSUME NEW S, IsFiniteSet(S), NEW rows \in Listings(S)
    PROVE  /\ Cardinality(S) \in Nat
           /\ rows \in [1..Cardinality(S) -> S]
           /\ {rows[j] : j \in 1..Cardinality(S)} = S
<1> DEFINE n == Cardinality(S)
<1>1. n \in Nat
  BY FS_CardinalityType
<1>2. rows \in [1..n -> S] /\ \A i, j \in 1..n : i # j => rows[i] # rows[j]
  BY DEF Listings, SetToSeqs
<1>3. rows \in Injection(1..n, S)
  <2> HIDE DEF n
  <2> QED BY <1>2 DEF Injection, IsInjective
<1>4. Cardinality(1..n) = n
  <2> HIDE DEF n
  <2> QED BY <1>1, FS_Interval
<1>5. rows \in Surjection(1..n, S)
  BY <1>3, <1>4, FS_Injection
<1> HIDE DEF n
<1>6. {rows[j] : j \in 1..n} = S
  BY <1>2, <1>5 DEF Surjection
<1> QED BY <1>1, <1>2, <1>6 DEF n

LEMMA RowsDecide ==
    ASSUME NEW S \in SUBSET Actions, IsFiniteSet(S), NEW rows \in Listings(S), NEW x, NEW e
    PROVE  RowsMembership(rows, x, e) = Membership(S, x, e)
<1> DEFINE n == Cardinality(S)
           best == BestRow(rows, x, e)
           D == Deciding(S, x, e)
<1>1. n \in Nat /\ rows \in [1..n -> Actions] /\ {rows[j] : j \in 1..n} = S
  BY ListingHasAll
<1> HIDE DEF n
<1>2. PICK g : Scans(g, rows, x, e) /\ best = g[1..n]
  BY <1>1, BestRowScans
<1>3. Leads(best, Seen(rows, x, e, n))
  BY <1>1, <1>2, ScanLeads
<1>4. Seen(rows, x, e, n) = D
  BY <1>1 DEF Seen, Deciding
<1> HIDE DEF best
<1>5. CASE D = {}
  <2>1. best = NoAction /\ Best(S, x, e) = {}
    BY <1>3, <1>4, <1>5 DEF Leads, Best
  <2> QED BY <2>1 DEF RowsMembership, Membership, best
<1>6. CASE D # {}
  <2>1. best \in D /\ best \in Actions /\ best # NoAction /\ D \subseteq Actions
    BY <1>3, <1>4, <1>6, TallyAssumption DEF Leads, Deciding
  <2>2. \A b \in D : b = best \/ Beats(best, b)
    BY <1>3, <1>4, <1>6 DEF Leads
  <2>3. Best(S, x, e) = {best}
    <3>1. best \in Best(S, x, e)
      BY <2>1, <2>2 DEF Best
    <3>2. ASSUME NEW b \in Best(S, x, e) PROVE b = best
      BY <2>1, <2>2, Decides DEF Best
    <3> QED BY <3>1, <3>2
  <2> QED BY <2>1, <2>3 DEF RowsMembership, Membership, best
<1> QED BY <1>5, <1>6

\* A table has finitely many rows.
TablesFinite == \A n \in Nodes : IsFiniteSet(log[n])

LEMMA TablesStart == Init => TablesFinite
  BY FS_EmptySet DEF Init, TablesFinite

LEMMA TablesStep ==
    ASSUME TypeOK, TablesFinite, [Next]_vars
    PROVE  TablesFinite'
<1> SUFFICES ASSUME NEW n \in Nodes PROVE IsFiniteSet(log'[n])
  BY DEF TablesFinite
<1>1. CASE log'[n] = log[n]
  BY <1>1 DEF TablesFinite
<1>2. ASSUME NEW a, log'[n] = log[n] \cup {a}
      PROVE  IsFiniteSet(log'[n])
  BY <1>2, FS_AddElement DEF TablesFinite
<1> QED BY <1>1, <1>2, LogSteps

\* delegation.ts: "The action with the HIGHEST nonce wins everywhere": whatever
\* the order in which SQLite lists the rows, the loop over them ends with it.
THEOREM OrderNeverMatters == Spec => []ResolveOrderFree
<1>1. TypeOK /\ TablesFinite /\ [Next]_vars => TablesFinite'
  BY TablesStep
<1>2. TypeOK /\ TablesFinite => ResolveOrderFree
  BY RowsDecide DEF TypeOK, TablesFinite, ResolveOrderFree
<1> QED BY <1>1, <1>2, TablesStart, TypeCorrect, PTL DEF Spec

=============================================================================
