--------------------------- MODULE VerdictProofs ---------------------------
(***************************************************************************)
(* What Verdicts guarantees for any number of nodes, addresses and         *)
(* resolutions: one computation at a time, none before the end block, and, *)
(* if every record arrives before the end block, verdicts that follow from *)
(* the tables, or from an answer of espo's that was amiss in their favour. *)
(* Then VerdictSweep: a cached verdict is held and never early, and, if    *)
(* the nodes store the same records in time, it differs from theirs only   *)
(* by such an answer, or by a part of the records no node answered with.   *)
(***************************************************************************)
EXTENDS VerdictSweep, FiniteSetTheorems, TLAPS

LEMMA VerdictType == \A r : Verdict(r) \in {"passed", "rejected"}
BY DEF Verdict

LEMMA CountedType ==
    ASSUME NEW t \in Table
    PROVE  Counted(t) \in SUBSET Addresses
BY DEF Counted, Table

LEMMA DoubtsType == \A v, voters, r : DoubtsOf(v, voters, r) \subseteq Doubts
BY DEF DoubtsOf

LEMMA WaitType ==
    ASSUME TypeOK, NEW n \in Nodes, NEW r \in Resolutions \cup {NoResolution}
    PROVE  [at |-> n, res |-> r, early |-> Early] \in TipWait
BY VerdictAssumption DEF TypeOK, Early, Ended, TipWait

LEMMA TypeStep ==
    ASSUME TypeOK, [Next]_vars
    PROVE  TypeOK'
<1> USE VerdictAssumption, VerdictType
<1>1. CASE Mine
  BY <1>1 DEF Mine, TypeOK
<1>2. ASSUME NEW n \in Nodes, NEW t \in Tables, StoreRecord(n, t)
      PROVE  TypeOK'
  BY <1>2 DEF StoreRecord, TypeOK
<1>3. ASSUME NEW r \in Resolutions, NEW targets \in SUBSET Nodes \ {{}}, Resolve(r, targets)
      PROVE  TypeOK'
  <2>1. Post(targets, r) \subseteq ResMsg
    BY DEF Post, ResMsg
  <2> QED BY <1>3, <2>1 DEF Resolve, TypeOK
<1>4. ASSUME NEW m \in resMsgs, LoseResolution(m)
      PROVE  TypeOK'
  BY <1>4 DEF LoseResolution, TypeOK
<1>5. ASSUME NEW n \in Nodes, Read(n)
      PROVE  TypeOK'
  BY <1>5, WaitType DEF Read, AskTip, TypeOK
<1>6. ASSUME NEW m \in resMsgs, ResolveOpen(m)
      PROVE  TypeOK'
  <2>1. m.to \in Nodes /\ m.res \in Resolutions
    BY DEF TypeOK, ResMsg
  <2> QED BY <1>6, <2>1, WaitType DEF ResolveOpen, AskTip, TypeOK
<1>7. ASSUME NEW m \in resMsgs, RefuseResolution(m)
      PROVE  TypeOK'
  BY <1>7 DEF RefuseResolution, TypeOK
<1>8. ASSUME NEW m \in resMsgs, ResolvePassed(m)
      PROVE  TypeOK'
  <2>1. m.to \in Nodes /\ m.res \in Resolutions
    BY DEF TypeOK, ResMsg
  <2>2. Post(Nodes \ {m.to}, m.res) \subseteq ResMsg
    BY <2>1 DEF Post, ResMsg
  <2> QED BY <1>8, <2>1, <2>2 DEF ResolvePassed, Insert, TypeOK
<1>9. ASSUME NEW w \in tipWaits, SkipVerdict(w)
      PROVE  TypeOK'
  BY <1>9 DEF SkipVerdict, TypeOK
<1>10. ASSUME NEW w \in tipWaits, StartVerdict(w)
       PROVE  TypeOK'
  <2>1. w.at \in Nodes /\ tables[w.at] \in Table
    BY DEF TypeOK, TipWait
  <2>2. [at |-> w.at, res |-> w.res, voters |-> Counted(tables[w.at])] \in Computing
    BY <2>1, CountedType DEF TypeOK, TipWait, Computing
  <2> QED BY <1>10, <2>2 DEF StartVerdict, TypeOK
<1>11. ASSUME NEW c \in computing, NEW r \in Readings(c.voters), FinishVerdict(c, r)
       PROVE  TypeOK'
  <2>1. c.at \in Nodes /\ c.res \in Resolutions \cup {NoResolution}
    BY DEF TypeOK, Computing
  <2>2. c.res # NoResolution => Post(Nodes \ {c.at}, c.res) \subseteq ResMsg
    BY <2>1 DEF Post, ResMsg
  <2>3. /\ status' \in [Nodes -> Statuses]
        /\ computing' \subseteq Computing
        /\ inFlight' \in [Nodes -> BOOLEAN]
        /\ doubts' \in [Nodes -> SUBSET Doubts]
    BY <1>11, <2>1, DoubtsType DEF FinishVerdict, StoreVerdict, Leave, TypeOK, Statuses
  <2>4. /\ resolution' \in [Nodes -> Resolutions \cup {NoResolution}]
        /\ resMsgs' \subseteq ResMsg
    BY <1>11, <2>1, <2>2 DEF FinishVerdict, Insert, TypeOK
  <2> QED BY <1>11, <2>3, <2>4 DEF FinishVerdict, StoreVerdict, TypeOK
<1>12. ASSUME NEW c \in computing, FailVerdict(c)
       PROVE  TypeOK'
  BY <1>12 DEF FailVerdict, Leave, TypeOK
<1>13. ASSUME NEW n \in Nodes, Crash(n)
       PROVE  TypeOK'
  BY <1>13 DEF Crash, TypeOK
<1>14. CASE UNCHANGED vars
  BY <1>14 DEF vars, TypeOK
<1> QED
  BY <1>1, <1>2, <1>3, <1>4, <1>5, <1>6, <1>7, <1>8, <1>9, <1>10, <1>11, <1>12, <1>13, <1>14
     DEF Next, Progress, Finish, Fail

\* Every variable keeps its type.
THEOREM TypeCorrect == Spec => []TypeOK
<1>1. Init => TypeOK
  BY VerdictAssumption DEF Init, TypeOK, Statuses
<1>2. TypeOK /\ [Next]_vars => TypeOK'
  BY TypeStep
<1> QED BY <1>1, <1>2, PTL DEF Spec

----------------------------------------------------------------------------
(* One computation at a time, after the end *)

\* A computation that ends gives the place of its node up.
LEMMA LeaveBusy ==
    ASSUME TypeOK, OneComputation, NEW c \in computing, Leave(c)
    PROVE  OneComputation'
<1>1. c.at \in Nodes
  BY DEF TypeOK, Computing
<1>2. ASSUME NEW n \in Nodes
      PROVE  inFlight'[n] <=> \E d \in computing' : d.at = n
  <2>1. CASE n = c.at
    BY <1>1, <2>1 DEF Leave, OneComputation, TypeOK
  <2>2. CASE n # c.at
    BY <1>1, <2>2 DEF Leave, OneComputation, TypeOK
  <2> QED BY <2>1, <2>2
<1>3. computing' \subseteq computing
  BY DEF Leave
<1> QED BY <1>2, <1>3 DEF OneComputation

LEMMA OneComputationStep ==
    ASSUME TypeOK, OneComputation, [Next]_vars
    PROVE  OneComputation'
<1>1. CASE UNCHANGED <<inFlight, computing>>
  BY <1>1 DEF OneComputation
<1>2. ASSUME NEW w \in tipWaits, StartVerdict(w)
      PROVE  OneComputation'
  <2> DEFINE d == [at |-> w.at, res |-> w.res, voters |-> Counted(tables[w.at])]
  <2>1. /\ w.at \in Nodes
        /\ ~inFlight[w.at]
        /\ inFlight' = [inFlight EXCEPT ![w.at] = TRUE]
        /\ computing' = computing \cup {d}
    BY <1>2 DEF StartVerdict, TypeOK, TipWait
  <2>2. d.at = w.at /\ ~\E c \in computing : c.at = w.at
    BY <2>1 DEF OneComputation
  <2> HIDE DEF d
  <2>3. ASSUME NEW n \in Nodes
        PROVE  /\ inFlight'[n] <=> \E c \in computing' : c.at = n
               /\ \A b, c \in computing' : b.at = n /\ c.at = n => b = c
    BY <2>1, <2>2 DEF OneComputation, TypeOK
  <2> QED BY <2>3 DEF OneComputation
<1>3. ASSUME NEW c \in computing, Leave(c)
      PROVE  OneComputation'
  BY <1>3, LeaveBusy
<1>4. ASSUME NEW n \in Nodes, Crash(n)
      PROVE  OneComputation'
  <2>1. ASSUME NEW k \in Nodes
        PROVE  /\ inFlight'[k] <=> \E c \in computing' : c.at = k
               /\ \A b, c \in computing' : b.at = k /\ c.at = k => b = c
    <3>1. CASE k = n
      BY <1>4, <3>1 DEF Crash, TypeOK
    <3>2. CASE k # n
      BY <1>4, <3>2 DEF Crash, OneComputation, TypeOK
    <3> QED BY <3>1, <3>2
  <2> QED BY <2>1 DEF OneComputation
<1> QED
  BY <1>1, <1>2, <1>3, <1>4
     DEF Next, vars, Progress, Finish, Fail, Mine, StoreRecord, Resolve, LoseResolution, Read,
         ResolveOpen, RefuseResolution, ResolvePassed, SkipVerdict, FinishVerdict, StoreVerdict,
         FailVerdict

\* The verdictInFlight set of every node holds the proposal exactly while
\* one handler of the node computes its verdict.
THEOREM OneAtATime == Spec => []OneComputation
<1>1. Init => OneComputation
  BY DEF Init, OneComputation
<1>2. TypeOK /\ OneComputation /\ [Next]_vars => OneComputation'
  BY OneComputationStep
<1> QED BY <1>1, <1>2, TypeCorrect, PTL DEF Spec

\* The tip never goes back, so what has ended stays so.
LEMMA EndedStays ==
    ASSUME TypeOK, [Next]_vars, Ended
    PROVE  Ended'
<1>1. tip' = tip \/ tip' = tip + 1
  BY DEF Next, vars, Progress, Finish, Fail, Mine, StoreRecord, Resolve, LoseResolution, Read,
         ResolveOpen, RefuseResolution, ResolvePassed, SkipVerdict, StartVerdict,
         FinishVerdict, StoreVerdict, FailVerdict, Crash
<1> QED BY <1>1, VerdictAssumption DEF TypeOK, Ended

LEMMA BeforeEndStep ==
    ASSUME TypeOK, OneComputation, NoVerdictBeforeEnd, [Next]_vars
    PROVE  NoVerdictBeforeEnd'
<1>1. CASE Ended
  BY <1>1, EndedStays DEF NoVerdictBeforeEnd
<1>2. CASE ~Ended
  <2>1. computing = {}
    BY <1>2 DEF NoVerdictBeforeEnd, OneComputation, TypeOK, Computing
  <2>2. \A n \in Nodes : status[n] = "open" /\ ~inFlight[n]
    BY <1>2 DEF NoVerdictBeforeEnd
  <2>3. \A n \in Nodes : status'[n] = "open" /\ ~inFlight'[n]
    BY <1>2, <2>1, <2>2
       DEF Next, vars, Progress, Finish, Fail, Mine, StoreRecord, Resolve, LoseResolution, Read,
           ResolveOpen, RefuseResolution, ResolvePassed, SkipVerdict, StartVerdict, Crash, TypeOK
  <2> QED BY <2>3 DEF NoVerdictBeforeEnd
<1> QED BY <1>1, <1>2

\* No node decides, or sets out to decide, a proposal whose end block is not
\* mined.
THEOREM DecidedAfterEnd == Spec => []NoVerdictBeforeEnd
<1>1. Init => NoVerdictBeforeEnd
  BY DEF Init, NoVerdictBeforeEnd
<1>2. TypeOK /\ OneComputation /\ NoVerdictBeforeEnd /\ [Next]_vars => NoVerdictBeforeEnd'
  BY BeforeEndStep
<1> QED BY <1>1, <1>2, TypeCorrect, OneAtATime, PTL DEF Spec

----------------------------------------------------------------------------
(* Records that arrive in time *)

\* The verdict of a node's tables when every request is answered.
TruthOf(voters) == Verdict(Whole(voters))

\* A verdict is the true one, or an answer was amiss in its favour.
Justified(v, truth, d) ==
    \/ v = truth
    \/ v = "passed" /\ "lenient" \in d
    \/ v = "rejected" /\ "strict" \in d

\* Who counts does not change any more once the end block is mined, so every
\* handler computes with, and every node decides by, its final tables.
TablesDecide ==
    /\ \A c \in computing : c.voters = Counted(tables[c.at])
    /\ \A n \in Nodes : status[n] # "open" =>
          Justified(status[n], TruthOf(Counted(tables[n])), doubts[n])

\* More power never rejects what less passes.
LEMMA Monotone ==
    ASSUME NEW V \in SUBSET Addresses, NEW P \in SUBSET V
    PROVE  /\ Cardinality(V) \in Nat /\ Cardinality(P) \in Nat
           /\ Cardinality(P) <= Cardinality(V)
<1>1. IsFiniteSet(V)
  BY VerdictAssumption, FS_Subset
<1> QED BY <1>1, FS_Subset, FS_CardinalityType

\* What espo answered, if only in part, justifies the verdict.
LEMMA ReadingJustified ==
    ASSUME NEW V \in SUBSET Addresses, NEW r \in Readings(V)
    PROVE  Justified(Verdict(r), TruthOf(V), DoubtsOf(Verdict(r), V, r))
<1>1. /\ r.priced \in SUBSET V /\ r.supply \in Supplies
      /\ Whole(V).priced = V /\ Whole(V).supply = Supply
  BY DEF Readings, Whole
<1>2. Threshold[r.supply] \in Nat /\ Threshold[Supply] \in Nat
  BY <1>1, VerdictAssumption
<1>3. /\ Cardinality(V) \in Nat /\ Cardinality(r.priced) \in Nat
      /\ Cardinality(r.priced) <= Cardinality(V)
  BY <1>1, Monotone
<1>4. CASE Verdict(r) = "passed" /\ TruthOf(V) = "rejected"
  <2>1. Threshold[r.supply] < Threshold[Supply]
    BY <1>1, <1>2, <1>3, <1>4 DEF TruthOf, Verdict
  <2> QED BY <1>4, <2>1 DEF Justified, DoubtsOf, Doubts
<1>5. CASE Verdict(r) = "rejected" /\ TruthOf(V) = "passed"
  <2>1. Threshold[r.supply] > Threshold[Supply] \/ r.priced # V
    BY <1>1, <1>2, <1>3, <1>5 DEF TruthOf, Verdict
  <2> QED BY <1>5, <2>1 DEF Justified, DoubtsOf, Doubts
<1> QED BY <1>4, <1>5, VerdictType DEF Justified, TruthOf

LEMMA DecideStep ==
    ASSUME ~Late, TypeOK, OneComputation, NoVerdictBeforeEnd, TablesDecide, [Next]_vars
    PROVE  TablesDecide'
<1>1. CASE /\ computing' \subseteq computing
           /\ UNCHANGED <<tables, status, doubts>>
  BY <1>1 DEF TablesDecide
<1>2. ASSUME NEW n \in Nodes, NEW t \in Tables, StoreRecord(n, t)
      PROVE  TablesDecide'
  <2>1. ~Ended
    BY <1>2 DEF StoreRecord
  <2>2. computing = {} /\ \A m \in Nodes : status[m] = "open"
    BY <2>1 DEF NoVerdictBeforeEnd, OneComputation, TypeOK, Computing
  <2> QED BY <1>2, <2>2 DEF StoreRecord, TablesDecide
<1>3. ASSUME NEW w \in tipWaits, StartVerdict(w)
      PROVE  TablesDecide'
  BY <1>3 DEF StartVerdict, TablesDecide
<1>4. ASSUME NEW c \in computing, NEW r \in Readings(c.voters), FinishVerdict(c, r)
      PROVE  TablesDecide'
  <2> DEFINE V == Counted(tables[c.at])
             d == DoubtsOf(Verdict(r), V, r)
  <2>1. c.at \in Nodes /\ c.voters = V /\ V \in SUBSET Addresses
    BY DEF TypeOK, Computing, TablesDecide
  <2>2. /\ status' = [status EXCEPT ![c.at] = Verdict(r)]
        /\ doubts' = [doubts EXCEPT ![c.at] = @ \cup d]
        /\ computing' \subseteq computing
        /\ tables' = tables
    BY <1>4, <2>1 DEF FinishVerdict, StoreVerdict, Leave
  <2>3. Justified(Verdict(r), TruthOf(V), d)
    BY <2>1, ReadingJustified
  <2>4. status'[c.at] = Verdict(r) /\ doubts'[c.at] = doubts[c.at] \cup d
    BY <2>1, <2>2 DEF TypeOK
  <2>5. Justified(status'[c.at], TruthOf(V), doubts'[c.at])
    BY <2>3, <2>4 DEF Justified
  <2>6. \A n \in Nodes : n # c.at => status'[n] = status[n] /\ doubts'[n] = doubts[n]
    BY <2>1, <2>2 DEF TypeOK
  <2>7. ASSUME NEW n \in Nodes, status'[n] # "open"
        PROVE  Justified(status'[n], TruthOf(Counted(tables[n])), doubts'[n])
    BY <2>5, <2>6, <2>7 DEF TablesDecide
  <2> QED BY <2>2, <2>7 DEF TablesDecide
<1> QED
  BY <1>1, <1>2, <1>3, <1>4
     DEF Next, vars, Progress, Finish, Fail, Mine, Resolve, LoseResolution, Read,
         ResolveOpen, RefuseResolution, ResolvePassed, SkipVerdict, FailVerdict, Leave, Crash

\* Two justified verdicts of the same tables are consistent.
LEMMA JustifiedConsistent ==
    ASSUME NEW v, NEW w, NEW d, NEW e, NEW truth \in {"passed", "rejected"},
           Justified(v, truth, d), Justified(w, truth, e)
    PROVE  Consistent(v, d, w, e)
BY DEF Justified, Consistent

\* A decided row stays so, and doubts are not forgotten.
LEMMA StatusStep ==
    ASSUME TypeOK, [Next]_vars, NEW n \in Nodes
    PROVE  /\ status[n] # "open" => status'[n] # "open"
           /\ doubts[n] \subseteq doubts'[n]
<1>1. CASE UNCHANGED <<status, doubts>>
  BY <1>1
<1>2. ASSUME NEW c \in computing, NEW r \in Readings(c.voters), FinishVerdict(c, r)
      PROVE  /\ status[n] # "open" => status'[n] # "open"
             /\ doubts[n] \subseteq doubts'[n]
  <2>1. c.at \in Nodes
    BY DEF TypeOK, Computing
  <2> QED BY <1>2, <2>1, VerdictType DEF FinishVerdict, StoreVerdict, TypeOK
<1> QED
  BY <1>1, <1>2
     DEF Next, vars, Progress, Finish, Fail, Mine, StoreRecord, Resolve, LoseResolution, Read,
         ResolveOpen, RefuseResolution, ResolvePassed, SkipVerdict, StartVerdict, FailVerdict,
         Crash

\* Once a row is decided its node's tables do not change.
LEMMA TablesFixed ==
    ASSUME ~Late, Ended, [Next]_vars
    PROVE  tables' = tables
BY DEF Next, vars, Progress, Finish, Fail, Mine, StoreRecord, Resolve, LoseResolution, Read,
       ResolveOpen, RefuseResolution, ResolvePassed, SkipVerdict, StartVerdict,
       FinishVerdict, StoreVerdict, FailVerdict, Crash

LEMMA TruthType == \A voters : TruthOf(voters) \in {"passed", "rejected"}
BY VerdictType DEF TruthOf

\* What a handler stores is consistent with what any earlier one stored.
LEMMA FinalStep ==
    ASSUME ~Late, TypeOK, NoVerdictBeforeEnd, TablesDecide, TablesDecide', [Next]_vars,
           NEW n \in Nodes, status[n] # "open"
    PROVE  /\ status'[n] # "open"
           /\ Consistent(status[n], doubts[n], status'[n], doubts'[n])
<1> DEFINE truth == TruthOf(Counted(tables[n]))
<1>1. status'[n] # "open"
  BY StatusStep
<1>2. tables' = tables
  BY TablesFixed DEF NoVerdictBeforeEnd
<1>3. Justified(status[n], truth, doubts[n])
  BY DEF TablesDecide
<1>4. Justified(status'[n], truth, doubts'[n])
  BY <1>1, <1>2 DEF TablesDecide
<1>5. truth \in {"passed", "rejected"}
  BY TruthType
<1> HIDE DEF truth
<1> QED BY <1>1, <1>3, <1>4, <1>5, JustifiedConsistent

LEMMA ResolvedStep ==
    ASSUME ~Late, TypeOK, NoVerdictBeforeEnd, TablesDecide, TablesDecide', ResolvedIsPassed,
           [Next]_vars
    PROVE  ResolvedIsPassed'
<1>1. SUFFICES ASSUME NEW n \in Nodes, resolution'[n] # NoResolution
               PROVE  status'[n] = "passed" \/ (status'[n] = "rejected" /\ doubts'[n] # {})
  BY DEF ResolvedIsPassed
<1>2. CASE resolution[n] # NoResolution
  <2>1. status[n] = "passed" \/ (status[n] = "rejected" /\ doubts[n] # {})
    BY <1>2 DEF ResolvedIsPassed
  <2>2. /\ status'[n] # "open"
        /\ Consistent(status[n], doubts[n], status'[n], doubts'[n])
    BY <2>1, FinalStep
  <2>3. status'[n] \in {"passed", "rejected"} /\ doubts[n] \subseteq doubts'[n]
    BY <2>2, TypeStep, StatusStep DEF TypeOK, Statuses
  <2> QED BY <2>1, <2>2, <2>3 DEF Consistent
<1>3. CASE resolution[n] = NoResolution
  <2>1. ASSUME NEW m \in resMsgs, ResolvePassed(m)
        PROVE  status'[n] = "passed"
    BY <1>1, <1>3, <2>1 DEF ResolvePassed, Insert, TypeOK, ResMsg
  <2>2. ASSUME NEW c \in computing, NEW r \in Readings(c.voters), FinishVerdict(c, r)
        PROVE  status'[n] = "passed"
    <3>1. c.at \in Nodes
      BY DEF TypeOK, Computing
    <3>2. n = c.at /\ Verdict(r) = "passed"
      BY <1>1, <1>3, <2>2, <3>1 DEF FinishVerdict, Insert, TypeOK
    <3> QED BY <2>2, <3>2 DEF FinishVerdict, StoreVerdict, TypeOK
  <2>3. CASE UNCHANGED resolution
    BY <1>1, <1>3, <2>3
  <2> QED
    BY <2>1, <2>2, <2>3
       DEF Next, vars, Progress, Finish, Fail, Mine, StoreRecord, Resolve, LoseResolution, Read,
           ResolveOpen, RefuseResolution, SkipVerdict, StartVerdict, FailVerdict, Crash
<1> QED BY <1>2, <1>3

\* In time, every computation and every stored verdict follows from the
\* tables of its node.
THEOREM VerdictOfTables ==
    ASSUME ~Late
    PROVE  Spec => []TablesDecide
<1>1. Init => TablesDecide
  BY DEF Init, TablesDecide
<1>2. TypeOK /\ OneComputation /\ NoVerdictBeforeEnd /\ TablesDecide /\ [Next]_vars => TablesDecide'
  BY DecideStep
<1> QED BY <1>1, <1>2, TypeCorrect, OneAtATime, DecidedAfterEnd, PTL DEF Spec

\* If every record arrives before the end block, a node stores another verdict
\* than before only by an answer of espo's that was amiss, although a handler
\* writes it on the strength of a status it read before it waited.
THEOREM VerdictsFinal ==
    ASSUME ~Late
    PROVE  Spec => VerdictFinal
<1>1. TypeOK /\ NoVerdictBeforeEnd /\ TablesDecide /\ TablesDecide' /\ [Next]_vars
      => [\A n \in Nodes : status[n] # "open" =>
            /\ status'[n] # "open"
            /\ Consistent(status[n], doubts[n], status'[n], doubts'[n])]_vars
  BY FinalStep
<1>2. Spec => []TablesDecide
  BY VerdictOfTables
<1> QED BY <1>1, <1>2, TypeCorrect, DecidedAfterEnd, PTL DEF Spec, VerdictFinal

\* Nodes with the same tables decide alike, unless an answer of espo's was amiss
\* in favour of the one that passed or against the one that rejected.
THEOREM SameTablesSameVerdict ==
    ASSUME ~Late
    PROVE  Spec => []NodesAgree
<1>1. TypeOK /\ TablesDecide => NodesAgree
  <2> SUFFICES ASSUME TablesDecide, NEW m \in Nodes, NEW n \in Nodes, tables[m] = tables[n]
               PROVE  Consistent(status[m], doubts[m], status[n], doubts[n])
    BY DEF NodesAgree
  <2> DEFINE truth == TruthOf(Counted(tables[n]))
  <2>1. truth \in {"passed", "rejected"}
    BY TruthType
  <2>2. CASE status[m] = "open" \/ status[n] = "open"
    BY <2>2 DEF Consistent
  <2>3. CASE status[m] # "open" /\ status[n] # "open"
    <3>1. Justified(status[m], truth, doubts[m]) /\ Justified(status[n], truth, doubts[n])
      BY <2>3 DEF TablesDecide
    <3> HIDE DEF truth
    <3> QED BY <2>1, <3>1, JustifiedConsistent
  <2> QED BY <2>2, <2>3
<1>2. Spec => []TablesDecide
  BY VerdictOfTables
<1> QED BY <1>1, <1>2, TypeCorrect, PTL

\* And a node holds resolutions of passed proposals only, unless it computed
\* with an answer that was amiss.
THEOREM ResolvedPassed ==
    ASSUME ~Late
    PROVE  Spec => []ResolvedIsPassed
<1>1. Init => ResolvedIsPassed
  BY DEF Init, ResolvedIsPassed
<1>2. TypeOK /\ NoVerdictBeforeEnd /\ TablesDecide /\ TablesDecide' /\ ResolvedIsPassed
          /\ [Next]_vars
      => ResolvedIsPassed'
  BY ResolvedStep
<1>3. Spec => []TablesDecide
  BY VerdictOfTables
<1> QED BY <1>1, <1>2, <1>3, TypeCorrect, DecidedAfterEnd, PTL DEF Spec

----------------------------------------------------------------------------
(* The sweep *)

\* The orchestrator only reads: its nodes are those of Verdicts.
LEMMA NodesRun == SweepSpec => Spec
<1>1. SweepInit => Init
  BY DEF SweepInit
<1>2. [SweepNext]_<<vars, sweepVars>> => [Next]_vars
  BY DEF SweepNext
<1> QED BY <1>1, <1>2, PTL DEF SweepSpec, Spec

\* Every step is one of a node or one of the orchestrator's.
LEMMA SweepSteps ==
    ASSUME [SweepNext]_<<vars, sweepVars>>
    PROVE  [Next]_vars /\ (UNCHANGED sweepVars \/ (Orchestrate /\ UNCHANGED vars))
BY DEF SweepNext, vars, sweepVars

LEMMA SweepTypeStep ==
    ASSUME TypeOK, SweepTypeOK, [SweepNext]_<<vars, sweepVars>>
    PROVE  SweepTypeOK'
<1> USE VerdictType DEF SweepTypeOK, Terminal
<1>1. CASE UNCHANGED sweepVars
  BY <1>1 DEF sweepVars
<1>2. ASSUME NEW n \in Nodes, ReadRows(n)
      PROVE  SweepTypeOK'
  BY <1>2 DEF ReadRows, TypeOK, Statuses
<1>3. ASSUME NEW n \in Nodes, HearVotes(n)
      PROVE  SweepTypeOK'
  <2>1. sweep \in Sweep /\ tables[n].votes \in SUBSET Addresses
    BY <1>3, VerdictAssumption DEF HearVotes, NoSweep, TypeOK, Table
  <2>2. sweep' \in Sweep
    BY <1>3, <2>1 DEF HearVotes, Sweep
  <2> QED BY <1>3, <2>2 DEF HearVotes
<1>4. ASSUME NEW n \in Nodes, MissVotes(n)
      PROVE  SweepTypeOK'
  <2>1. sweep \in Sweep
    BY <1>4 DEF MissVotes, NoSweep
  <2>2. sweep' \in Sweep
    BY <1>4, <2>1 DEF MissVotes, Sweep
  <2> QED BY <1>4, <2>2 DEF MissVotes
<1>5. ASSUME NEW s \in rows, JoinSweep(s) \/ AnswerCached(s) \/ Adopt(s)
      PROVE  SweepTypeOK'
  BY <1>5 DEF JoinSweep, AnswerCached, Adopt
<1>6. ASSUME NEW s \in rows, StartSweep(s)
      PROVE  SweepTypeOK'
  <2>1. Early \in BOOLEAN
    BY VerdictAssumption DEF Early, Ended
  <2>2. sweep' \in Sweep
    BY <1>6, <2>1 DEF StartSweep, Asking, Sweep
  <2> QED BY <1>6, <2>2 DEF StartSweep
<1>7. CASE SkipSweep \/ FailSweep \/ Restart
  BY <1>7 DEF SkipSweep, FailSweep, Restart
<1>8. CASE FetchVotes
  BY <1>8 DEF FetchVotes, AskAll, Asking, Sweep
<1>9. CASE FinishSweep
  <2>1. PICK t \in Merged : \E r \in Readings(Counted(t)) :
            /\ CacheVerdict(SweepVerdict(r))
            /\ swept' = swept \cup SweepDoubts(SweepVerdict(r), Counted(t), r)
    BY <1>9 DEF FinishSweep, CacheComputed
  <2>2. PICK r \in Readings(Counted(t)) :
            /\ CacheVerdict(SweepVerdict(r))
            /\ swept' = swept \cup SweepDoubts(SweepVerdict(r), Counted(t), r)
    BY <2>1
  <2>3. SweepVerdict(r) \in Terminal
    BY DEF SweepVerdict
  <2>4. swept' \subseteq Doubts
    BY <2>2, DoubtsType DEF SweepDoubts
  <2> QED BY <2>2, <2>3, <2>4 DEF CacheVerdict
<1>10. ASSUME NEW n \in Nodes, NEW parts \in SUBSET ContextParts, HearContext(n, parts)
       PROVE  SweepTypeOK'
  <2>1. /\ sweep \in Sweep
        /\ tables[n].members \in SUBSET Addresses /\ tables[n].listed \in BOOLEAN
    BY <1>10, VerdictAssumption DEF HearContext, NoSweep, TypeOK, Table
  <2>2. sweep' \in Sweep
    BY <1>10, <2>1 DEF HearContext, Sweep
  <2> QED BY <1>10, <2>2 DEF HearContext
<1> QED
  BY <1>1, <1>2, <1>3, <1>4, <1>5, <1>6, <1>7, <1>8, <1>9, <1>10, SweepSteps DEF Orchestrate

\* Every variable of the orchestrator keeps its type.
THEOREM SweepTypeCorrect == SweepSpec => []SweepTypeOK
<1>1. SweepInit => SweepTypeOK
  BY DEF SweepInit, SweepTypeOK
<1>2. TypeOK /\ SweepTypeOK /\ [SweepNext]_<<vars, sweepVars>> => SweepTypeOK'
  BY SweepTypeStep
<1>3. SweepSpec => []TypeOK
  BY NodesRun, TypeCorrect, PTL
<1> QED BY <1>1, <1>2, <1>3, PTL DEF SweepSpec

----------------------------------------------------------------------------
(* The cache *)

\* Verdicts on their way to the orchestrator, and answered by it, are those of
\* an ended proposal.
RowsAfterEnd == rows \cap Terminal # {} \/ answered # {} => Ended

\* Nothing the orchestrator knows of the proposal is a verdict.
NothingKnown ==
    /\ cache = NoVerdict
    /\ sweep.phase # "votes"
    /\ rows \cap Terminal = {}
    /\ answered = {}

LEMMA EarlyStep ==
    ASSUME ~Ended, NoVerdictBeforeEnd, CachedAfterEnd, RowsAfterEnd,
           [SweepNext]_<<vars, sweepVars>>
    PROVE  NothingKnown'
<1>1. NothingKnown /\ \A n \in Nodes : status[n] = "open"
  BY DEF NothingKnown, CachedAfterEnd, RowsAfterEnd, NoVerdictBeforeEnd
<1> USE DEF NothingKnown
<1>2. CASE UNCHANGED sweepVars
  BY <1>1, <1>2 DEF sweepVars
<1>3. ASSUME NEW n \in Nodes, ReadRows(n)
      PROVE  NothingKnown'
  BY <1>1, <1>3 DEF ReadRows, Terminal
<1>4. ASSUME NEW s \in rows, JoinSweep(s) \/ AnswerCached(s) \/ Adopt(s) \/ StartSweep(s)
      PROVE  NothingKnown'
  BY <1>1, <1>4 DEF JoinSweep, AnswerCached, Adopt, StartSweep, Asking
<1>5. CASE SkipSweep \/ Restart
  BY <1>1, <1>5 DEF SkipSweep, Restart, NoSweep
<1> QED
  BY <1>1, <1>2, <1>3, <1>4, <1>5, SweepSteps
     DEF Orchestrate, HearVotes, MissVotes, HearContext, FetchVotes, FinishSweep, FailSweep

LEMMA AfterEndStep ==
    ASSUME TypeOK, NoVerdictBeforeEnd, CachedAfterEnd, RowsAfterEnd,
           [SweepNext]_<<vars, sweepVars>>
    PROVE  CachedAfterEnd' /\ RowsAfterEnd'
<1>1. CASE Ended
  BY <1>1, SweepSteps, EndedStays DEF CachedAfterEnd, RowsAfterEnd
<1>2. CASE ~Ended
  BY <1>2, EarlyStep DEF NothingKnown, CachedAfterEnd, RowsAfterEnd
<1> QED BY <1>1, <1>2

\* No verdict is cached, or computed by the orchestrator, before the end
\* block is mined.
THEOREM CacheAfterEnd == SweepSpec => [](CachedAfterEnd /\ RowsAfterEnd)
<1>1. SweepInit => CachedAfterEnd /\ RowsAfterEnd
  BY DEF SweepInit, CachedAfterEnd, RowsAfterEnd, NoSweep
<1>2. TypeOK /\ NoVerdictBeforeEnd /\ CachedAfterEnd /\ RowsAfterEnd
          /\ [SweepNext]_<<vars, sweepVars>>
      => CachedAfterEnd' /\ RowsAfterEnd'
  BY AfterEndStep
<1>3. SweepSpec => []TypeOK /\ []NoVerdictBeforeEnd
  BY NodesRun, TypeCorrect, DecidedAfterEnd, PTL
<1> QED BY <1>1, <1>2, <1>3, PTL DEF SweepSpec

\* A sweep runs only while nothing is cached.
SweepUncached == sweep # NoSweep => cache = NoVerdict

LEMMA PhaseSweeps == sweep.phase \in {"tip", "votes"} => sweep # NoSweep
BY DEF NoSweep

LEMMA CacheStep ==
    ASSUME SweepUncached, [SweepNext]_<<vars, sweepVars>>
    PROVE  SweepUncached' /\ (cache' \in {cache, NoVerdict} \/ cache = NoVerdict)
<1> USE PhaseSweeps DEF SweepUncached
<1>1. CASE UNCHANGED sweepVars
  BY <1>1 DEF sweepVars
<1>2. ASSUME NEW n \in Nodes, ReadRows(n) \/ HearVotes(n) \/ MissVotes(n)
      PROVE  SweepUncached' /\ cache' = cache
  BY <1>2 DEF ReadRows, HearVotes, MissVotes
<1>3. ASSUME NEW s \in rows, JoinSweep(s) \/ AnswerCached(s) \/ Adopt(s) \/ StartSweep(s)
      PROVE  SweepUncached' /\ (cache' = cache \/ cache = NoVerdict)
  BY <1>3 DEF JoinSweep, AnswerCached, Adopt, StartSweep
<1>4. CASE SkipSweep \/ FetchVotes \/ FailSweep \/ Restart
  BY <1>4 DEF SkipSweep, FetchVotes, FailSweep, Restart
<1>5. CASE FinishSweep
  BY <1>5 DEF FinishSweep, CacheComputed, CacheVerdict
<1>6. ASSUME NEW n \in Nodes, NEW parts \in SUBSET ContextParts, HearContext(n, parts)
      PROVE  SweepUncached' /\ cache' = cache
  BY <1>6 DEF HearContext
<1> QED BY <1>1, <1>2, <1>3, <1>4, <1>5, <1>6, SweepSteps DEF Orchestrate

\* Adoption and sweeps never turn a cached verdict around: nothing is adopted
\* while a sweep is in flight, and no sweep starts with a verdict cached.
THEOREM CacheIsHeld == SweepSpec => CacheHeld
<1>1. SweepInit => SweepUncached
  BY DEF SweepInit, SweepUncached
<1>2. SweepUncached /\ [SweepNext]_<<vars, sweepVars>> => SweepUncached'
  BY CacheStep
<1>3. SweepUncached /\ [SweepNext]_<<vars, sweepVars>>
      => [cache' \in {cache, NoVerdict} \/ cache = NoVerdict]_<<vars, sweepVars>>
  BY CacheStep
<1> QED BY <1>1, <1>2, <1>3, PTL DEF SweepSpec, CacheHeld

----------------------------------------------------------------------------
(* Nodes that store the same records in time *)

\* The verdict of such nodes when espo answers every request.
Truth == TruthOf(Counted(tables[First]))

\* What may be adopted, cached and answered.
Right(v) == Justified(v, Truth, AllDoubts)

\* Adoption brings a verdict a node justified, a sweep hears the nodes' tables
\* or nothing of a part.
AgreeInv ==
    SameTables =>
        /\ \A s \in rows \cap Terminal : Right(s)
        /\ sweep.phase = "votes" =>
              /\ sweep.votes \subseteq {tables[First].votes}
              /\ sweep.members \subseteq {tables[First].members}
              /\ sweep.listed \subseteq {tables[First].listed}
        /\ cache # NoVerdict => Right(cache)
        /\ \A v \in answered : Right(v)

LEMMA MergeOfSame ==
    ASSUME NEW T, NEW heard \in SUBSET {T}, NEW v \in Merges(heard)
    PROVE  /\ heard = {} => v = {}
           /\ heard # {} => v = T
<1>1. CASE heard = {}
  BY <1>1 DEF Merges
<1>2. CASE heard = {T}
  BY <1>2 DEF Merges
<1> QED BY <1>1, <1>2

\* Fewer voters do not pass what more reject.
LEMMA FewerVoters ==
    ASSUME NEW V \in SUBSET Addresses, NEW U \in SUBSET V, TruthOf(U) = "passed"
    PROVE  TruthOf(V) = "passed"
<1>1. /\ Cardinality(V) \in Nat /\ Cardinality(U) \in Nat
      /\ Cardinality(U) <= Cardinality(V)
  BY Monotone
<1>2. Threshold[Supply] \in Nat
  BY VerdictAssumption
<1> QED BY <1>1, <1>2 DEF TruthOf, Verdict, Whole

\* If the members are those of T, and votes or listing those of T or missing,
\* nobody counts who does not in T.
LEMMA FewerCount ==
    ASSUME NEW T \in Table, NEW t \in Table, t.members = T.members,
           t.votes \subseteq T.votes, t.listed => T.listed
    PROVE  Counted(t) \subseteq Counted(T)
BY DEF Counted, Table

\* A sweep's verdict over nodes that all store T is justified by what was amiss
\* in the answers.
LEMMA SweepJustified ==
    ASSUME NEW T \in Table, sweep \in Sweep,
           sweep.votes \subseteq {T.votes}, sweep.members \subseteq {T.members},
           sweep.listed \subseteq {T.listed},
           sweep.voteWaits = {}, sweep.contextWaits = {},
           NEW t \in Merged, NEW r \in Readings(Counted(t))
    PROVE  Justified(SweepVerdict(r), TruthOf(Counted(T)),
                     SweepDoubts(SweepVerdict(r), Counted(t), r))
<1> DEFINE V == Counted(t)
           d == SweepDoubts(SweepVerdict(r), V, r)
<1>1. /\ t.votes \in Merges(sweep.votes)
      /\ t.members \in Merges(sweep.members)
      /\ t.listed = (TRUE \in sweep.listed)
  BY DEF Merged
<1>2. /\ sweep.votes = {} => t.votes = {}
      /\ sweep.votes # {} => t.votes = T.votes
      /\ sweep.members = {} => t.members = {}
      /\ sweep.members # {} => t.members = T.members
  <2>1. sweep.votes \in SUBSET {T.votes} /\ sweep.members \in SUBSET {T.members}
    OBVIOUS
  <2> QED BY <1>1, <2>1, MergeOfSame
<1>3. T.votes \in SUBSET Addresses /\ T.members \in SUBSET Addresses /\ T.listed \in BOOLEAN
  BY DEF Table
<1>4. t.listed <=> sweep.listed # {} /\ T.listed
  <2>1. t.listed <=> TRUE \in sweep.listed
    BY <1>1
  <2>2. CASE sweep.listed = {}
    BY <2>1, <2>2
  <2>3. CASE sweep.listed = {T.listed} /\ T.listed = TRUE
    BY <2>1, <2>3
  <2>4. CASE sweep.listed = {T.listed} /\ T.listed = FALSE
    BY <2>1, <2>4
  <2> QED BY <1>3, <2>2, <2>3, <2>4
<1>5. t \in Table
  <2>1. t = [votes |-> t.votes, members |-> t.members, listed |-> t.listed]
    BY DEF Merged
  <2>2. t.votes \in SUBSET Addresses /\ t.members \in SUBSET Addresses
    BY <1>2, <1>3
  <2>3. t.listed \in BOOLEAN
    BY <1>1
  <2> QED BY <2>1, <2>2, <2>3 DEF Table
<1>6. V \in SUBSET Addresses /\ Counted(T) \in SUBSET Addresses
  BY <1>5, CountedType
<1>7. CASE r.supply = 0
  BY <1>7 DEF SweepVerdict, SweepDoubts, Doubts, Justified
<1>8. CASE r.supply > 0
  <2>1. SweepVerdict(r) = Verdict(r)
    BY <1>8 DEF SweepVerdict
  <2>2. Justified(Verdict(r), TruthOf(V), DoubtsOf(Verdict(r), V, r))
    BY <1>6, ReadingJustified
  <2>3. DoubtsOf(Verdict(r), V, r) \subseteq d
    BY <2>1 DEF SweepDoubts
  <2>4. CASE sweep.members = {}
    <3>1. /\ Verdict(r) = "passed" => "lenient" \in d
          /\ Verdict(r) = "rejected" => "strict" \in d
      BY <2>1, <2>4 DEF SweepDoubts, Doubts
    <3> QED BY <2>1, <3>1, VerdictType DEF Justified
  <2>5. CASE sweep.members # {}
    <3>1. V \subseteq Counted(T)
      BY <1>2, <1>4, <1>5, <2>5, FewerCount
    <3>2. CASE Verdict(r) = "passed"
      <4>1. TruthOf(V) = "passed" \/ "lenient" \in d
        BY <2>2, <2>3, <3>2 DEF Justified
      <4>2. TruthOf(Counted(T)) = "passed" \/ "lenient" \in d
        BY <1>6, <3>1, <4>1, FewerVoters
      <4> QED BY <2>1, <3>2, <4>2 DEF Justified
    <3>3. CASE Verdict(r) = "rejected" /\ (sweep.votes = {} \/ sweep.listed = {})
      <4>1. "strict" \in d
        BY <2>1, <3>3 DEF SweepDoubts, Doubts
      <4> QED BY <2>1, <3>3, <4>1 DEF Justified
    <3>4. CASE sweep.votes # {} /\ sweep.listed # {}
      <4>1. V = Counted(T)
        BY <1>2, <1>4, <2>5, <3>4 DEF Counted
      <4> QED BY <2>1, <2>2, <2>3, <4>1 DEF Justified
    <3> QED BY <3>2, <3>3, <3>4, VerdictType
  <2> QED BY <2>4, <2>5
<1>9. r.supply \in Nat
  BY VerdictAssumption DEF Readings
<1> QED BY <1>7, <1>8, <1>9

\* What was amiss is not forgotten.
LEMMA DoubtsGrow ==
    ASSUME TypeOK, [SweepNext]_<<vars, sweepVars>>
    PROVE  AllDoubts \subseteq AllDoubts'
<1>1. swept \subseteq swept'
  BY SweepSteps
     DEF sweepVars, Orchestrate, ReadRows, HearVotes, MissVotes, HearContext, JoinSweep,
         AnswerCached, Adopt, StartSweep, SkipSweep, FetchVotes, FinishSweep, CacheComputed,
         FailSweep, Restart
<1>2. \A n \in Nodes : doubts[n] \subseteq doubts'[n]
  BY SweepSteps, StatusStep
<1> QED BY <1>1, <1>2 DEF AllDoubts

LEMMA AgreeStep ==
    ASSUME ~Late, TypeOK, SweepTypeOK, NoVerdictBeforeEnd, TablesDecide,
           CachedAfterEnd, RowsAfterEnd, AgreeInv, [SweepNext]_<<vars, sweepVars>>
    PROVE  AgreeInv'
<1>1. CASE ~Ended
  BY <1>1, EarlyStep DEF NothingKnown, AgreeInv
<1>2. CASE Ended
  <2>1. tables' = tables
    BY <1>2, TablesFixed, SweepSteps
  <2>2. (SameTables' <=> SameTables) /\ Truth' = Truth
    BY <2>1 DEF SameTables, Truth
  <2> SUFFICES ASSUME SameTables
               PROVE  AgreeInv'
    BY <2>2 DEF AgreeInv
  <2>3. \A n \in Nodes : tables[n] = tables[First]
    BY SweepAssumption DEF SameTables
  <2>4. \A v : Right(v) => Right(v)'
    <3>1. AllDoubts \subseteq AllDoubts'
      BY DoubtsGrow
    <3> QED BY <2>2, <3>1 DEF Right, Justified
  <2> HIDE DEF Right
  <2> USE <2>1, <2>4, PhaseSweeps DEF AgreeInv
  <2>5. CASE UNCHANGED sweepVars
    BY <2>5 DEF sweepVars
  <2>6. ASSUME NEW n \in Nodes, ReadRows(n)
        PROVE  AgreeInv'
    <3>1. \A s \in {status[n], "open"} \cap Terminal : Right(s)
      <4>1. status[n] # "open" => Justified(status[n], Truth, doubts[n])
        BY <2>3 DEF TablesDecide, Truth
      <4>2. doubts[n] \subseteq AllDoubts
        BY DEF AllDoubts
      <4> QED BY <4>1, <4>2 DEF Right, Justified, Terminal
    <3> QED BY <2>6, <3>1 DEF ReadRows
  <2>7. ASSUME NEW s \in rows, JoinSweep(s) \/ AnswerCached(s)
        PROVE  AgreeInv'
    BY <2>7 DEF JoinSweep, AnswerCached
  <2>8. ASSUME NEW s \in rows, Adopt(s)
        PROVE  AgreeInv'
    BY <2>8 DEF Adopt
  <2>9. ASSUME NEW s \in rows, StartSweep(s)
        PROVE  AgreeInv'
    BY <2>9 DEF StartSweep, Asking
  <2>10. ASSUME NEW n \in Nodes, HearVotes(n)
         PROVE  AgreeInv'
    <3>1. sweep \in Sweep
      BY <2>10 DEF HearVotes, NoSweep, SweepTypeOK
    <3>2. /\ sweep.phase = "votes"
          /\ sweep'.votes = sweep.votes \cup {tables[n].votes}
          /\ UNCHANGED <<sweep.members, sweep.listed>>
      BY <2>10, <3>1 DEF HearVotes, Sweep
    <3> QED BY <2>3, <2>10, <3>2 DEF HearVotes
  <2>11. ASSUME NEW n \in Nodes, MissVotes(n)
         PROVE  AgreeInv'
    <3>1. sweep \in Sweep
      BY <2>11 DEF MissVotes, NoSweep, SweepTypeOK
    <3>2. sweep.phase = "votes" /\ UNCHANGED <<sweep.votes, sweep.members, sweep.listed>>
      BY <2>11, <3>1 DEF MissVotes, Sweep
    <3> QED BY <2>11, <3>2 DEF MissVotes
  <2>12. ASSUME NEW n \in Nodes, NEW parts \in SUBSET ContextParts, HearContext(n, parts)
         PROVE  AgreeInv'
    <3>1. sweep \in Sweep
      BY <2>12 DEF HearContext, NoSweep, SweepTypeOK
    <3>2. /\ sweep.phase = "votes"
          /\ sweep'.votes = sweep.votes
          /\ sweep'.members \subseteq sweep.members \cup {tables[n].members}
          /\ sweep'.listed \subseteq sweep.listed \cup {tables[n].listed}
      BY <2>12, <3>1 DEF HearContext, Sweep
    <3> QED BY <2>3, <2>12, <3>2 DEF HearContext
  <2>13. CASE SkipSweep \/ FailSweep \/ Restart
    BY <2>13 DEF SkipSweep, FailSweep, Restart, NoSweep, Terminal
  <2>14. CASE FetchVotes
    BY <2>14 DEF FetchVotes, AskAll, Asking
  <2>15. CASE FinishSweep
    <3>1. PICK t \in Merged : \E r \in Readings(Counted(t)) :
              /\ CacheVerdict(SweepVerdict(r))
              /\ swept' = swept \cup SweepDoubts(SweepVerdict(r), Counted(t), r)
      BY <2>15 DEF FinishSweep, CacheComputed
    <3>2. PICK r \in Readings(Counted(t)) :
              /\ CacheVerdict(SweepVerdict(r))
              /\ swept' = swept \cup SweepDoubts(SweepVerdict(r), Counted(t), r)
      BY <3>1
    <3>3. /\ sweep \in Sweep /\ sweep.phase = "votes"
          /\ sweep.voteWaits = {} /\ sweep.contextWaits = {}
      BY <2>15 DEF FinishSweep, NoSweep, SweepTypeOK
    <3>4. tables[First] \in Table
      BY SweepAssumption, VerdictAssumption DEF TypeOK
    <3>5. Justified(SweepVerdict(r), Truth, SweepDoubts(SweepVerdict(r), Counted(t), r))
      BY <3>3, <3>4, SweepJustified DEF Truth
    <3>6. SweepDoubts(SweepVerdict(r), Counted(t), r) \subseteq AllDoubts'
      BY <3>2 DEF AllDoubts
    <3>7. Right(SweepVerdict(r))'
      BY <2>2, <3>2, <3>5, <3>6 DEF Right, Justified, CacheVerdict
    <3> QED BY <3>2, <3>7 DEF CacheVerdict, NoSweep
  <2> QED
    BY <2>5, <2>6, <2>7, <2>8, <2>9, <2>10, <2>11, <2>12, <2>13, <2>14, <2>15, SweepSteps
       DEF Orchestrate
<1> QED BY <1>1, <1>2

LEMMA AgreeAlways ==
    ASSUME ~Late
    PROVE  SweepSpec => []AgreeInv
<1>1. SweepInit => AgreeInv
  BY DEF SweepInit, AgreeInv, NoSweep
<1>2. TypeOK /\ SweepTypeOK /\ NoVerdictBeforeEnd /\ TablesDecide /\ CachedAfterEnd
          /\ RowsAfterEnd /\ AgreeInv /\ [SweepNext]_<<vars, sweepVars>>
      => AgreeInv'
  BY AgreeStep
<1>3. Spec => []TablesDecide
  BY VerdictOfTables
<1>4. SweepSpec => []TypeOK /\ []NoVerdictBeforeEnd /\ []TablesDecide
  BY <1>3, NodesRun, TypeCorrect, DecidedAfterEnd, PTL
<1> QED BY <1>1, <1>2, <1>4, SweepTypeCorrect, CacheAfterEnd, PTL DEF SweepSpec

\* If records arrive in time and the nodes store the same ones, the orchestrator
\* holds the verdict of any node, or the one that passed rests on an answer that
\* was amiss in its favour, or the one that rejected on one amiss in its.
THEOREM CacheIsTheirs ==
    ASSUME ~Late
    PROVE  SweepSpec => []CacheAgrees
<1>1. TablesDecide /\ AgreeInv => CacheAgrees
  <2> SUFFICES ASSUME TablesDecide, AgreeInv, SameTables, NEW n \in Nodes
               PROVE  Consistent(cache, AllDoubts, status[n], doubts[n])
    BY DEF CacheAgrees
  <2>1. CASE cache = NoVerdict \/ status[n] = "open"
    BY <2>1 DEF Consistent, NoVerdict
  <2>2. CASE cache # NoVerdict /\ status[n] # "open"
    <3>1. Justified(cache, Truth, AllDoubts)
      BY <2>2 DEF AgreeInv, Right
    <3>2. tables[n] = tables[First]
      BY SweepAssumption DEF SameTables
    <3>3. Justified(status[n], Truth, doubts[n])
      BY <2>2, <3>2 DEF TablesDecide, Truth
    <3>4. Truth \in {"passed", "rejected"}
      BY TruthType DEF Truth
    <3> QED BY <3>1, <3>3, <3>4, JustifiedConsistent
  <2> QED BY <2>1, <2>2
<1>2. Spec => []TablesDecide
  BY VerdictOfTables
<1> QED BY <1>1, <1>2, NodesRun, AgreeAlways, PTL

\* And if no answer was amiss, visitors are told one verdict, however often it is
\* computed.
THEOREM OneIsAnswered ==
    ASSUME ~Late
    PROVE  SweepSpec => []OneAnswer
<1>1. AgreeInv => OneAnswer
  <2> SUFFICES ASSUME AgreeInv, SameTables, AllDoubts = {}
               PROVE  Cardinality(answered) <= 1
    BY DEF OneAnswer
  <2>1. answered \subseteq {Truth}
    BY DEF AgreeInv, Right, Justified
  <2>2. answered = {} \/ answered = {Truth}
    BY <2>1
  <2>3. Cardinality({}) = 0 /\ Cardinality({Truth}) = 1
    BY FS_EmptySet, FS_Singleton
  <2> QED BY <2>2, <2>3
<1> QED BY <1>1, AgreeAlways, PTL

============================================================================
