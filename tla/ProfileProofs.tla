--------------------------- MODULE ProfileProofs ---------------------------
(***************************************************************************)
(* What Profiles guarantees for any number of nodes and updates, whatever  *)
(* is lost and however handlers overlap: a node keeps the greatest update  *)
(* it acknowledged, never goes back, and is behind another node only if it *)
(* missed an update itself.                                                *)
(***************************************************************************)
EXTENDS Profiles, TLAPS

----------------------------------------------------------------------------
(* Nonces are strictly and totally ordered. *)

LEMMA BeatsTransitive ==
    ASSUME NEW a \in Nonce, NEW b \in Nonce, NEW c \in Nonce, Beats(a, b), Beats(b, c)
    PROVE  Beats(a, c)
BY DEF Beats, Nonce

LEMMA BeatsTotal ==
    ASSUME NEW a \in Nonce, NEW b \in Nonce
    PROVE  Covers(a, b) \/ Beats(b, a)
BY DEF Beats, Covers, Nonce

LEMMA CoversTransitive ==
    ASSUME NEW a \in Nonce, NEW b \in Nonce, NEW c \in Nonce, Covers(a, b), Covers(b, c)
    PROVE  Covers(a, c)
BY BeatsTransitive DEF Covers

----------------------------------------------------------------------------
(* Types *)

LEMMA TypeStep ==
    ASSUME TypeOK, [Next]_vars
    PROVE  TypeOK'
<1> USE ProfileAssumption
<1>1. CASE Mine
  <2>1. tip \in 0..MaxTip /\ tip' \in 0..MaxTip
    BY <1>1 DEF Mine, TypeOK
  <2> QED BY <1>1, <2>1 DEF Mine, TypeOK, createVars, updateVars
<1>2. ASSUME NEW targets \in SUBSET Nodes, Create(targets)
      PROVE  TypeOK'
  BY <1>2 DEF Create, TypeOK, updateVars
<1>3. ASSUME NEW u \in Updates, NEW targets \in SUBSET Nodes, PublishUpdate(u, targets)
      PROVE  TypeOK'
  <2>1. PostUpdate(targets, u) \subseteq UpdateMsg
    BY DEF PostUpdate, UpdateMsg
  <2>2. posts' \in 0..MaxPosts
    BY <1>3 DEF PublishUpdate, TypeOK
  <2> QED BY <1>3, <2>1, <2>2 DEF PublishUpdate, TypeOK, createVars
<1>4. ASSUME NEW n \in Nodes, DropCreate(n)
      PROVE  TypeOK'
  BY <1>4 DEF DropCreate, TypeOK, updateVars
<1>5. ASSUME NEW n \in Nodes, StartCreate(n)
      PROVE  TypeOK'
  <2>1. [at |-> n, asked |-> tip, tipChecked |-> FALSE] \in Creating
    BY DEF TypeOK, Creating
  <2> QED BY <1>5, <2>1 DEF StartCreate, TypeOK, updateVars
<1>6. ASSUME NEW h \in creating, CheckCreateTip(h)
      PROVE  TypeOK'
  <2>1. h \in Creating /\ [h EXCEPT !.tipChecked = TRUE] \in Creating
    BY DEF TypeOK, Creating
  <2> QED BY <1>6, <2>1 DEF CheckCreateTip, TypeOK, updateVars
<1>7. ASSUME NEW h \in creating, InsertCreate(h)
      PROVE  TypeOK'
  BY <1>7 DEF InsertCreate, TypeOK, Creating, updateVars
<1>8. ASSUME NEW h \in creating, FailCreate(h)
      PROVE  TypeOK'
  BY <1>8 DEF FailCreate, TypeOK, updateVars
<1>9. ASSUME NEW m \in updateMsgs, DropUpdate(m)
      PROVE  TypeOK'
  BY <1>9 DEF DropUpdate, Miss, TypeOK, UpdateMsg, createVars
<1>10. ASSUME NEW m \in updateMsgs, StartUpdate(m)
       PROVE  TypeOK'
  BY <1>10 DEF StartUpdate, TypeOK, UpdateMsg, Updating, createVars
<1>11. ASSUME NEW h \in updating
       PROVE  h.at \in Nodes /\ h.update \in Updates /\ PostUpdate(Nodes \ {h.at}, h.update) \subseteq UpdateMsg
  BY DEF TypeOK, Updating, PostUpdate, UpdateMsg
<1>12. ASSUME NEW h \in updating, ApplyUpdate(h)
       PROVE  TypeOK'
  BY <1>11, <1>12 DEF ApplyUpdate, Ack, EndUpdate, TypeOK, createVars
<1>13. ASSUME NEW h \in updating, KeepUpdate(h)
       PROVE  TypeOK'
  BY <1>11, <1>13 DEF KeepUpdate, Ack, EndUpdate, TypeOK, createVars
<1>14. ASSUME NEW h \in updating, RefuseUpdate(h)
       PROVE  TypeOK'
  BY <1>11, <1>14 DEF RefuseUpdate, Miss, EndUpdate, TypeOK, createVars
<1>15. ASSUME NEW n \in Nodes, Crash(n)
       PROVE  TypeOK'
  <2>1. {h.update : h \in updating \ updating'} \subseteq Updates
    BY DEF TypeOK, Updating
  <2> QED BY <1>15, <2>1 DEF Crash, TypeOK
<1>16. CASE UNCHANGED vars
  BY <1>16 DEF vars, createVars, updateVars, TypeOK
<1> QED
  BY <1>1, <1>2, <1>3, <1>4, <1>5, <1>6, <1>7, <1>8, <1>9, <1>10, <1>12, <1>13, <1>14,
     <1>15, <1>16
     DEF Next, Progress

\* Every variable keeps its type.
THEOREM TypeCorrect == Spec => []TypeOK
<1>1. Init => TypeOK
  BY ProfileAssumption DEF Init, TypeOK
<1>2. TypeOK /\ [Next]_vars => TypeOK'
  BY TypeStep
<1> QED BY <1>1, <1>2, PTL DEF Spec

----------------------------------------------------------------------------
(* The greatest acknowledged update *)

\* All but two kinds of steps leave rows and answers alone.
LEMMA RowSteps ==
    ASSUME [Next]_vars
    PROVE  \/ UNCHANGED <<profile, acked>>
           \/ \E h \in updating : ApplyUpdate(h)
           \/ \E h \in updating : KeepUpdate(h)
BY DEF Next, vars, updateVars, Progress, Mine, Create, PublishUpdate, DropCreate, StartCreate,
       CheckCreateTip, InsertCreate, FailCreate, DropUpdate, StartUpdate, RefuseUpdate, Crash

\* What node n keeps is the greatest of what it acknowledged.
GreatestAt(n) ==
    IF acked[n] = {}
      THEN profile[n] = NoUpdate
      ELSE profile[n] \in acked[n] /\ \A u \in acked[n] : Covers(profile[n], u)

LEMMA GreatestStep ==
    ASSUME TypeOK, GreatestKept, [Next]_vars
    PROVE  GreatestKept'
<1>1. CASE UNCHANGED <<profile, acked>>
  BY <1>1 DEF GreatestKept
<1>2. ASSUME NEW h \in updating
      PROVE  h.at \in Nodes /\ h.update \in Updates /\ h.update # NoUpdate
  BY ProfileAssumption DEF TypeOK, Updating
<1>3. ASSUME NEW h \in updating, ApplyUpdate(h), NEW n \in Nodes
      PROVE  GreatestAt(n)'
  <2>1. CASE n # h.at
    BY <1>2, <1>3, <2>1 DEF ApplyUpdate, Ack, TypeOK, GreatestKept, GreatestAt
  <2>2. CASE n = h.at
    <3>1. profile'[n] = h.update /\ acked'[n] = acked[n] \cup {h.update}
      BY <1>2, <1>3, <2>2 DEF ApplyUpdate, Ack, TypeOK
    <3>2. ASSUME NEW u \in acked[n]
          PROVE  Covers(h.update, u)
      <4>1. profile[n] \in Updates /\ u \in Updates /\ h.update \in Updates
        BY <1>2, <3>2 DEF GreatestKept, TypeOK
      <4>2. Covers(profile[n], u) /\ profile[n] # NoUpdate
        BY <3>2, <4>1, ProfileAssumption DEF GreatestKept
      <4>3. Covers(h.update, profile[n])
        BY <1>3, <2>2, <4>2 DEF ApplyUpdate, Newer, Covers
      <4> QED BY <4>1, <4>2, <4>3, CoversTransitive, ProfileAssumption
    <3> QED BY <3>1, <3>2 DEF GreatestAt, Covers
  <2> QED BY <2>1, <2>2
<1>4. ASSUME NEW h \in updating, KeepUpdate(h), NEW n \in Nodes
      PROVE  GreatestAt(n)'
  <2>1. CASE n # h.at
    BY <1>2, <1>4, <2>1 DEF KeepUpdate, Ack, TypeOK, GreatestKept, GreatestAt
  <2>2. CASE n = h.at
    <3>1. profile'[n] = profile[n] /\ acked'[n] = acked[n] \cup {h.update}
      BY <1>2, <1>4, <2>2 DEF KeepUpdate, Ack, TypeOK
    <3>2. profile[n] # NoUpdate /\ ~Beats(h.update, profile[n])
      BY <1>4, <2>2 DEF KeepUpdate, Newer
    <3>3. profile[n] \in Updates
      BY <3>2 DEF TypeOK
    <3>4. Covers(profile[n], h.update)
      BY <1>2, <3>2, <3>3, BeatsTotal, ProfileAssumption
    <3> QED BY <3>1, <3>2, <3>4 DEF GreatestKept, GreatestAt
  <2> QED BY <2>1, <2>2
<1> QED BY <1>1, <1>3, <1>4, RowSteps DEF GreatestKept, GreatestAt

\* Every node keeps the greatest update it acknowledged, in whatever order
\* they came: routes.ts compares after the wait, in the turn that writes.
THEOREM GreatestIsKept == Spec => []GreatestKept
<1>1. Init => GreatestKept
  BY DEF Init, GreatestKept
<1>2. TypeOK /\ GreatestKept /\ [Next]_vars => GreatestKept'
  BY GreatestStep
<1> QED BY <1>1, <1>2, TypeCorrect, PTL DEF Spec

\* applyDelegatorUpdate never takes a profile back to an older nonce.
THEOREM NeverBack == Spec => ProfileForward
<1>1. TypeOK /\ [Next]_vars
      => [\A n \in Nodes : profile'[n] # profile[n]
             => profile[n] = NoUpdate \/ Beats(profile'[n], profile[n])]_vars
  <2> SUFFICES ASSUME TypeOK, [Next]_vars, NEW n \in Nodes, profile'[n] # profile[n]
               PROVE  profile[n] = NoUpdate \/ Beats(profile'[n], profile[n])
    OBVIOUS
  <2>1. PICK h \in updating : ApplyUpdate(h)
    BY RowSteps DEF KeepUpdate
  <2>2. h.at = n /\ profile'[n] = h.update
    BY <2>1 DEF ApplyUpdate, TypeOK, Updating
  <2> QED BY <2>1, <2>2 DEF ApplyUpdate, Newer
<1> QED BY <1>1, TypeCorrect, PTL DEF Spec, ProfileForward

----------------------------------------------------------------------------
(* Behind only if missed *)

\* Node n keeps, or will be told, or missed, something as new as u.
Reaches(n, u) ==
    \/ profile[n] # NoUpdate /\ Covers(profile[n], u)
    \/ \E w \in missed[n] : Covers(w, u)
    \/ \E m \in updateMsgs : m.to = n /\ Covers(m.update, u)
    \/ \E h \in updating : h.at = n /\ Covers(h.update, u)

Spreading ==
    \A m, n \in Nodes : profile[m] # NoUpdate => Reaches(n, profile[m])

\* Once on its way to n, an update or a newer one stays so.
LEMMA ReachKept ==
    ASSUME TypeOK, [Next]_vars, NEW n \in Nodes, NEW u \in Updates, Reaches(n, u)
    PROVE  Reaches(n, u)'
<1>1. CASE /\ UNCHANGED <<profile, missed, updating>>
           /\ updateMsgs \subseteq updateMsgs'
  BY <1>1 DEF Reaches
<1>2. ASSUME NEW m \in updateMsgs, DropUpdate(m)
      PROVE  Reaches(n, u)'
  BY <1>2 DEF DropUpdate, Miss, Reaches, TypeOK, UpdateMsg
<1>3. ASSUME NEW m \in updateMsgs, StartUpdate(m)
      PROVE  Reaches(n, u)'
  <2> DEFINE d == [at |-> m.to, update |-> m.update, asked |-> tip]
  <2>1. d.at = m.to /\ d.update = m.update /\ updating' = updating \cup {d}
    BY <1>3 DEF StartUpdate
  <2> HIDE DEF d
  <2> QED BY <1>3, <2>1 DEF StartUpdate, Reaches
<1>4. ASSUME NEW h \in updating, ApplyUpdate(h)
      PROVE  Reaches(n, u)'
  <2>1. h.at \in Nodes /\ h.update \in Updates /\ h.update # NoUpdate
    BY ProfileAssumption DEF TypeOK, Updating
  <2>2. CASE n # h.at
    BY <1>4, <2>1, <2>2 DEF ApplyUpdate, EndUpdate, Reaches, TypeOK
  <2>3. CASE n = h.at
    <3>1. profile'[n] = h.update /\ missed' = missed
      BY <1>4, <2>1, <2>3 DEF ApplyUpdate, TypeOK
    <3>2. CASE profile[n] # NoUpdate /\ Covers(profile[n], u)
      <4>1. profile[n] \in Updates /\ Covers(h.update, profile[n])
        BY <1>4, <2>3, <3>2 DEF ApplyUpdate, Newer, Covers, TypeOK
      <4>2. Covers(h.update, u)
        BY <2>1, <3>2, <4>1, CoversTransitive, ProfileAssumption
      <4> QED BY <2>1, <3>1, <4>2 DEF Reaches
    <3>3. CASE Covers(h.update, u)
      BY <2>1, <3>1, <3>3 DEF Reaches
    <3>4. CASE \/ \E w \in missed[n] : Covers(w, u)
               \/ \E m \in updateMsgs : m.to = n /\ Covers(m.update, u)
               \/ \E g \in updating \ {h} : g.at = n /\ Covers(g.update, u)
      BY <1>4, <3>1, <3>4 DEF ApplyUpdate, EndUpdate, Reaches
    <3> QED BY <3>2, <3>3, <3>4 DEF Reaches
  <2> QED BY <2>2, <2>3
<1>5. ASSUME NEW h \in updating, KeepUpdate(h)
      PROVE  Reaches(n, u)'
  <2>1. h.at \in Nodes /\ h.update \in Updates
    BY DEF TypeOK, Updating
  <2>2. CASE h.at = n /\ Covers(h.update, u)
    <3>1. profile[n] # NoUpdate /\ ~Beats(h.update, profile[n])
      BY <1>5, <2>2 DEF KeepUpdate, Newer
    <3>2. profile[n] \in Updates
      BY <3>1 DEF TypeOK
    <3>3. Covers(profile[n], h.update)
      BY <2>1, <3>1, <3>2, BeatsTotal, ProfileAssumption
    <3>4. Covers(profile[n], u)
      BY <2>1, <2>2, <3>2, <3>3, CoversTransitive, ProfileAssumption
    <3> QED BY <1>5, <3>1, <3>4 DEF KeepUpdate, Reaches
  <2>3. CASE ~(h.at = n /\ Covers(h.update, u))
    BY <1>5, <2>3 DEF KeepUpdate, EndUpdate, Reaches
  <2> QED BY <2>2, <2>3
<1>6. ASSUME NEW h \in updating, RefuseUpdate(h)
      PROVE  Reaches(n, u)'
  BY <1>6 DEF RefuseUpdate, Miss, EndUpdate, Reaches, TypeOK, Updating
<1>7. ASSUME NEW k \in Nodes, Crash(k)
      PROVE  Reaches(n, u)'
  <2>1. ASSUME NEW h \in updating, h.at = n, Covers(h.update, u)
        PROVE  Reaches(n, u)'
    <3>1. CASE h \in updating'
      BY <2>1, <3>1 DEF Reaches
    <3>2. CASE h \notin updating'
      BY <1>7, <2>1, <3>2 DEF Crash, Reaches, TypeOK
    <3> QED BY <3>1, <3>2
  <2>2. \A w \in missed[n] : w \in missed'[n]
    BY <1>7 DEF Crash, TypeOK
  <2>3. profile' = profile /\ updateMsgs' = updateMsgs
    BY <1>7 DEF Crash
  <2> QED BY <2>1, <2>2, <2>3 DEF Reaches
<1> QED
  BY <1>1, <1>2, <1>3, <1>4, <1>5, <1>6, <1>7
     DEF Next, vars, updateVars, Progress, Mine, Create, PublishUpdate, DropCreate, StartCreate,
         CheckCreateTip, InsertCreate, FailCreate

LEMMA SpreadingStep ==
    ASSUME TypeOK, Spreading, [Next]_vars
    PROVE  Spreading'
<1> SUFFICES ASSUME NEW m \in Nodes, NEW n \in Nodes, profile'[m] # NoUpdate
             PROVE  Reaches(n, profile[m])'
  BY DEF Spreading
<1>1. CASE profile'[m] = profile[m]
  <2>1. profile[m] \in Updates
    BY <1>1 DEF TypeOK
  <2>2. Reaches(n, profile[m])
    BY <1>1 DEF Spreading
  <2> DEFINE u == profile[m]
  <2>3. u \in Updates /\ Reaches(n, u) /\ profile'[m] = u
    BY <1>1, <2>1, <2>2
  <2> HIDE DEF u
  <2>4. PICK v \in Updates : v = u
    BY <2>3
  <2>5. Reaches(n, v)'
    BY <2>3, <2>4, ReachKept
  <2> QED BY <2>3, <2>4, <2>5 DEF Reaches
<1>2. CASE profile'[m] # profile[m]
  <2>1. PICK h \in updating : ApplyUpdate(h)
    BY <1>2, RowSteps DEF KeepUpdate
  <2>2. h.at = m /\ h.update \in Updates /\ profile'[m] = h.update
    BY <1>2, <2>1 DEF ApplyUpdate, TypeOK, Updating
  <2>3. CASE n = m
    BY <2>3 DEF Reaches, Covers
  <2>4. CASE n # m
    <3>1. [to |-> n, update |-> h.update] \in updateMsgs'
      BY <2>1, <2>2, <2>4 DEF ApplyUpdate, PostUpdate
    <3> QED BY <2>2, <3>1 DEF Reaches, Covers
  <2> QED BY <2>3, <2>4
<1> QED BY <1>1, <1>2

\* A node at rest is behind another only if it missed an update itself.
THEOREM BehindMeansMissed == Spec => []BehindOnlyIfMissed
<1>1. Init => Spreading
  BY DEF Init, Spreading
<1>2. TypeOK /\ Spreading /\ [Next]_vars => Spreading'
  BY SpreadingStep
<1>3. Spreading => BehindOnlyIfMissed
  BY DEF Spreading, Reaches, BehindOnlyIfMissed, Quiet
<1> QED BY <1>1, <1>2, <1>3, TypeCorrect, PTL DEF Spec

=============================================================================
