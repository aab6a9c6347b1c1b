---------------------------- MODULE PowerProofs ----------------------------
(***************************************************************************)
(* What VotingPower guarantees for any holders, positions and thresholds:  *)
(* whoever asks for a share of the supply is told the same, and a claim    *)
(* moves no share.  Both are about sums over holders and positions, so     *)
(* the first lemmas are about those.                                       *)
(***************************************************************************)
EXTENDS VotingPower, Inductions

----------------------------------------------------------------------------
(* Sums *)

Chosen(s) == CHOOSE x \in s : TRUE

\* One step of the recursion that MapThenFoldSet makes.
SumStep(f, g, s) == IF s = {} THEN 0 ELSE f[Chosen(s)] + g[s \ {Chosen(s)}]

\* g gives every part s of D the sum of f over s.
Adds(f, g, D) == \A s \in SUBSET D : g[s] = SumStep(f, g, s)

\* What Total computes.
LEMMA TotalAdds ==
    ASSUME NEW f, IsFiniteSet(DOMAIN f), \A x \in DOMAIN f : f[x] \in Nat
    PROVE  \E g : Adds(f, g, DOMAIN f) /\ Total(f) = g[DOMAIN f]
<1> DEFINE D == DOMAIN f
           g == CHOOSE h : h = [s \in SUBSET D |-> SumStep(f, h, s)]
           Pick == [s \in SUBSET D |-> Chosen(s)]
           Step == [p \in (SUBSET D) \X Nat |-> IF p[1] = {} THEN 0 ELSE f[Pick[p[1]]] + p[2]]
<1>1. Total(f) = g[D]
  BY DEF Total, MapThenSumSet, MapThenFoldSet, SumStep, Chosen
<1>2. Picks(Pick, D)
  BY DEF Picks, Chosen
<1>3. Step \in [(SUBSET D) \X Nat -> Nat]
  <2> HIDE DEF Pick
  <2> QED BY <1>2 DEF Picks
<1>4. PICK h \in [SUBSET D -> Nat] : Folds(h, D, Pick, 0, Step)
  <2> DEFINE base == 0
  <2>1. IsFiniteSet(D) /\ base \in Nat
    OBVIOUS
  <2> HIDE DEF D, Pick, Step, base
  <2>2. \E h \in [SUBSET D -> Nat] : Folds(h, D, Pick, base, Step)
    BY <1>2, <1>3, <2>1, FoldExists
  <2> QED BY <2>2 DEF base
<1>5. ASSUME NEW s \in SUBSET D
      PROVE  h[s] = SumStep(f, h, s)
  <2>1. h[s] = IF s = {} THEN 0 ELSE Step[<<s, h[s \ {Pick[s]}]>>]
    <3> HIDE DEF D, Pick, Step
    <3> QED BY <1>4 DEF Folds
  <2>2. h[s \ {Pick[s]}] \in Nat /\ Pick[s] = Chosen(s)
    OBVIOUS
  <2> QED BY <2>1, <2>2 DEF SumStep
<1>6. h = [s \in SUBSET D |-> SumStep(f, h, s)]
  <2> HIDE DEF D
  <2> QED BY <1>5
<1> HIDE DEF Pick, Step
<1>7. g = [s \in SUBSET D |-> SumStep(f, g, s)]
  BY <1>6
<1> HIDE DEF g
<1>8. Adds(f, g, D)
  BY <1>7 DEF Adds
<1> QED BY <1>1, <1>8

LEMMA AddsNat ==
    ASSUME NEW f, NEW D, NEW g, IsFiniteSet(D), Adds(f, g, D), \A x \in D : f[x] \in Nat
    PROVE  \A T \in SUBSET D : g[T] \in Nat
<1> DEFINE Good == {T \in SUBSET D : g[T] \in Nat}
<1>1. ASSUME NEW T \in SUBSET D, \A x \in T : T \ {x} \in Good
      PROVE  T \in Good
  <2>1. g[T] = SumStep(f, g, T)
    BY DEF Adds
  <2>2. T # {} => Chosen(T) \in T
    BY DEF Chosen
  <2>3. SumStep(f, g, T) \in Nat
    BY <1>1, <2>2 DEF SumStep
  <2> QED BY <2>1, <2>3
<1>2. SUBSET D \subseteq Good
  <2> HIDE DEF Good
  <2> QED BY <1>1, FiniteDescent
<1> QED BY <1>2

\* It does not matter which element is added first ...
LEMMA AddsAny ==
    ASSUME NEW f, NEW D, NEW g, IsFiniteSet(D), Adds(f, g, D), \A x \in D : f[x] \in Nat
    PROVE  \A T \in SUBSET D : \A y \in T : g[T] = f[y] + g[T \ {y}]
<1> DEFINE Good == {T \in SUBSET D : \A y \in T : g[T] = f[y] + g[T \ {y}]}
<1>0. \A T \in SUBSET D : g[T] \in Nat
  BY AddsNat
<1>1. ASSUME NEW T \in SUBSET D, \A x \in T : T \ {x} \in Good, NEW y \in T
      PROVE  g[T] = f[y] + g[T \ {y}]
  <2> DEFINE x == Chosen(T)
  <2>1. x \in T /\ g[T] = f[x] + g[T \ {x}]
    BY DEF Adds, SumStep, Chosen
  <2> HIDE DEF x
  <2>2. CASE y # x
    <3> DEFINE rest == g[(T \ {x}) \ {y}]
    <3>1. (T \ {x}) \ {y} = (T \ {y}) \ {x} /\ (T \ {x}) \ {y} \in SUBSET D
      OBVIOUS
    <3>2. g[T \ {x}] = f[y] + rest /\ g[T \ {y}] = f[x] + rest
      BY <1>1, <2>1, <2>2, <3>1
    <3>3. f[x] \in Nat /\ f[y] \in Nat /\ rest \in Nat
      BY <1>0, <2>1, <3>1
    <3> HIDE DEF rest
    <3> QED BY <2>1, <3>2, <3>3
  <2> QED BY <2>1, <2>2
<1>2. SUBSET D \subseteq Good
  <2>1. ASSUME NEW T \in SUBSET D, \A x \in T : T \ {x} \in Good
        PROVE  T \in Good
    BY <1>1, <2>1
  <2> HIDE DEF Good
  <2> QED BY <2>1, FiniteDescent
<1> QED BY <1>2

\* ... nor what the function is elsewhere.
LEMMA AddsSame ==
    ASSUME NEW f, NEW D, NEW g, Adds(f, g, D), NEW e, NEW C, NEW h, Adds(e, h, C),
           IsFiniteSet(D), D \subseteq C, \A x \in D : e[x] = f[x]
    PROVE  g[D] = h[D]
<1> DEFINE Good == {T \in SUBSET D : g[T] = h[T]}
<1>1. ASSUME NEW T \in SUBSET D, \A x \in T : T \ {x} \in Good
      PROVE  T \in Good
  <2>1. g[T] = SumStep(f, g, T) /\ h[T] = SumStep(e, h, T)
    BY DEF Adds
  <2>2. T # {} => Chosen(T) \in T
    BY DEF Chosen
  <2>3. SumStep(f, g, T) = SumStep(e, h, T)
    BY <1>1, <2>2 DEF SumStep
  <2> QED BY <2>1, <2>3
<1>2. SUBSET D \subseteq Good
  <2> HIDE DEF Good
  <2> QED BY <1>1, FiniteDescent
<1> QED BY <1>2

----------------------------------------------------------------------------
(* Sums over a part *)

\* The sum of f over the part T of its domain.
Over(f, T) == Total([x \in T |-> f[x]])

LEMMA SumEmpty == \A f : Over(f, {}) = 0
<1> TAKE f
<1> DEFINE e == [x \in {} |-> f[x]]
<1>1. DOMAIN e = {}
  OBVIOUS
<1> HIDE DEF e
<1>2. \E g : Adds(e, g, {}) /\ Total(e) = g[{}]
  BY <1>1, TotalAdds, FS_EmptySet
<1>3. Total(e) = 0
  BY <1>2 DEF Adds, SumStep
<1> QED BY <1>3 DEF Over, e

LEMMA SumType ==
    ASSUME NEW f, NEW T, IsFiniteSet(T), \A x \in T : f[x] \in Nat
    PROVE  Over(f, T) \in Nat
<1> DEFINE e == [x \in T |-> f[x]]
<1>1. DOMAIN e = T /\ \A x \in T : e[x] \in Nat
  OBVIOUS
<1> HIDE DEF e
<1>2. PICK g : Adds(e, g, T) /\ Total(e) = g[T]
  BY <1>1, TotalAdds
<1>3. Total(e) \in Nat
  BY <1>1, <1>2, AddsNat
<1> QED BY <1>3 DEF Over, e

\* The sum over a part with y is the sum without y and what y has.
LEMMA SumRemove ==
    ASSUME NEW f, NEW T, IsFiniteSet(T), \A x \in T : f[x] \in Nat, NEW y \in T
    PROVE  Over(f, T) = f[y] + Over(f, T \ {y})
<1> DEFINE U == T \ {y}
           e == [x \in T |-> f[x]]
           d == [x \in U |-> f[x]]
<1>1. DOMAIN e = T /\ DOMAIN d = U /\ \A x \in T : e[x] = f[x]
  OBVIOUS
<1>2. \A x \in U : e[x] = d[x] /\ d[x] \in Nat
  OBVIOUS
<1>3. IsFiniteSet(U) /\ U \subseteq T
  BY FS_RemoveElement
<1> HIDE DEF U, e, d
<1>4. PICK g : Adds(e, g, T) /\ Total(e) = g[T]
  BY <1>1, TotalAdds
<1>5. PICK h : Adds(d, h, U) /\ Total(d) = h[U]
  BY <1>1, <1>2, <1>3, TotalAdds
<1>6. h[U] = g[U]
  BY <1>2, <1>3, <1>4, <1>5, AddsSame
<1>7. g[T] = e[y] + g[T \ {y}]
  BY <1>1, <1>4, AddsAny
<1> QED BY <1>1, <1>4, <1>5, <1>6, <1>7 DEF Over, U, e, d

LEMMA SumAdd ==
    ASSUME NEW f, NEW T, IsFiniteSet(T), NEW y, y \notin T, \A x \in T \cup {y} : f[x] \in Nat
    PROVE  Over(f, T \cup {y}) = f[y] + Over(f, T)
<1>1. IsFiniteSet(T \cup {y}) /\ (T \cup {y}) \ {y} = T
  BY FS_AddElement
<1> QED BY <1>1, SumRemove

\* Sums of functions that agree.
LEMMA SumSame ==
    ASSUME NEW f, NEW g, NEW T, \A x \in T : f[x] = g[x]
    PROVE  Over(f, T) = Over(g, T)
<1>1. [x \in T |-> f[x]] = [x \in T |-> g[x]]
  OBVIOUS
<1> QED BY <1>1 DEF Over

LEMMA SumOfZeros ==
    ASSUME NEW f, NEW T, IsFiniteSet(T), \A x \in T : f[x] = 0
    PROVE  Over(f, T) = 0
<1> DEFINE Good == {U \in SUBSET T : Over(f, U) = 0}
<1>1. {} \in Good
  BY SumEmpty
<1>2. ASSUME NEW U \in (SUBSET T) \cap Good, NEW x \in T \ U
      PROVE  U \cup {x} \in Good
  <2>1. IsFiniteSet(U)
    BY FS_Subset
  <2>2. Over(f, U \cup {x}) = f[x] + Over(f, U)
    BY <2>1, SumAdd
  <2> QED BY <2>2
<1> HIDE DEF Good
<1>3. T \in Good
  BY <1>1, <1>2, FiniteGrowth
<1> QED BY <1>3 DEF Good

\* Sums of functions that differ at y only.
LEMMA SumDiffer ==
    ASSUME NEW f, NEW g, NEW T, IsFiniteSet(T), NEW y \in T,
           \A x \in T : f[x] \in Nat /\ g[x] \in Nat,
           \A x \in T \ {y} : f[x] = g[x]
    PROVE  Over(f, T) + g[y] = Over(g, T) + f[y]
<1> DEFINE U == T \ {y}
<1>1. Over(f, U) = Over(g, U)
  BY SumSame
<1>2. IsFiniteSet(U)
  BY FS_RemoveElement
<1>3. Over(f, U) \in Nat
  BY <1>2, SumType
<1>4. Over(f, T) = f[y] + Over(f, U) /\ Over(g, T) = g[y] + Over(g, U)
  BY SumRemove
<1> HIDE DEF U
<1> QED BY <1>1, <1>3, <1>4

LEMMA SumPlus ==
    ASSUME NEW f, NEW g, NEW h, NEW T, IsFiniteSet(T),
           \A x \in T : f[x] \in Nat /\ g[x] \in Nat /\ h[x] = f[x] + g[x]
    PROVE  Over(h, T) = Over(f, T) + Over(g, T)
<1> DEFINE Good == {U \in SUBSET T : Over(h, U) = Over(f, U) + Over(g, U)}
<1>1. {} \in Good
  BY SumEmpty
<1>2. ASSUME NEW U \in (SUBSET T) \cap Good, NEW x \in T \ U
      PROVE  U \cup {x} \in Good
  <2>1. IsFiniteSet(U)
    BY FS_Subset
  <2>2. Over(f, U) \in Nat /\ Over(g, U) \in Nat
    BY <2>1, SumType
  <2>3. \A y \in T : h[y] \in Nat
    OBVIOUS
  <2>4. /\ Over(f, U \cup {x}) = f[x] + Over(f, U)
        /\ Over(g, U \cup {x}) = g[x] + Over(g, U)
        /\ Over(h, U \cup {x}) = h[x] + Over(h, U)
    BY <2>1, <2>3, SumAdd
  <2> QED BY <2>2, <2>4
<1> HIDE DEF Good
<1>3. T \in Good
  BY <1>1, <1>2, FiniteGrowth
<1> QED BY <1>3 DEF Good

\* The sum over two parts that have nothing in common.
LEMMA SumUnion ==
    ASSUME NEW f, NEW S, NEW T, IsFiniteSet(S), IsFiniteSet(T), S \cap T = {},
           \A x \in S \cup T : f[x] \in Nat
    PROVE  Over(f, S \cup T) = Over(f, S) + Over(f, T)
<1> DEFINE Good == {U \in SUBSET T : Over(f, S \cup U) = Over(f, S) + Over(f, U)}
<1>0. Over(f, S) \in Nat
  BY SumType
<1>1. {} \in Good
  BY <1>0, SumEmpty, S \cup {} = S
<1>2. ASSUME NEW U \in (SUBSET T) \cap Good, NEW x \in T \ U
      PROVE  U \cup {x} \in Good
  <2>1. IsFiniteSet(U) /\ IsFiniteSet(S \cup U)
    BY FS_Subset, FS_Union
  <2>2. Over(f, U) \in Nat
    BY <2>1, SumType
  <2>3. x \notin S \cup U /\ S \cup (U \cup {x}) = (S \cup U) \cup {x} /\ f[x] \in Nat
    OBVIOUS
  <2>4. Over(f, U \cup {x}) = f[x] + Over(f, U)
    BY <2>1, SumAdd
  <2>5. Over(f, S \cup (U \cup {x})) = f[x] + Over(f, S \cup U)
    BY <2>1, <2>3, SumAdd
  <2>6. f[x] + (Over(f, S) + Over(f, U)) = Over(f, S) + (f[x] + Over(f, U))
    BY <1>0, <2>2, <2>3
  <2> QED BY <2>4, <2>5, <2>6
<1> HIDE DEF Good
<1>3. T \in Good
  BY <1>1, <1>2, FiniteGrowth
<1> QED BY <1>3 DEF Good

\* The elements of T that k puts at a.
Fibre(T, k, a) == {x \in T : k[x] = a}

\* The sum over T is the sum of what is at each place.
LEMMA SumFibres ==
    ASSUME NEW f, NEW T, NEW k, NEW A, IsFiniteSet(T), IsFiniteSet(A),
           \A x \in T : f[x] \in Nat /\ k[x] \in A,
           NEW h, \A a \in A : h[a] = Over(f, Fibre(T, k, a))
    PROVE  Over(h, A) = Over(f, T)
<1> DEFINE Within(B) == {x \in T : k[x] \in B}
           Good == {B \in SUBSET A : Over(h, B) = Over(f, Within(B))}
<1>0. /\ \A B : IsFiniteSet(Within(B))
      /\ \A a : IsFiniteSet(Fibre(T, k, a)) /\ Fibre(T, k, a) \subseteq T
  BY FS_Subset DEF Fibre
<1>1. {} \in Good
  <2>1. Within({}) = {}
    OBVIOUS
  <2> QED BY <2>1, SumEmpty
<1>2. ASSUME NEW B \in (SUBSET A) \cap Good, NEW a \in A \ B
      PROVE  B \cup {a} \in Good
  <2>1. Fibre(T, k, a) \cap Within(B) = {} /\ Within(B \cup {a}) = Fibre(T, k, a) \cup Within(B)
    BY DEF Fibre
  <2>2. Over(f, Fibre(T, k, a) \cup Within(B)) = Over(f, Fibre(T, k, a)) + Over(f, Within(B))
    <3>1. \A x \in Fibre(T, k, a) \cup Within(B) : f[x] \in Nat
      BY <1>0
    <3> HIDE DEF Within
    <3> QED BY <1>0, <2>1, <3>1, SumUnion
  <2>3. IsFiniteSet(B)
    BY FS_Subset
  <2>4. \A b \in A : h[b] \in Nat
    BY <1>0, SumType
  <2>5. Over(h, B \cup {a}) = h[a] + Over(h, B)
    BY <2>3, <2>4, SumAdd
  <2> QED BY <2>1, <2>2, <2>5
<1> HIDE DEF Good
<1>3. A \in Good
  BY <1>1, <1>2, FiniteGrowth
<1>4. Within(A) = T
  OBVIOUS
<1> QED BY <1>3, <1>4 DEF Good

----------------------------------------------------------------------------
(* Thresholds and claims *)

\* types.ts: "changing them later never bleeds into proposals whose anchor
\* block predates the fork".  Two schedules that agree up to h, with an entry
\* there, have the same threshold in force at h.
THEOREM ForksAhead ==
    ASSUME NEW s, NEW t, NEW h \in Nat, DOMAIN s \subseteq Nat, DOMAIN t \subseteq Nat,
           NEW k \in Forks(s, h), \A l \in Forks(s, h) : l <= k,
           Forks(t, h) = Forks(s, h), \A l \in Forks(s, h) : t[l] = s[l]
    PROVE  InForce(t, h) = s[k] /\ InForce(s, h) = s[k]
<1>1. Forks(s, h) \subseteq Nat /\ DOMAIN s # {} /\ DOMAIN t # {}
  BY DEF Forks
<1>2. \A m \in Forks(s, h) : (\A l \in Forks(s, h) : l <= m) => m = k
  BY <1>1
<1>3. (CHOOSE m \in Forks(s, h) : \A l \in Forks(s, h) : l <= m) = k
  BY <1>2
<1> QED BY <1>1, <1>3 DEF InForce

LEMMA QuotientBelow ==
    ASSUME NEW a \in Nat, NEW b \in Nat \ {0}
    PROVE  a \div b \in Nat /\ (a \div b) * b <= a
BY SMTT(20)

LEMMA ProductGrows ==
    ASSUME NEW a \in Nat, NEW b \in Nat, NEW c \in Nat, a <= b
    PROVE  a * c <= b * c
BY SMTT(20)

LEMMA BasisPoints ==
    ASSUME NEW a \in Nat, NEW m \in Nat, a <= m * 10000
    PROVE  a \div 10000 <= m
BY SMTT(20)

\* new/page.tsx: "the client check just fails fast".  The share in hundredths
\* of a percent, rounded down, that passes the page passes the nodes'
\* multiplication, for every supply, share and threshold above zero.
THEOREM PagePassesNodes ==
    ASSUME NEW supply \in Nat, NEW mine \in Nat, NEW bp \in Nat \ {0},
           PageAccepts(supply, mine, bp)
    PROVE  NodeAccepts(supply, mine, bp)
<1> DEFINE percent == (mine * 10000) \div supply
<1>1. supply > 0
  BY DEF PageAccepts, SharePercent
<1>2. mine * 10000 \in Nat
  OBVIOUS
<1>3. percent \in Nat /\ percent * supply <= mine * 10000 /\ bp <= percent
  BY <1>1, <1>2, QuotientBelow DEF PageAccepts, SharePercent
<1> HIDE DEF percent
<1>4. bp * supply <= percent * supply
  BY <1>3, ProductGrows
<1>5. bp * supply \in Nat /\ percent * supply \in Nat /\ supply * bp = bp * supply
  BY <1>3
<1>6. supply * bp <= mine * 10000
  BY <1>2, <1>3, <1>4, <1>5
<1> QED BY <1>1, <1>5, <1>6, BasisPoints DEF NodeAccepts, ThresholdPower

\* claimableOf subtracts what was claimed: a position that has just claimed
\* has nothing left to claim at the same accumulator.
THEOREM ClaimedOnce ==
    ASSUME NEW r \in Record, NEW acc \in Nat
    PROVE  Claimable(Claim(r, acc), acc) = 0
<1>1. /\ Claim(r, acc).claimed = r.claimed + Claimable(r, acc)
      /\ Vested(Claim(r, acc), acc) = Vested(r, acc)
  BY DEF Claim, Vested, Record
<1>2. Vested(r, acc) \in Int
  <2>1. MulDiv(r.weight, acc, Scale) \in Int
    <3>1. r.weight * acc \in Nat
      BY DEF Record
    <3> QED BY <3>1, ScaleAssumption, QuotientBelow DEF MulDiv
  <2> QED BY <2>1 DEF Vested, Record
<1> QED BY <1>1, <1>2 DEF Claimable, Record

----------------------------------------------------------------------------
(* What a world adds up to *)

Owed(w) == [p \in Positions |-> Pending(w, p)]
Circulating(w) == Holders \ w.excluded
OfHolder(w, a) == Fibre(CountedPositions(w), w.holder, a)

\* Wallet and what is owed.
Stake(w) == [a \in Holders |-> w.wallet[a] + UnclaimedBy(w, a)]
Unclaimed(w) == [a \in Holders |-> UnclaimedBy(w, a)]

LEMMA MulDivType ==
    ASSUME NEW a \in Nat, NEW b \in Nat, NEW c \in Nat
    PROVE  MulDiv(a, b, c) \in Nat
<1>1. a * b \in Nat
  OBVIOUS
<1> QED BY <1>1, QuotientBelow DEF MulDiv

LEMMA AccumulatorType ==
    ASSUME NEW g \in Globals, NEW h \in Nat
    PROVE  Accumulator(g, h) \in Nat /\ Accumulator(g, h) >= g.acc
<1>1. Emission(g) \in Nat
  BY QuotientBelow DEF Emission, Globals
<1>2. ASSUME NEW b \in Nat
      PROVE  Earned(g, b) \in Nat
  <2>1. Emission(g) * b \in Nat
    BY <1>1
  <2> QED BY <2>1, MulDivType, ScaleAssumption DEF Earned, Globals
<1>3. Now(g, h) \in Nat /\ FarmEnd(g) \in Nat
  BY DEF Now, FarmEnd, Globals
<1>4. Accrued(g, h) \in Nat
  <2>1. Now(g, h) > g.lastAccrual => Now(g, h) - g.lastAccrual \in Nat
    BY <1>3 DEF Globals
  <2> QED BY <1>2, <2>1 DEF Accrued
<1>5. Remaining(g, h) \in Nat
  <2>1. FarmEnd(g) > Now(g, h) => FarmEnd(g) - Now(g, h) \in Nat
    BY <1>3
  <2> QED BY <1>2, <2>1 DEF Remaining
<1> QED BY <1>4, <1>5 DEF Accumulator, Globals

LEMMA VestedType ==
    ASSUME NEW r \in Record, NEW acc \in Nat
    PROVE  Vested(r, acc) \in Nat /\ Claimable(r, acc) \in Nat
<1>1. MulDiv(r.weight, acc, Scale) \in Nat
  BY ScaleAssumption, MulDivType DEF Record
<1>2. Vested(r, acc) \in Nat
  BY <1>1 DEF Vested, Record
<1> QED BY <1>2 DEF Claimable, Record

LEMMA PendingType ==
    ASSUME NEW w \in World, NEW p \in Positions
    PROVE  Pending(w, p) \in Nat
<1>1. w.record[p] \in Record /\ w.globals \in Globals /\ w.height \in Nat
  BY DEF World
<1> QED BY <1>1, AccumulatorType, VestedType DEF Pending

\* The sums of the model are sums of these functions.
LEMMA UnclaimedSums ==
    ASSUME NEW w \in World
    PROVE  /\ \A a : UnclaimedBy(w, a) = Over(Owed(w), OfHolder(w, a))
           /\ UnclaimedTotal(w) = Over(Owed(w), CountedPositions(w))
<1>1. CountedPositions(w) \subseteq Positions /\ \A a : OfHolder(w, a) \subseteq Positions
  BY DEF CountedPositions, OfHolder, Fibre
<1>2. \A T \in SUBSET Positions : [p \in T |-> Owed(w)[p]] = [p \in T |-> Pending(w, p)]
  BY DEF Owed
<1> QED BY <1>1, <1>2 DEF UnclaimedBy, UnclaimedTotal, OfHolder, Fibre, Over

LEMMA CountedFinite ==
    ASSUME NEW w, NEW a
    PROVE  /\ CountedPositions(w) \subseteq Positions /\ IsFiniteSet(CountedPositions(w))
           /\ OfHolder(w, a) \subseteq Positions /\ IsFiniteSet(OfHolder(w, a))
<1>1. CountedPositions(w) \subseteq Positions /\ OfHolder(w, a) \subseteq Positions
  BY DEF CountedPositions, OfHolder, Fibre
<1> QED BY <1>1, PowerAssumption, FS_Subset

LEMMA UnclaimedType ==
    ASSUME NEW w \in World
    PROVE  /\ \A a : UnclaimedBy(w, a) \in Nat
           /\ UnclaimedTotal(w) \in Nat
<1>1. \A p \in Positions : Owed(w)[p] \in Nat
  BY PendingType DEF Owed
<1> QED BY <1>1, UnclaimedSums, CountedFinite, SumType

\* Positions count for addresses that are not excluded: together these are
\* owed the total.
LEMMA UnclaimedAddsUp ==
    ASSUME NEW w \in World
    PROVE  Over(Unclaimed(w), Circulating(w)) = UnclaimedTotal(w)
<1> DEFINE C == CountedPositions(w)
           f == Owed(w)
           k == w.holder
           A == Circulating(w)
           h == Unclaimed(w)
<1>1. \A p \in C : f[p] \in Nat /\ k[p] \in A
  BY PendingType DEF Owed, CountedPositions, Circulating
<1>2. \A a \in A : h[a] = Over(f, Fibre(C, k, a))
  BY UnclaimedSums DEF Unclaimed, OfHolder, Circulating
<1>3. IsFiniteSet(C) /\ IsFiniteSet(A)
  BY CountedFinite, PowerAssumption, FS_Subset DEF Circulating
<1> HIDE DEF C, f, k, A, h
<1>4. Over(h, A) = Over(f, C)
  BY <1>1, <1>2, <1>3, SumFibres
<1> QED BY <1>4, UnclaimedSums DEF C, f, A, h

\* The supply is what free addresses have in their wallets, what other
\* contracts hold, and what is owed.
LEMMA SupplyIs ==
    ASSUME NEW w \in World
    PROVE  /\ Supply(w) = Over(w.wallet, Circulating(w)) + w.other + UnclaimedTotal(w)
           /\ RawSupply(w) = NonCirculating(w) + Over(w.wallet, Circulating(w)) + w.other
           /\ Over(w.wallet, Circulating(w)) \in Nat /\ NonCirculating(w) \in Nat
<1>1. /\ w.wallet \in [Holders -> Nat] /\ w.pool \in Nat /\ w.other \in Nat
      /\ w.excluded \subseteq Holders
  BY DEF World
<1>2. /\ Circulating(w) \cup w.excluded = Holders /\ Circulating(w) \cap w.excluded = {}
      /\ IsFiniteSet(Circulating(w)) /\ IsFiniteSet(w.excluded)
  BY <1>1, PowerAssumption, FS_Subset DEF Circulating
<1>3. Over(w.wallet, Holders) = Over(w.wallet, Circulating(w)) + Over(w.wallet, w.excluded)
  BY <1>1, <1>2, SumUnion
<1>4. Over(w.wallet, Circulating(w)) \in Nat /\ Over(w.wallet, w.excluded) \in Nat
  BY <1>1, <1>2, SumType
<1>5. Total(w.wallet) = Over(w.wallet, Holders)
  <2>1. w.wallet = [a \in Holders |-> w.wallet[a]]
    BY <1>1
  <2> QED BY <2>1 DEF Over
<1>6. /\ NonCirculating(w) = Over(w.wallet, w.excluded) + w.pool
      /\ RawSupply(w) = Over(w.wallet, Holders) + w.pool + w.other
  BY <1>5 DEF NonCirculating, RawSupply, Over
<1>7. UnclaimedTotal(w) \in Nat
  BY UnclaimedType
<1> QED BY <1>1, <1>3, <1>4, <1>6, <1>7 DEF Supply

LEMMA PowerIs ==
    ASSUME NEW w \in World, NEW a \in Holders
    PROVE  /\ Power(w, a) = IF a \in w.excluded THEN 0 ELSE Stake(w)[a]
           /\ Power(w, a) \in Nat /\ Stake(w)[a] \in Nat
<1>1. w.wallet[a] \in Nat /\ UnclaimedBy(w, a) \in Nat
  BY UnclaimedType DEF World
<1> QED BY <1>1 DEF Power, Stake

\* At the tip the fork is behind.
LEMMA LiveIs ==
    ASSUME NEW w \in World, PastFork(w)
    PROVE  /\ Live(w) \in World
           /\ Circulating(Live(w)) = Circulating(w)
           /\ Live(w).excluded = w.excluded /\ Live(w).wallet = w.wallet
           /\ \A a : UnclaimedBy(Live(w), a) = UnclaimedBy(w, a)
           /\ Supply(Live(w)) = Supply(w)
<1>1. /\ Live(w) \in World /\ PastFork(Live(w))
      /\ Live(w).excluded = w.excluded /\ Live(w).wallet = w.wallet
      /\ Live(w).pool = w.pool /\ Live(w).other = w.other
      /\ Live(w).holder = w.holder /\ Live(w).record = w.record
      /\ Live(w).globals = w.globals /\ Live(w).height = w.height
  BY DEF Live, World, PastFork
<1>2. CountedPositions(Live(w)) = CountedPositions(w)
  BY <1>1 DEF CountedPositions
<1>3. Owed(Live(w)) = Owed(w) /\ Circulating(Live(w)) = Circulating(w)
  BY <1>1 DEF Owed, Pending, Circulating
<1>4. \A a : OfHolder(Live(w), a) = OfHolder(w, a)
  BY <1>1, <1>2 DEF OfHolder
<1>5. /\ \A a : UnclaimedBy(Live(w), a) = UnclaimedBy(w, a)
      /\ UnclaimedTotal(Live(w)) = UnclaimedTotal(w)
  BY <1>1, <1>2, <1>3, <1>4, UnclaimedSums
<1>6. Supply(Live(w)) = Supply(w)
  BY <1>1, <1>3, <1>5, SupplyIs
<1> QED BY <1>1, <1>3, <1>5, <1>6

----------------------------------------------------------------------------
(* Shares *)

\* All together have what is free.
LEMMA StakesAddUp ==
    ASSUME NEW w \in World
    PROVE  Over(Stake(w), Circulating(w)) = Over(w.wallet, Circulating(w)) + UnclaimedTotal(w)
<1> DEFINE f == w.wallet
           g == Unclaimed(w)
           h == Stake(w)
           T == Circulating(w)
<1>1. \A a \in T : f[a] \in Nat /\ g[a] \in Nat /\ h[a] = f[a] + g[a]
  BY UnclaimedType DEF World, Circulating, Unclaimed, Stake
<1>2. IsFiniteSet(T)
  BY PowerAssumption, FS_Subset DEF Circulating
<1> HIDE DEF f, g, h, T
<1>3. Over(h, T) = Over(f, T) + Over(g, T)
  BY <1>1, <1>2, SumPlus
<1> QED BY <1>3, UnclaimedAddsUp DEF f, g, h, T

\* The power of a group is the stake of those it does not exclude.
LEMMA GroupPower ==
    ASSUME NEW w \in World, NEW T \in SUBSET Holders
    PROVE  Total([a \in T |-> Power(w, a)]) = Over(Stake(w), T \ w.excluded)
<1> DEFINE f == [a \in Holders |-> Power(w, a)]
           g == Stake(w)
           In == T \cap w.excluded
           Out == T \ w.excluded
           none == [a \in Holders |-> 0]
<1>1. IsFiniteSet(T) /\ IsFiniteSet(In) /\ IsFiniteSet(Out)
  BY PowerAssumption, FS_Subset
<1>2. /\ In \cap Out = {} /\ In \cup Out = T
      /\ \A a \in T : f[a] \in Nat
      /\ \A a \in In : f[a] = 0
      /\ \A a \in Out : f[a] = g[a]
  BY PowerIs
<1>3. Total([a \in T |-> Power(w, a)]) = Over(f, T)
  <2>1. [a \in T |-> Power(w, a)] = [a \in T |-> f[a]]
    OBVIOUS
  <2> QED BY <2>1 DEF Over
<1> HIDE DEF f, g, In, Out
<1>4. Over(f, T) = Over(f, In) + Over(f, Out)
  BY <1>1, <1>2, SumUnion
<1>5. Over(f, Out) = Over(g, Out)
  BY <1>2, SumSame
<1>6. Over(f, In) = 0
  BY <1>1, <1>2, SumOfZeros
<1>7. Over(f, Out) \in Nat
  BY <1>1, <1>2, SumType
<1> QED BY <1>3, <1>4, <1>5, <1>6, <1>7 DEF g, Out


\* Of one address and others, the power that is counted.
LEMMA HeldIs ==
    ASSUME NEW w \in World, NEW a \in Holders, NEW members \in SUBSET (Holders \ {a})
    PROVE  Held(w, a, members) = Over(Stake(w), (members \cup {a}) \ w.excluded)
<1> DEFINE f == [x \in Holders |-> Power(w, x)]
<1>1. \A x \in Holders : f[x] = Power(w, x) /\ f[x] \in Nat
  BY PowerIs
<1>2. IsFiniteSet(members) /\ a \notin members /\ members \cup {a} \in SUBSET Holders
  BY PowerAssumption, FS_Subset
<1>3. /\ [x \in members |-> Power(w, x)] = [x \in members |-> f[x]]
      /\ [x \in members \cup {a} |-> Power(w, x)] = [x \in members \cup {a} |-> f[x]]
  BY <1>2
<1> HIDE DEF f
<1>4. Over(f, members \cup {a}) = f[a] + Over(f, members)
  BY <1>1, <1>2, SumAdd
<1>5. Held(w, a, members) = Over(f, members \cup {a})
  BY <1>1, <1>3, <1>4 DEF Held, Over
<1>6. Over(f, members \cup {a}) = Over(Stake(w), (members \cup {a}) \ w.excluded)
  BY <1>2, <1>3, GroupPower DEF Over
<1> QED BY <1>5, <1>6

\* The page's list gives the same, and so does the button's count if nobody
\* is excluded.
LEMMA ListedIs ==
    ASSUME NEW w \in World, PastFork(w), NEW a \in Holders, NEW members \in SUBSET Holders
    PROVE  /\ ListedShare(w, a, members) = Over(Stake(w), (members \cup {a}) \ w.excluded)
           /\ (members \cup {a}) \cap w.excluded = {} =>
                 ProposerShare(w, a, members) = Over(Stake(w), members \cup {a})
<1> DEFINE T == members \cup {a}
<1>1. /\ \A x : UnclaimedBy(Live(w), x) = UnclaimedBy(w, x)
      /\ Live(w).wallet = w.wallet /\ Live(w).excluded = w.excluded
  BY LiveIs
<1>2. T \subseteq Holders
  OBVIOUS
<1>3. ListedHolders(Live(w)) = [x \in Holders \ w.excluded |-> w.wallet[x] + UnclaimedBy(w, x)]
  BY <1>1 DEF ListedHolders
<1>4. /\ DOMAIN ListedHolders(Live(w)) \cap T = T \ w.excluded
      /\ \A x \in T \ w.excluded : ListedHolders(Live(w))[x] = Stake(w)[x]
  BY <1>2, <1>3 DEF Stake
<1>5. ListedShare(w, a, members) = Over(Stake(w), T \ w.excluded)
  <2>1. [x \in DOMAIN ListedHolders(Live(w)) \cap T |-> ListedHolders(Live(w))[x]]
            = [x \in T \ w.excluded |-> Stake(w)[x]]
    BY <1>4
  <2> QED BY <2>1 DEF ListedShare, Over
<1>6. ASSUME T \cap w.excluded = {}
      PROVE  ProposerShare(w, a, members) = Over(Stake(w), T)
  <2>1. a \notin w.excluded
    BY <1>6
  <2>2. [x \in T |-> w.wallet[x] + UnclaimedBy(Live(w), x)] = [x \in T |-> Stake(w)[x]]
    BY <1>1, <1>2 DEF Stake
  <2> QED BY <2>1, <2>2 DEF ProposerShare, Over
<1> QED BY <1>5, <1>6

----------------------------------------------------------------------------
(* What all who check agree on *)

\* new/page.tsx: what passes the page passes the nodes, and the browsers.
LEMMA SubmitShare ==
    ASSUME NEW w \in World, PastFork(w), NEW a \in Holders, NEW members \in SUBSET (Holders \ {a})
    PROVE  /\ ListedShare(w, a, members) = Held(w, a, members)
           /\ Held(w, a, members) \in Nat /\ Supply(w) \in Nat
           /\ members \cap w.excluded = {} /\ a \notin w.excluded =>
                 ProposerShare(w, a, members) = Held(w, a, members)
<1> DEFINE T == members \cup {a}
<1>1. members \in SUBSET Holders /\ T \subseteq Holders
  OBVIOUS
<1>2. Held(w, a, members) = Over(Stake(w), T \ w.excluded)
  BY HeldIs
<1>3. /\ ListedShare(w, a, members) = Over(Stake(w), T \ w.excluded)
      /\ T \cap w.excluded = {} => ProposerShare(w, a, members) = Over(Stake(w), T)
  BY <1>1, ListedIs
<1>4. Over(Stake(w), T \ w.excluded) \in Nat
  <2>1. IsFiniteSet(T \ w.excluded) /\ \A x \in T \ w.excluded : Stake(w)[x] \in Nat
    BY <1>1, PowerAssumption, FS_Subset, PowerIs
  <2> QED BY <2>1, SumType
<1>5. Supply(w) \in Nat
  BY SupplyIs, UnclaimedType DEF World
<1>6. T \cap w.excluded = {} => T \ w.excluded = T
  OBVIOUS
<1> QED BY <1>2, <1>3, <1>4, <1>5, <1>6

\* Of every world: nobody's tokens count twice, and the node, the browser, the
\* page and the button agree on who may vote and propose.
LEMMA SharesOfWorld == world \in World => SharesAgree
<1> SUFFICES ASSUME world \in World PROVE SharesAgree
  OBVIOUS
<1>1. WithinSupply
  <2>1. Total([a \in Holders |-> Power(world, a)]) = Over(Stake(world), Circulating(world))
    BY GroupPower DEF Circulating
  <2>2. /\ Supply(world) = Over(world.wallet, Circulating(world)) + world.other + UnclaimedTotal(world)
        /\ Over(world.wallet, Circulating(world)) \in Nat /\ UnclaimedTotal(world) \in Nat
        /\ world.other \in Nat
    BY SupplyIs, UnclaimedType DEF World
  <2> QED BY <2>1, <2>2, StakesAddUp DEF WithinSupply
<1>2. VotersHavePower
  <2> SUFFICES ASSUME PastFork(world), NEW a \in Holders
               PROVE  VoterHolds(world, a) <=> Power(world, a) > 0
    BY DEF VotersHavePower
  <2>1. UnclaimedBy(Live(world), a) = UnclaimedBy(world, a)
    BY LiveIs
  <2>2. world.wallet[a] \in Nat /\ UnclaimedBy(world, a) \in Nat
    BY UnclaimedType DEF World
  <2> QED BY <2>1, <2>2 DEF VoterHolds, Power
<1>3. SubmitAccepted
  <2> SUFFICES ASSUME PastFork(world), NEW a \in Holders, NEW members \in SUBSET (Holders \ {a}),
                      NEW bp \in Percents,
                      PageAccepts(Supply(Live(world)), ListedShare(world, a, members), bp)
               PROVE  LET held == Held(world, a, members)
                      IN  /\ NodeAccepts(Supply(world), held, bp)
                          /\ BrowserAccepts(RawSupply(world), Supply(world), held, bp)
    BY DEF SubmitAccepted
  <2> DEFINE held == Held(world, a, members)
  <2>1. held \in Nat /\ Supply(world) \in Nat /\ PageAccepts(Supply(world), held, bp)
    BY SubmitShare, LiveIs
  <2>2. bp \in 1..10000
    BY PowerAssumption
  <2>3. bp \in Nat \ {0}
    BY <2>2
  <2> HIDE DEF held
  <2>4. NodeAccepts(Supply(world), held, bp)
    BY <2>1, <2>3, PagePassesNodes
  <2> QED BY <2>4 DEF NodeAccepts, BrowserAccepts, held
<1>4. ButtonsAgree
  <2> SUFFICES ASSUME PastFork(world), NEW a \in Holders \ world.excluded,
                      NEW members \in SUBSET (Holders \ (world.excluded \cup {a})),
                      NEW bp \in Percents
               PROVE  Eligible(Supply(Live(world)), ProposerShare(world, a, members), bp)
                          <=> NodeAccepts(Supply(world), Held(world, a, members), bp)
    BY DEF ButtonsAgree
  <2>1. ProposerShare(world, a, members) = Held(world, a, members)
    <3>1. /\ a \in Holders /\ members \in SUBSET (Holders \ {a})
          /\ members \cap world.excluded = {} /\ a \notin world.excluded
      OBVIOUS
    <3> QED BY <3>1, SubmitShare
  <2> QED BY <2>1, LiveIs DEF Eligible, NodeAccepts
<1> QED BY <1>1, <1>2, <1>3, <1>4 DEF SharesAgree

----------------------------------------------------------------------------
(* Claims *)

LEMMA ClaimedWorld ==
    ASSUME NEW w \in World, NEW p \in Positions, w.holder[p] \in Holders, Pending(w, p) <= w.pool
    PROVE  LET v == Claimed(w, p)
           IN  /\ v \in World
               /\ v.holder = w.holder /\ v.excluded = w.excluded /\ v.other = w.other
               /\ v.globals = w.globals /\ v.height = w.height /\ v.fromHeight = w.fromHeight
               /\ \A q \in Positions : v.record[q].banked = w.record[q].banked
               /\ Pending(v, p) = 0
               /\ \A q \in Positions \ {p} : Pending(v, q) = Pending(w, q)
               /\ v.wallet[w.holder[p]] = w.wallet[w.holder[p]] + Pending(w, p)
               /\ \A a \in Holders \ {w.holder[p]} : v.wallet[a] = w.wallet[a]
<1> DEFINE v == Claimed(w, p)
           acc == Accumulator(w.globals, w.height)
           r == w.record[p]
           new == Claim(r, acc)
           paid == Pending(w, p)
<1>1. /\ w.wallet \in [Holders -> Nat] /\ w.pool \in Nat /\ w.record \in [Positions -> Record]
      /\ r \in Record /\ w.globals \in Globals /\ w.height \in Nat
  BY DEF World
<1>2. acc \in Nat /\ paid \in Nat /\ paid = Claimable(r, acc)
  BY <1>1, AccumulatorType, PendingType DEF Pending
<1>3. new \in Record /\ new.banked = r.banked /\ Claimable(new, acc) = 0
  <2>1. Claimable(r, acc) \in Nat
    BY <1>2
  <2>2. new \in Record /\ new.banked = r.banked
    BY <1>1, <2>1 DEF Claim, Record
  <2> QED BY <1>1, <1>2, <2>2, ClaimedOnce
<1>4. v = [w EXCEPT !.record = [w.record EXCEPT ![p] = new], !.pool = w.pool - paid,
                    !.wallet = [w.wallet EXCEPT ![w.holder[p]] = @ + paid]]
  BY DEF Claimed
<1> HIDE DEF new, acc, paid, v
<1>5. /\ v.record = [w.record EXCEPT ![p] = new]
      /\ v.wallet = [w.wallet EXCEPT ![w.holder[p]] = @ + paid]
      /\ v.pool = w.pool - paid
      /\ v.holder = w.holder /\ v.excluded = w.excluded /\ v.other = w.other
      /\ v.globals = w.globals /\ v.height = w.height /\ v.fromHeight = w.fromHeight
  BY <1>4 DEF World
<1>6. v \in World
  <2>1. w.pool - paid \in Nat
    BY <1>1, <1>2 DEF paid
  <2>2. [w.wallet EXCEPT ![w.holder[p]] = @ + paid] \in [Holders -> Nat]
    BY <1>1, <1>2
  <2>3. [w.record EXCEPT ![p] = new] \in [Positions -> Record]
    BY <1>1, <1>3
  <2> QED BY <1>4, <2>1, <2>2, <2>3 DEF World
<1>7. Pending(v, p) = 0 /\ \A q \in Positions \ {p} : Pending(v, q) = Pending(w, q)
  BY <1>1, <1>3, <1>5 DEF Pending, acc
<1>8. /\ \A q \in Positions : v.record[q].banked = w.record[q].banked
      /\ v.wallet[w.holder[p]] = w.wallet[w.holder[p]] + paid
      /\ \A a \in Holders \ {w.holder[p]} : v.wallet[a] = w.wallet[a]
  BY <1>1, <1>3, <1>5
<1> QED BY <1>5, <1>6, <1>7, <1>8 DEF v, paid

\* A position that has something to claim past the fork, and a holder that is
\* not excluded, was counted.
LEMMA ClaimCounted ==
    ASSUME NEW w \in World, EarnedFirst(w), PastFork(w), NEW p \in Positions,
           0 < Pending(w, p), w.holder[p] \in Circulating(w)
    PROVE  p \in CountedPositions(w)
<1> DEFINE acc == Accumulator(w.globals, w.height)
           r == w.record[p]
<1>1. r \in Record /\ w.globals \in Globals /\ w.height \in Nat /\ w.globals.acc \in Nat
  BY DEF World, Globals
<1>2. acc \in Nat
  BY <1>1, AccumulatorType
<1>3. acc > 0
  <2> SUFFICES ASSUME acc = 0 PROVE FALSE
    BY <1>2
  <2>1. MulDiv(r.weight, 0, Scale) = 0
    <3>1. r.weight * 0 = 0
      BY <1>1 DEF Record
    <3>2. 0 \div Scale = 0
      BY ScaleAssumption
    <3> QED BY <3>1, <3>2, ScaleAssumption DEF MulDiv
  <2>2. Vested(r, acc) = r.banked
    BY <1>1, <2>1 DEF Vested, Record
  <2>3. r.banked > 0
    <3>1. Claimable(r, acc) > 0
      BY DEF Pending
    <3> HIDE DEF acc, r
    <3>2. r.banked \in Nat /\ r.claimed \in Nat
      BY <1>1 DEF Record
    <3> QED BY <2>2, <3>1, <3>2 DEF Claimable
  <2>4. w.globals.acc > 0
    BY <2>3 DEF EarnedFirst
  <2>5. acc >= w.globals.acc
    BY <1>1, AccumulatorType
  <2> QED BY <1>1, <1>2, <2>4, <2>5
<1> QED BY <1>3 DEF CountedPositions, Circulating

\* vaultPower.ts: what leaves the vault was counted already.
LEMMA ClaimNeutralStep ==
    ASSUME NEW w \in World, EarnedFirst(w), PastFork(w), NEW p \in Positions,
           w.holder[p] \in Holders, 0 < Pending(w, p), Pending(w, p) <= w.pool
    PROVE  /\ Supply(Claimed(w, p)) = Supply(w)
           /\ \A a \in Holders : Power(Claimed(w, p), a) = Power(w, a)
<1> DEFINE v == Claimed(w, p)
           C == CountedPositions(w)
           h == w.holder[p]
           before == Owed(w)
           after == Owed(v)
           F == Circulating(w)
<1>1. /\ v \in World
      /\ v.holder = w.holder /\ v.excluded = w.excluded /\ v.other = w.other
      /\ v.globals = w.globals /\ v.height = w.height /\ v.fromHeight = w.fromHeight
      /\ Pending(v, p) = 0
      /\ \A q \in Positions \ {p} : Pending(v, q) = Pending(w, q)
      /\ v.wallet[h] = w.wallet[h] + Pending(w, p)
      /\ \A a \in Holders \ {h} : v.wallet[a] = w.wallet[a]
  BY ClaimedWorld
<1>2. CountedPositions(v) = C /\ Circulating(v) = F /\ PastFork(v)
  BY <1>1 DEF CountedPositions, Circulating, PastFork
<1> HIDE DEF v
<1>3. /\ \A q \in Positions : before[q] \in Nat /\ after[q] \in Nat
      /\ after[p] = 0 /\ before[p] = Pending(w, p)
      /\ \A q \in Positions \ {p} : after[q] = before[q]
  BY <1>1, PendingType DEF Owed
<1>4. /\ UnclaimedTotal(w) = Over(before, C) /\ UnclaimedTotal(v) = Over(after, C)
      /\ \A a : /\ UnclaimedBy(w, a) = Over(before, Fibre(C, w.holder, a))
                /\ UnclaimedBy(v, a) = Over(after, Fibre(C, w.holder, a))
  BY <1>1, <1>2, UnclaimedSums DEF OfHolder
<1>5. /\ C \subseteq Positions /\ IsFiniteSet(C)
      /\ \A a : Fibre(C, w.holder, a) \subseteq Positions /\ IsFiniteSet(Fibre(C, w.holder, a))
  BY CountedFinite DEF OfHolder
<1>6. F \subseteq Holders /\ IsFiniteSet(F)
  BY PowerAssumption, FS_Subset DEF Circulating
<1>7. /\ \A a \in Holders : w.wallet[a] \in Nat /\ v.wallet[a] \in Nat
      /\ w.other \in Nat
  BY <1>1 DEF World
<1>8. /\ Supply(w) = Over(w.wallet, F) + w.other + UnclaimedTotal(w)
      /\ Supply(v) = Over(v.wallet, F) + w.other + UnclaimedTotal(v)
      /\ Over(w.wallet, F) \in Nat /\ Over(v.wallet, F) \in Nat
      /\ UnclaimedTotal(w) \in Nat /\ UnclaimedTotal(v) \in Nat
      /\ \A a : UnclaimedBy(w, a) \in Nat /\ UnclaimedBy(v, a) \in Nat
  BY <1>1, <1>2, SupplyIs, UnclaimedType
<1>9. \A a \in Holders : /\ Power(w, a) = IF a \in F THEN w.wallet[a] + UnclaimedBy(w, a) ELSE 0
                         /\ Power(v, a) = IF a \in F THEN v.wallet[a] + UnclaimedBy(v, a) ELSE 0
  BY <1>1 DEF Power, Circulating
<1>10. \A a : p \notin Fibre(C, w.holder, a) => UnclaimedBy(v, a) = UnclaimedBy(w, a)
  <2> TAKE a
  <2> HAVE p \notin Fibre(C, w.holder, a)
  <2>1. \A q \in Fibre(C, w.holder, a) : after[q] = before[q]
    BY <1>3, <1>5
  <2> HIDE DEF before, after
  <2>2. Over(after, Fibre(C, w.holder, a)) = Over(before, Fibre(C, w.holder, a))
    BY <2>1, SumSame
  <2> QED BY <1>4, <2>2
<1>11. CASE h \notin F
  <2>1. p \notin C
    BY <1>11 DEF CountedPositions, Circulating
  <2>2. UnclaimedTotal(v) = UnclaimedTotal(w)
    <3>1. \A q \in C : after[q] = before[q]
      BY <1>3, <1>5, <2>1
    <3> HIDE DEF before, after
    <3> QED BY <1>4, <3>1, SumSame
  <2>3. \A a : UnclaimedBy(v, a) = UnclaimedBy(w, a)
    BY <1>10, <2>1 DEF Fibre
  <2>4. \A a \in F : v.wallet[a] = w.wallet[a]
    BY <1>1, <1>6, <1>11
  <2>5. Over(v.wallet, F) = Over(w.wallet, F)
    BY <2>4, SumSame
  <2> QED BY <1>8, <1>9, <2>2, <2>3, <2>4, <2>5 DEF v
<1>12. CASE h \in F
  <2> DEFINE paid == Pending(w, p)
             P == Fibre(C, w.holder, h)
  <2>1. p \in C /\ p \in P
    BY <1>12, ClaimCounted DEF Fibre
  <2>2. paid \in Nat /\ h \in Holders
    BY PendingType
  <2>3. UnclaimedTotal(v) + paid = UnclaimedTotal(w)
    <3>1. \A q \in C : after[q] \in Nat /\ before[q] \in Nat
      BY <1>3, <1>5
    <3>2. \A q \in C \ {p} : after[q] = before[q]
      BY <1>3, <1>5
    <3> HIDE DEF before, after, C
    <3>3. Over(after, C) + before[p] = Over(before, C) + after[p]
      BY <1>5, <2>1, <3>1, <3>2, SumDiffer
    <3> QED BY <1>3, <1>4, <1>8, <3>3
  <2>4. UnclaimedBy(v, h) + paid = UnclaimedBy(w, h)
    <3>1. \A q \in P : after[q] \in Nat /\ before[q] \in Nat
      BY <1>3, <1>5
    <3>2. \A q \in P \ {p} : after[q] = before[q]
      BY <1>3, <1>5
    <3>3. IsFiniteSet(P) /\ UnclaimedBy(v, h) = Over(after, P) /\ UnclaimedBy(w, h) = Over(before, P)
      BY <1>4, <1>5
    <3>4. UnclaimedBy(v, h) \in Nat /\ UnclaimedBy(w, h) \in Nat
      BY <1>8
    <3> HIDE DEF before, after, C, P
    <3>5. Over(after, P) + before[p] = Over(before, P) + after[p]
      BY <2>1, <3>1, <3>2, <3>3, SumDiffer
    <3> QED BY <1>3, <3>3, <3>4, <3>5
  <2>5. Over(v.wallet, F) = Over(w.wallet, F) + paid
    <3> DEFINE f == v.wallet
               g == w.wallet
    <3>1. \A a \in F : f[a] \in Nat /\ g[a] \in Nat
      BY <1>6, <1>7
    <3>2. \A a \in F \ {h} : f[a] = g[a]
      BY <1>1, <1>6
    <3>3. f[h] = g[h] + paid
      BY <1>1
    <3> HIDE DEF f, g, F, h
    <3>4. Over(f, F) + g[h] = Over(g, F) + f[h]
      BY <1>6, <1>12, <3>1, <3>2, SumDiffer
    <3>5. Over(f, F) \in Nat /\ Over(g, F) \in Nat
      BY <1>8 DEF f, g
    <3>6. g[h] \in Nat
      BY <1>12, <3>1
    <3> HIDE DEF paid
    <3>7. Over(f, F) = Over(g, F) + paid
      BY <2>2, <3>3, <3>4, <3>5, <3>6
    <3> QED BY <3>7 DEF f, g
  <2>6. ASSUME NEW a \in F, a # h
        PROVE  v.wallet[a] = w.wallet[a] /\ UnclaimedBy(v, a) = UnclaimedBy(w, a)
    BY <1>1, <1>6, <1>10, <2>6 DEF Fibre
  <2>7. v.wallet[h] = w.wallet[h] + paid /\ w.wallet[h] \in Nat
    BY <1>1, <1>7, <2>2
  <2> HIDE DEF paid, h, F, C, before, after
  <2>8. Supply(v) = Supply(w)
    BY <1>7, <1>8, <2>2, <2>3, <2>5
  <2>9. v.wallet[h] + UnclaimedBy(v, h) = w.wallet[h] + UnclaimedBy(w, h)
    BY <1>8, <2>2, <2>4, <2>7
  <2> QED BY <1>9, <2>6, <2>8, <2>9 DEF v
<1> QED BY <1>11, <1>12

\* Worlds stay worlds, and what is banked stays earned.
LEMMA WorldStep ==
    ASSUME NEW last, world \in World, EarnedFirst(world), [PowerNext(last)]_world
    PROVE  world' \in World /\ EarnedFirst(world')
<1>1. ASSUME NEW p \in Positions, ClaimPosition(p)
      PROVE  world' \in World /\ EarnedFirst(world')
  <2>1. world.holder[p] \in Holders /\ Pending(world, p) <= world.pool /\ world' = Claimed(world, p)
    BY <1>1 DEF ClaimPosition
  <2> QED BY <2>1, ClaimedWorld DEF EarnedFirst
<1>2. ASSUME NEW a \in Holders, NEW b \in Holders, Send(a, b)
      PROVE  world' \in World /\ EarnedFirst(world')
  <2> DEFINE wallet == [world.wallet EXCEPT ![a] = @ - 1, ![b] = @ + 1]
  <2>1. world.wallet \in [Holders -> Nat] /\ a # b /\ world.wallet[a] > 0
    BY <1>2 DEF Send, World
  <2>2. wallet \in [Holders -> Nat]
    BY <2>1
  <2>3. world' = [world EXCEPT !.wallet = wallet]
    BY <1>2, <2>1 DEF Send, World
  <2> HIDE DEF wallet
  <2> QED BY <2>2, <2>3 DEF World, EarnedFirst
<1>3. CASE MineFor(last)
  BY <1>3 DEF MineFor, World, EarnedFirst
<1>4. CASE UNCHANGED world
  BY <1>4
<1> QED BY <1>1, <1>2, <1>3, <1>4 DEF PowerNext

\* The vault's records and the wallets, whenever the node reads them.
SoundWorld == world \in World /\ EarnedFirst(world)

PowerSpec(last) == SoundWorld /\ [][PowerNext(last)]_world

LEMMA SoundAlways ==
    ASSUME NEW last
    PROVE  PowerSpec(last) => []SoundWorld
<1>1. SoundWorld /\ [PowerNext(last)]_world => SoundWorld'
  BY WorldStep DEF SoundWorld
<1> QED BY <1>1, PTL DEF PowerSpec

\* Whoever sends, claims or mines, nobody's tokens ever count twice, and the
\* node, the browser, the page and the button agree.
THEOREM PowerAlwaysAgrees ==
    ASSUME NEW last
    PROVE  PowerSpec(last) => []SharesAgree
<1>1. SoundWorld => SharesAgree
  BY SharesOfWorld DEF SoundWorld
<1> QED BY <1>1, SoundAlways, PTL

\* vaultPower.ts: unclaimed SLICE counts "so they don't need to claim from
\* their positions to vote": no claim past the fork changes anybody's power,
\* or the supply.
THEOREM ClaimsAreNeutral ==
    ASSUME NEW last
    PROVE  PowerSpec(last) => ClaimNeutral
<1>1. SoundWorld =>
         [\A p \in Positions :
             ClaimPosition(p) /\ PastFork(world) =>
                 /\ Supply(world') = Supply(world)
                 /\ \A a \in Holders : Power(world', a) = Power(world, a)]_world
  BY ClaimNeutralStep DEF ClaimPosition, SoundWorld
<1> QED BY <1>1, SoundAlways, PTL DEF PowerSpec, ClaimNeutral

=============================================================================
