----------------------------- MODULE Inductions -----------------------------
(***************************************************************************)
(* Induction without an operator parameter: what holds is a set, the       *)
(* numbers or the parts of a finite set that are good.                     *)
(***************************************************************************)
EXTENDS Integers, FiniteSetTheorems, TLAPS

\* Zero is good and each number after a good one: all are.
LEMMA NatGrowth ==
    ASSUME NEW Good, 0 \in Good, \A n \in Nat \cap Good : n + 1 \in Good
    PROVE  Nat \subseteq Good
<1> DEFINE Bad == Nat \ Good
<1> SUFFICES ASSUME Bad # {} PROVE FALSE
  OBVIOUS
<1>1. PICK n \in Bad : \A m \in Bad : ~(<<m, n>> \in OpToRel(<, Nat))
  BY NatLessThanWellFounded, WFMin
<1>2. n \in Nat \ {0}
  OBVIOUS
<1>3. n - 1 \in Nat /\ n - 1 < n /\ (n - 1) + 1 = n
  BY <1>2
<1>4. <<n - 1, n>> \in OpToRel(<, Nat)
  BY <1>2, <1>3 DEF OpToRel
<1>5. n - 1 \in Good
  BY <1>1, <1>3, <1>4
<1> QED BY <1>2, <1>3, <1>5

\* A part of D is good when all that lack one of its elements are: every part
\* is.
LEMMA FiniteDescent ==
    ASSUME NEW D, IsFiniteSet(D), NEW Good,
           \A T \in SUBSET D : (\A x \in T : T \ {x} \in Good) => T \in Good
    PROVE  SUBSET D \subseteq Good
<1> DEFINE Sized(n) == {T \in SUBSET D : Cardinality(T) = n}
           Grown == {n \in Nat : Sized(n) \subseteq Good}
<1>1. \A T \in SUBSET D : IsFiniteSet(T) /\ Cardinality(T) \in Nat
  BY FS_Subset, FS_CardinalityType
<1>2. 0 \in Grown
  BY <1>1, FS_EmptySet
<1>3. ASSUME NEW n \in Nat \cap Grown
      PROVE  n + 1 \in Grown
  <2> SUFFICES ASSUME NEW T \in SUBSET D, Cardinality(T) = n + 1, NEW x \in T
               PROVE  T \ {x} \in Good
    OBVIOUS
  <2>1. Cardinality(T \ {x}) = Cardinality(T) - 1
    BY <1>1, FS_RemoveElement, x \in T
  <2>2. Cardinality(T \ {x}) = n
    BY <2>1, n \in Nat
  <2> QED BY <2>2
<1> HIDE DEF Grown
<1>4. Nat \subseteq Grown
  BY <1>2, <1>3, NatGrowth
<1> QED BY <1>1, <1>4 DEF Grown

\* The empty set is good and each part of D that has one element more than a
\* good one: D is.
LEMMA FiniteGrowth ==
    ASSUME NEW D, IsFiniteSet(D), NEW Good, {} \in Good,
           \A T \in (SUBSET D) \cap Good : \A x \in D \ T : T \cup {x} \in Good
    PROVE  D \in Good
<1>1. ASSUME NEW T \in SUBSET D, \A x \in T : T \ {x} \in Good
      PROVE  T \in Good
  <2>1. CASE T = {}
    BY <2>1
  <2>2. CASE T # {}
    <3>1. PICK x \in T : TRUE
      BY <2>2
    <3>2. T \ {x} \in Good /\ (T \ {x}) \cup {x} = T
      BY <1>1
    <3> QED BY <3>2
  <2> QED BY <2>1, <2>2
<1> QED BY <1>1, FiniteDescent

\* A fold takes an element Pick[s] from each part s that is not empty ...
Picks(Pick, D) == \A s \in SUBSET D : s # {} => Pick[s] \in s

\* ... and g[s] is what it makes of s, step by step from base.
Folds(g, D, Pick, base, Step) ==
    \A s \in SUBSET D : g[s] = IF s = {} THEN base ELSE Step[<<s, g[s \ {Pick[s]}]>>]

\* There is such a g: for one size of the parts after the other.
LEMMA FoldExists ==
    ASSUME NEW D, IsFiniteSet(D), NEW Pick, Picks(Pick, D),
           NEW V, NEW base \in V, NEW Step \in [(SUBSET D) \X V -> V]
    PROVE  \E g \in [SUBSET D -> V] : Folds(g, D, Pick, base, Step)
<1> DEFINE Result(g, s) == IF s = {} THEN base ELSE Step[<<s, g[s \ {Pick[s]}]>>]
           Upto(g, n) == \A s \in SUBSET D : Cardinality(s) <= n => g[s] = Result(g, s)
           Good == {n \in Nat : \E g \in [SUBSET D -> V] : Upto(g, n)}
<1>1. \A s \in SUBSET D : /\ IsFiniteSet(s) /\ Cardinality(s) \in Nat
                          /\ Cardinality(s) <= Cardinality(D)
  BY FS_Subset, FS_CardinalityType
<1>2. \A s \in SUBSET D : s # {} => /\ s \ {Pick[s]} \in SUBSET D
                                    /\ Cardinality(s \ {Pick[s]}) = Cardinality(s) - 1
  BY <1>1, FS_RemoveElement DEF Picks
<1>3. 0 \in Good
  <2> DEFINE g == [s \in SUBSET D |-> base]
  <2>1. \A s \in SUBSET D : Cardinality(s) <= 0 => s = {}
    BY <1>1, FS_EmptySet
  <2>2. Upto(g, 0)
    BY <2>1
  <2>3. g \in [SUBSET D -> V]
    OBVIOUS
  <2> HIDE DEF g, Upto
  <2> QED BY <2>2, <2>3
<1>4. ASSUME NEW n \in Nat \cap Good
      PROVE  n + 1 \in Good
  <2>1. PICK g \in [SUBSET D -> V] : Upto(g, n)
    OBVIOUS
  <2> DEFINE h == [s \in SUBSET D |-> IF Cardinality(s) <= n THEN g[s] ELSE Result(g, s)]
  <2>2. ASSUME NEW s \in SUBSET D, Cardinality(s) <= n + 1
        PROVE  h[s] = Result(h, s)
    <3>1. h[s] = Result(g, s)
      BY <2>1
    <3>2. s # {} => h[s \ {Pick[s]}] = g[s \ {Pick[s]}]
      <4> SUFFICES ASSUME s # {} PROVE h[s \ {Pick[s]}] = g[s \ {Pick[s]}]
        OBVIOUS
      <4>1. /\ Cardinality(s) \in Nat /\ s \ {Pick[s]} \in SUBSET D
            /\ Cardinality(s \ {Pick[s]}) = Cardinality(s) - 1
        BY <1>1, <1>2
      <4>2. Cardinality(s \ {Pick[s]}) <= n
        BY <2>2, <4>1
      <4> QED BY <4>1, <4>2
    <3> HIDE DEF h
    <3> QED BY <3>1, <3>2
  <2>3. h \in [SUBSET D -> V]
    BY <1>2, <2>1
  <2> HIDE DEF h, Result
  <2>4. Upto(h, n + 1)
    BY <2>2, <2>3
  <2> HIDE DEF Upto
  <2> QED BY <2>3, <2>4
<1>5. PICK g \in [SUBSET D -> V] : Upto(g, Cardinality(D))
  <2> HIDE DEF Good
  <2>1. Cardinality(D) \in Good
    BY <1>1, <1>3, <1>4, NatGrowth
  <2> QED BY <2>1 DEF Good
<1> QED BY <1>1, <1>5 DEF Folds

\* A relation that decides between any two of S and is transitive has a first
\* in S, when S is finite and not empty.
LEMMA FiniteBest ==
    ASSUME NEW S, IsFiniteSet(S), S # {}, NEW R,
           \A a, b \in S : a # b => <<a, b>> \in R \/ <<b, a>> \in R,
           \A a, b, c \in S : <<a, b>> \in R /\ <<b, c>> \in R => <<a, c>> \in R
    PROVE  \E m \in S : \A s \in S \ {m} : <<m, s>> \in R
<1> DEFINE Leads(T) == \E m \in T : \A s \in T \ {m} : <<m, s>> \in R
           Good == {T \in SUBSET S : T = {} \/ Leads(T)}
<1>1. ASSUME NEW T \in (SUBSET S) \cap Good, NEW x \in S \ T
      PROVE  T \cup {x} \in Good
  <2>1. CASE T = {}
    BY <2>1
  <2>2. CASE T # {}
    <3>1. PICK m \in T : \A s \in T \ {m} : <<m, s>> \in R
      BY <2>2
    <3>2. CASE <<m, x>> \in R
      BY <3>1, <3>2
    <3>3. CASE <<x, m>> \in R
      <4>1. \A s \in T : <<x, s>> \in R
        BY <3>1, <3>3
      <4> QED BY <4>1
    <3> QED BY <3>1, <3>2, <3>3
  <2> QED BY <2>1, <2>2
<1>2. {} \in Good
  OBVIOUS
<1> HIDE DEF Good
<1>3. S \in Good
  BY <1>1, <1>2, FiniteGrowth
<1> QED BY <1>3 DEF Good

\* A finite set of numbers that is not empty has a greatest one.
LEMMA FiniteMax ==
    ASSUME NEW S \in SUBSET Int, IsFiniteSet(S), S # {}
    PROVE  \E m \in S : \A s \in S : s <= m
<1> DEFINE R == {p \in S \X S : p[2] <= p[1]}
<1>1. \A a, b \in S : <<a, b>> \in R <=> b <= a
  OBVIOUS
<1> HIDE DEF R
<1>2. PICK m \in S : \A s \in S \ {m} : <<m, s>> \in R
  <2>1. \A a, b \in S : a # b => <<a, b>> \in R \/ <<b, a>> \in R
    BY <1>1
  <2>2. \A a, b, c \in S : <<a, b>> \in R /\ <<b, c>> \in R => <<a, c>> \in R
    BY <1>1
  <2> QED BY <2>1, <2>2, FiniteBest
<1>3. m \in Int
  OBVIOUS
<1>4. ASSUME NEW s \in S
      PROVE  s <= m
  <2>1. CASE s = m
    BY <1>3, <2>1
  <2>2. CASE s # m
    <3>1. <<m, s>> \in R
      BY <1>2, <2>2
    <3> QED BY <1>1, <3>1
  <2> QED BY <2>1, <2>2
<1> QED BY <1>4

=============================================================================
