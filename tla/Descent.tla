------------------------------- MODULE Descent -------------------------------
(***************************************************************************)
(* Descent: least and best elements of sets, and the lexicographic order   *)
(* of tuples of naturals by which the runs of the components shrink.       *)
(***************************************************************************)
EXTENDS Integers, WellFoundedInduction, FiniteSetTheorems, TLAPS

Tuples(k) == [1 .. k -> Nat]

\* m is lexicographically below n.
Below(k, m, n) == \E i \in 1 .. k : m[i] < n[i] /\ \A j \in 1 .. (i - 1) : m[j] = n[j]

Descends(k) == {p \in Tuples(k) \X Tuples(k) : Below(k, p[1], p[2])}

NatLess == {p \in Nat \X Nat : p[1] < p[2]}

LEMMA NatLessWellFounded == IsWellFoundedOn(NatLess, Nat)
  BY NatLessThanWellFounded DEF OpToRel, NatLess

\* A set of naturals has a least element.
THEOREM LeastExists ==
    ASSUME NEW T \in SUBSET Nat, T # {}
    PROVE  \E x \in T : \A y \in T : x <= y
  <1>1. PICK x \in T : \A y \in T : ~(<<y, x>> \in NatLess)
    BY NatLessWellFounded, WFMin
  <1>2. ASSUME NEW y \in T PROVE x <= y
    <2>1. x \in Nat /\ y \in Nat /\ ~(<<y, x>> \in NatLess)
      BY <1>1, <1>2
    <2>2. ~(y < x)
      BY <2>1 DEF NatLess
    <2> QED BY <2>1, <2>2
  <1> QED BY <1>2

\* Nothing descends for ever.
THEOREM NoEndlessDescent ==
    ASSUME NEW k \in Nat
    PROVE  IsWellFoundedOn(Descends(k), Tuples(k))
  <1>1. IsWellFoundedOn(LexProductOrdering(NatLess, Nat, k), Tuples(k))
    BY NatLessWellFounded, WFLexProductOrdering DEF Tuples
  <1>2. Descends(k) \subseteq LexProductOrdering(NatLess, Nat, k)
    BY DEF Descends, Below, Tuples, LexProductOrdering, NatLess
  <1> QED BY <1>1, <1>2, IsWellFoundedOnSubrelation

\* A proper part of a finite set has fewer elements.
LEMMA FewerElements ==
    ASSUME NEW S, IsFiniteSet(S), NEW T \in SUBSET S, T # S
    PROVE  Cardinality(T) < Cardinality(S)
  BY FS_Subset, FS_CardinalityType

\* A family of finite sets has a minimal one.
THEOREM MinimalExists ==
    ASSUME NEW S, IsFiniteSet(S), NEW F, F \subseteq SUBSET S, F # {}
    PROVE  \E U \in F : \A V \in F : V \subseteq U => V = U
  <1>1. IsWellFoundedOn(StrictSubsetOrdering(S), SUBSET S)
    BY FS_StrictSubsetOrderingWellFounded, FS_FiniteSubsetsOfFinite
  <1>2. PICK U \in F : \A V \in F : ~(<<V, U>> \in StrictSubsetOrdering(S))
    BY <1>1, WFMin
  <1>3. \A V \in F : V \subseteq U => V = U
    BY <1>2 DEF StrictSubsetOrdering
  <1> QED BY <1>3

\* A finite set has a best element, in any order that compares all of them.
\* Otherwise take the smallest part of it without one: it has one when an
\* element is taken away, and the better of the two is the best of all.
THEOREM BestExists ==
    ASSUME NEW S, S # {}, IsFiniteSet(S), NEW R,
           \A x, y \in S : <<x, y>> \in R \/ <<y, x>> \in R,
           \A x, y, z \in S : <<x, y>> \in R /\ <<y, z>> \in R => <<x, z>> \in R
    PROVE  \E x \in S : \A y \in S : <<x, y>> \in R
  <1>1. PICK F : F = {U \in SUBSET S : U # {} /\ ~ \E x \in U : \A y \in U : <<x, y>> \in R}
    OBVIOUS
  <1>2. SUFFICES ASSUME S \in F PROVE FALSE
    BY <1>1
  <1>3. F \subseteq SUBSET S /\ F # {}
    BY <1>1, <1>2
  <1>4. PICK U \in F : \A V \in F : V \subseteq U => V = U
    BY <1>3, MinimalExists
  <1>5. PICK x \in U : TRUE
    BY <1>1, <1>4
  <1>6. U \subseteq S /\ U \ {x} \in SUBSET S /\ U \ {x} \notin F
    <2>1. U \in SUBSET S
      BY <1>3
    <2>2. x \in U
      BY <1>1, <1>5
    <2>3. U \ {x} # U
      BY <2>2
    <2>4. U \ {x} \notin F
      BY <2>3, <1>4
    <2> QED BY <2>1, <2>4
  <1>7. U \ {x} = {} \/ \E m \in U \ {x} : \A y \in U \ {x} : <<m, y>> \in R
    BY <1>1, <1>6
  <1>8. CASE U \ {x} = {}
    <2>1. \A y \in U : <<x, y>> \in R
      BY <1>5, <1>6, <1>8
    <2> QED BY <1>1, <1>4, <1>5, <2>1
  <1>9. ASSUME NEW m \in U \ {x}, \A y \in U \ {x} : <<m, y>> \in R PROVE FALSE
    <2>1. CASE <<m, x>> \in R
      <3>1. \A y \in U : <<m, y>> \in R
        BY <1>9, <2>1
      <3> QED BY <1>1, <1>4, <3>1
    <2>2. CASE <<x, m>> \in R
      <3>1. \A y \in U : <<x, y>> \in R
        BY <1>5, <1>6, <1>9, <2>2
      <3> QED BY <1>1, <1>4, <1>5, <3>1
    <2> QED BY <1>5, <1>6, <2>1, <2>2
  <1> QED BY <1>7, <1>8, <1>9

=============================================================================
