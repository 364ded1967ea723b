------------------------------ MODULE FiniteSums ------------------------------
(***************************************************************************)
(* Sums over finite sets, as the models take them with MapThenSumSet, and  *)
(* what an addend more or less changes about them. MapThenSumSet picks the *)
(* addends in an order of its own; that the order does not matter is shown *)
(* here by induction. The induction is stated over a set of numbers or of  *)
(* sets, so that it can be cited without naming a predicate.               *)
(***************************************************************************)
EXTENDS Naturals, FiniteSets, FiniteSetTheorems, WellFoundedInduction, TLAPS

\* Induction on the natural numbers, for the members of a set.
LEMMA NumberInduction ==
  ASSUME NEW T \in SUBSET Nat, 0 \in T, \A n \in T: n + 1 \in T
  PROVE  T = Nat
<1> DEFINE U == Nat \ T
<1> SUFFICES ASSUME U # {} PROVE FALSE
  OBVIOUS
<1>1. PICK x \in U: \A y \in U: ~(<<y, x>> \in OpToRel(<, Nat))
  BY NatLessThanWellFounded, WFMin
<1>2. \A y \in U: ~(y < x)
  BY <1>1 DEF OpToRel
<1> QED
  BY <1>2

-----------------------------------------------------------------------------

Pick(A) == CHOOSE x \in A: TRUE

\* g[A] is the sum of F over A, for every subset A of S.
Sums(S, F, g) ==
  g = [A \in SUBSET S |-> IF A = {} THEN 0 ELSE F[Pick(A)] + g[A \ {Pick(A)}]]

LEMMA PickIn ==
  ASSUME NEW A, A # {}
  PROVE  Pick(A) \in A
BY DEF Pick

\* The subsets of a finite set are finite, and lose one with each element.
LEMMA SubsetCards ==
  ASSUME NEW S, IsFiniteSet(S), NEW A \in SUBSET S
  PROVE  /\ IsFiniteSet(A) /\ Cardinality(A) \in Nat
         /\ Cardinality(A) = 0 <=> A = {}
         /\ \A x \in A: A \ {x} \in SUBSET S /\ Cardinality(A \ {x}) = Cardinality(A) - 1
BY FS_Subset, FS_CardinalityType, FS_EmptySet, FS_RemoveElement

\* What holds of the empty set, and of a set when it holds of all sets with one
\* element less, holds of every subset of a finite set.
LEMMA SubsetInduction ==
  ASSUME NEW S, IsFiniteSet(S), NEW T,
         {} \in T,
         \A A \in SUBSET S: A # {} /\ (\A x \in A: A \ {x} \in T) => A \in T
  PROVE  SUBSET S \subseteq T
<1> DEFINE N == {n \in Nat: \A A \in SUBSET S: Cardinality(A) = n => A \in T}
<1>1. 0 \in N
  BY SubsetCards
<1>2. ASSUME NEW n \in N
      PROVE  n + 1 \in N
  <2> SUFFICES ASSUME NEW A \in SUBSET S, Cardinality(A) = n + 1
               PROVE  A \in T
    OBVIOUS
  <2>1. A # {} /\ \A x \in A: A \ {x} \in SUBSET S /\ Cardinality(A \ {x}) = n
    BY SubsetCards
  <2> QED
    BY <2>1
<1>3. N = Nat
  <2> HIDE DEF N
  <2>1. N \in SUBSET Nat
    BY DEF N
  <2> QED
    BY <1>1, <1>2, <2>1, NumberInduction
<1> QED
  BY <1>3, SubsetCards

\* There is a table of sums.
LEMMA SumsExist ==
  ASSUME NEW S, IsFiniteSet(S), NEW F \in [S -> Nat]
  PROVE  \E g \in [SUBSET S -> Nat]: Sums(S, F, g)
<1> DEFINE Up(n) == {A \in SUBSET S: Cardinality(A) <= n}
           Body(g, A) == IF A = {} THEN 0 ELSE F[Pick(A)] + g[A \ {Pick(A)}]
           N == {n \in Nat: \E g \in [Up(n) -> Nat]: \A A \in Up(n): g[A] = Body(g, A)}
<1>1. 0 \in N
  <2>1. \A A \in Up(0): A = {}
    BY SubsetCards
  <2>2. [A \in Up(0) |-> 0] \in [Up(0) -> Nat]
    OBVIOUS
  <2> QED
    BY <2>1, <2>2
<1>2. ASSUME NEW n \in N
      PROVE  n + 1 \in N
  <2>1. PICK g \in [Up(n) -> Nat]: \A A \in Up(n): g[A] = Body(g, A)
    OBVIOUS
  <2> DEFINE h == [A \in Up(n + 1) |-> IF A \in Up(n) THEN g[A] ELSE Body(g, A)]
  <2>2. ASSUME NEW A \in Up(n + 1), A # {}
        PROVE  F[Pick(A)] \in Nat /\ A \ {Pick(A)} \in Up(n)
    BY <2>2, PickIn, SubsetCards
  <2>3. h \in [Up(n + 1) -> Nat]
    BY <2>2
  <2>4. ASSUME NEW A \in Up(n + 1)
        PROVE  h[A] = Body(h, A)
    <3>1. CASE A = {}
      <4>1. A \in Up(n)
        BY <3>1, SubsetCards
      <4> QED
        BY <3>1, <4>1, <2>1
    <3>2. CASE A # {}
      <4>1. A \ {Pick(A)} \in Up(n) /\ A \ {Pick(A)} \in Up(n + 1)
        BY <2>2, <3>2, SubsetCards
      <4>2. h[A \ {Pick(A)}] = g[A \ {Pick(A)}]
        BY <4>1
      <4>3. h[A] = Body(g, A)
        BY <2>1
      <4> QED
        BY <3>2, <4>2, <4>3
    <3> QED
      BY <3>1, <3>2
  <2> HIDE DEF h, Body, Up
  <2>5. \E f \in [Up(n + 1) -> Nat]: \A A \in Up(n + 1): f[A] = Body(f, A)
    BY <2>3, <2>4
  <2> QED
    BY <2>5
<1>3. Cardinality(S) \in N
  <2> HIDE DEF N
  <2>1. N \in SUBSET Nat
    BY DEF N
  <2> QED
    BY <1>1, <1>2, <2>1, NumberInduction, FS_CardinalityType
<1>4. Up(Cardinality(S)) = SUBSET S
  <2>1. ASSUME NEW A \in SUBSET S PROVE Cardinality(A) <= Cardinality(S)
    BY FS_Subset
  <2> QED
    BY <2>1
<1>5. PICK g \in [SUBSET S -> Nat]: \A A \in SUBSET S: g[A] = Body(g, A)
  BY <1>3, <1>4
<1> QED
  BY <1>5 DEF Sums

\* A table of sums that is given as a function has numbers in it.
LEMMA SumsType ==
  ASSUME NEW S, IsFiniteSet(S), NEW F \in [S -> Nat], NEW g, Sums(S, F, g)
  PROVE  g \in [SUBSET S -> Nat]
<1> DEFINE T == {A \in SUBSET S: g[A] \in Nat}
<1>1. \A A \in SUBSET S: g[A] = IF A = {} THEN 0 ELSE F[Pick(A)] + g[A \ {Pick(A)}]
  BY DEF Sums
<1>2. {} \in T
  <2>1. {} \in SUBSET S
    OBVIOUS
  <2>2. g[{}] = 0
    BY <1>1, <2>1
  <2> QED
    BY <2>1, <2>2
<1>3. ASSUME NEW A \in SUBSET S, A # {}, \A x \in A: A \ {x} \in T
      PROVE  A \in T
  <2>1. Pick(A) \in A
    BY <1>3, PickIn
  <2>2. g[A \ {Pick(A)}] \in Nat /\ F[Pick(A)] \in Nat
    BY <1>3, <2>1
  <2>3. g[A] = F[Pick(A)] + g[A \ {Pick(A)}]
    BY <1>1, <1>3
  <2>4. g[A] \in Nat
    BY <2>2, <2>3
  <2> QED
    BY <2>4
<1>4. SUBSET S \subseteq T
  <2> HIDE DEF T
  <2> QED
    BY <1>2, <1>3, SubsetInduction
<1> QED
  BY <1>4 DEF Sums

\* The order of the addends does not matter.
LEMMA SumsRemove ==
  ASSUME NEW S, IsFiniteSet(S), NEW F \in [S -> Nat], NEW g, Sums(S, F, g),
         NEW A \in SUBSET S, NEW x \in A
  PROVE  g[A] = F[x] + g[A \ {x}]
<1> DEFINE T == {B \in SUBSET S: \A y \in B: g[B] = F[y] + g[B \ {y}]}
<1>1. \A B \in SUBSET S: g[B] = IF B = {} THEN 0 ELSE F[Pick(B)] + g[B \ {Pick(B)}]
  BY DEF Sums
<1>2. {} \in T
  OBVIOUS
<1>3. ASSUME NEW B \in SUBSET S, B # {}, \A z \in B: B \ {z} \in T
      PROVE  B \in T
  <2> SUFFICES ASSUME NEW y \in B PROVE g[B] = F[y] + g[B \ {y}]
    OBVIOUS
  <2> DEFINE p == Pick(B)
  <2>1. p \in B /\ g[B] = F[p] + g[B \ {p}]
    BY <1>1, <1>3, PickIn
  <2>2. CASE y = p
    BY <2>1, <2>2
  <2>3. CASE y # p
    <3>1. g[B \ {p}] = F[y] + g[(B \ {p}) \ {y}]
      BY <1>3, <2>1, <2>3
    <3>2. g[B \ {y}] = F[p] + g[(B \ {y}) \ {p}]
      BY <1>3, <2>1, <2>3
    <3>3. (B \ {p}) \ {y} = (B \ {y}) \ {p} /\ (B \ {p}) \ {y} \in SUBSET S
      OBVIOUS
    <3>4. F[y] \in Nat /\ F[p] \in Nat
      BY <2>1
    <3>5. PICK rest \in Nat: rest = g[(B \ {p}) \ {y}]
      <4>1. g \in [SUBSET S -> Nat]
        BY SumsType
      <4> QED
        BY <3>3, <4>1
    <3>6. g[B \ {p}] = F[y] + rest /\ g[B \ {y}] = F[p] + rest
      BY <3>1, <3>2, <3>3, <3>5
    <3> HIDE DEF p
    <3> QED
      BY <2>1, <3>4, <3>6
  <2> QED
    BY <2>2, <2>3
<1>4. SUBSET S \subseteq T
  <2> HIDE DEF T
  <2> QED
    BY <1>2, <1>3, SubsetInduction
<1> QED
  BY <1>4

\* A table over a larger set says the same.
LEMMA SumsUnique ==
  ASSUME NEW S, IsFiniteSet(S), NEW F \in [S -> Nat], NEW g, Sums(S, F, g),
         NEW R \in SUBSET S, NEW G, \A x \in R: G[x] = F[x], NEW h, Sums(R, G, h)
  PROVE  h[R] = g[R]
<1> DEFINE T == {A \in SUBSET R: h[A] = g[A]}
<1>1. /\ \A A \in SUBSET S: g[A] = IF A = {} THEN 0 ELSE F[Pick(A)] + g[A \ {Pick(A)}]
      /\ \A A \in SUBSET R: h[A] = IF A = {} THEN 0 ELSE G[Pick(A)] + h[A \ {Pick(A)}]
  BY DEF Sums
<1>2. {} \in T
  BY <1>1
<1>3. ASSUME NEW A \in SUBSET R, A # {}, \A x \in A: A \ {x} \in T
      PROVE  A \in T
  BY <1>1, <1>3, PickIn
<1>4. IsFiniteSet(R)
  BY FS_Subset
<1>5. SUBSET R \subseteq T
  <2> HIDE DEF T
  <2> QED
    BY <1>2, <1>3, <1>4, SubsetInduction
<1> QED
  BY <1>5

\* Naming the addends anew, each by another name, leaves the sum as it is.
LEMMA SumsRenamed ==
  ASSUME NEW S, IsFiniteSet(S), NEW F \in [S -> Nat], NEW g, Sums(S, F, g),
         NEW R, IsFiniteSet(R), NEW j \in [R -> S], \A x, y \in R: j[x] = j[y] => x = y,
         NEW G, \A x \in R: G[x] = F[j[x]], NEW h, Sums(R, G, h)
  PROVE  h[R] = g[{j[x] : x \in R}]
<1> DEFINE Names(A) == {j[x] : x \in A}
           T == {A \in SUBSET R: h[A] = g[Names(A)]}
<1>1. \A A \in SUBSET R: h[A] = IF A = {} THEN 0 ELSE G[Pick(A)] + h[A \ {Pick(A)}]
  BY DEF Sums
<1>2. {} \in T
  <2>1. Names({}) = {} /\ {} \in SUBSET S /\ {} \in SUBSET R
    OBVIOUS
  <2>2. g[{}] = 0
    BY <2>1 DEF Sums
  <2> QED
    BY <1>1, <2>1, <2>2
<1>3. ASSUME NEW A \in SUBSET R, A # {}, \A x \in A: A \ {x} \in T
      PROVE  A \in T
  <2> DEFINE p == Pick(A)
  <2>1. p \in A /\ h[A] = G[p] + h[A \ {p}]
    BY <1>1, <1>3, PickIn
  <2>2. Names(A) \in SUBSET S /\ j[p] \in Names(A)
    BY <2>1
  <2>3. Names(A \ {p}) = Names(A) \ {j[p]}
    BY <2>1
  <2> HIDE DEF Names
  <2>4. g[Names(A)] = F[j[p]] + g[Names(A) \ {j[p]}]
    BY <2>2, SumsRemove
  <2>5. h[A \ {p}] = g[Names(A \ {p})]
    BY <1>3, <2>1
  <2> QED
    BY <2>1, <2>3, <2>4, <2>5
<1>4. SUBSET R \subseteq T
  <2> HIDE DEF T
  <2> QED
    BY <1>2, <1>3, SubsetInduction
<1> QED
  BY <1>4

\* More addends, no smaller a sum.
LEMMA SumsMonotone ==
  ASSUME NEW S, IsFiniteSet(S), NEW F \in [S -> Nat], NEW g, Sums(S, F, g),
         NEW A \in SUBSET S, NEW B \in SUBSET A
  PROVE  g[B] <= g[A]
<1> DEFINE T == {C \in SUBSET S: B \subseteq C => g[B] <= g[C]}
<1>1. g \in [SUBSET S -> Nat]
  BY SumsType
<1>2. {} \in T
  <2>1. B \subseteq {} => B = {}
    OBVIOUS
  <2>2. {} \in SUBSET S
    OBVIOUS
  <2>3. g[{}] \in Nat
    BY <1>1, <2>2
  <2> QED
    BY <2>1, <2>2, <2>3
<1>3. ASSUME NEW C \in SUBSET S, C # {}, \A x \in C: C \ {x} \in T
      PROVE  C \in T
  <2>1. CASE B = C \/ ~(B \subseteq C)
    BY <1>1, <2>1
  <2>2. CASE B # C /\ B \subseteq C
    <3>1. PICK x \in C: x \notin B
      BY <2>2
    <3>2. g[B] <= g[C \ {x}]
      BY <1>3, <2>2, <3>1
    <3>3. g[C] = F[x] + g[C \ {x}]
      BY SumsRemove
    <3>4. F[x] \in Nat /\ g[C \ {x}] \in Nat /\ g[B] \in Nat
      BY <1>1
    <3>5. g[B] <= g[C]
      BY <3>2, <3>3, <3>4
    <3> QED
      BY <3>5
  <2> QED
    BY <2>1, <2>2
<1>4. SUBSET S \subseteq T
  <2> HIDE DEF T
  <2> QED
    BY <1>2, <1>3, SubsetInduction
<1> QED
  BY <1>4

\* Addends of at most five make a sum of at most five times their number.
LEMMA SumsBounded ==
  ASSUME NEW S, IsFiniteSet(S), NEW F \in [S -> 1..5], NEW g, Sums(S, F, g), NEW A \in SUBSET S
  PROVE  g[A] \in Nat /\ g[A] <= 5 * Cardinality(A)
<1> DEFINE T == {B \in SUBSET S: g[B] <= 5 * Cardinality(B)}
<1>1. g \in [SUBSET S -> Nat]
  BY SumsType
<1>2. g[{}] = 0 /\ Cardinality({}) = 0 /\ {} \in SUBSET S
  BY FS_EmptySet DEF Sums
<1>3. {} \in T
  BY <1>2
<1>4. ASSUME NEW B \in SUBSET S, B # {}, \A x \in B: B \ {x} \in T
      PROVE  B \in T
  <2>1. PICK x \in B: TRUE
    BY <1>4
  <2>2. g[B] = F[x] + g[B \ {x}] /\ F[x] \in 1..5 /\ g[B \ {x}] \in Nat
    BY <1>1, SumsRemove
  <2>3. g[B \ {x}] <= 5 * Cardinality(B \ {x})
    BY <1>4
  <2>4. Cardinality(B \ {x}) = Cardinality(B) - 1 /\ Cardinality(B) \in Nat
    BY SubsetCards
  <2> QED
    BY <2>2, <2>3, <2>4
<1>5. SUBSET S \subseteq T
  <2> HIDE DEF T
  <2> QED
    BY <1>3, <1>4, SubsetInduction
<1> QED
  BY <1>1, <1>5
=============================================================================
