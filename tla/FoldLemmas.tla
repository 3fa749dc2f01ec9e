----------------------------- MODULE FoldLemmas -----------------------------
(***************************************************************************)
(* What the folds of the community modules return for a finite set of      *)
(* integers, taken from its largest element down (FoldExists), and how     *)
(* something is shown of every such fold (FoldInduction).                  *)
(***************************************************************************)
EXTENDS Integers, FiniteSets, FiniteSetsExt, FiniteSetTheorems, WellFoundedInduction, TLAPS

\* Of subsets of a finite set one is minimal.
LEMMA MinimalSubset ==
    ASSUME NEW S, IsFiniteSet(S), NEW X, X # {}, \A A \in X : A \subseteq S
    PROVE  \E A \in X : \A B \in X : B \subseteq A => B = A
<1> DEFINE R == StrictSubsetOrdering(S)
<1>1. FiniteSubsetsOf(S) = SUBSET S /\ X \subseteq SUBSET S
  BY FS_FiniteSubsetsOfFinite
<1>2. IsWellFoundedOn(R, SUBSET S)
  BY <1>1, FS_StrictSubsetOrderingWellFounded
<1>3. PICK A \in X : \A B \in X : ~(<<B, A>> \in R)
  <2> HIDE DEF R
  <2> QED BY <1>2, WFMin
<1>4. \A B \in X : B \subseteq A /\ B # A => <<B, A>> \in R
  <2> SUFFICES ASSUME NEW B \in X, B \subseteq A, B # A
               PROVE  <<B, A>> \in R
    OBVIOUS
  <2>1. A \in SUBSET S /\ B \in SUBSET S
    BY <1>1
  <2> QED BY <2>1 DEF StrictSubsetOrdering
<1> HIDE DEF R
<1>5. \A B \in X : B \subseteq A => B = A
  BY <1>3, <1>4
<1> QED BY <1>5

\* What is the largest element is Max.
LEMMA MaxIs ==
    ASSUME NEW S \in SUBSET Int, NEW x \in S, \A y \in S : x >= y
    PROVE  Max(S) = x
<1>1. \A z \in S : (\A y \in S : z >= y) => z = x
  OBVIOUS
<1> QED BY <1>1 DEF Max

\* A finite set has a largest element.
LEMMA MaxIn ==
    ASSUME NEW S \in SUBSET Int, IsFiniteSet(S), S # {}
    PROVE  /\ Max(S) \in S /\ \A y \in S : Max(S) >= y
<1> DEFINE NoMax(A) == ~\E x \in A : \A y \in A : x >= y
           X == {A \in SUBSET S : A # {} /\ NoMax(A)}
<1>1. ASSUME X # {}
      PROVE  FALSE
  <2>1. PICK A \in X : \A B \in X : B \subseteq A => B = A
    <3>1. \A A \in X : A \subseteq S
      OBVIOUS
    <3> HIDE DEF X
    <3> QED BY <1>1, <3>1, MinimalSubset
  <2>2. PICK x \in A : TRUE
    OBVIOUS
  <2>3. CASE A \ {x} = {}
    <3>1. A = {x}
      BY <2>3
    <3> QED BY <3>1
  <2>4. CASE A \ {x} # {}
    <3>1. A \ {x} \notin X
      BY <2>1, <2>2
    <3>2. PICK m \in A \ {x} : \A y \in A \ {x} : m >= y
      BY <2>4, <3>1
    <3> QED BY <3>2
  <2> QED BY <2>3, <2>4
<1>2. \E x \in S : \A y \in S : x >= y
  BY <1>1
<1> QED BY <1>2 DEF Max

\* A finite set of integers that is not empty has a smallest element.
LEMMA MinIn ==
    ASSUME NEW S \in SUBSET Int, IsFiniteSet(S), S # {}
    PROVE  /\ Min(S) \in S /\ \A y \in S : Min(S) <= y
<1> DEFINE NoMin(A) == ~\E x \in A : \A y \in A : x <= y
           X == {A \in SUBSET S : A # {} /\ NoMin(A)}
<1>1. ASSUME X # {}
      PROVE  FALSE
  <2>1. PICK A \in X : \A B \in X : B \subseteq A => B = A
    <3>1. \A A \in X : A \subseteq S
      OBVIOUS
    <3> HIDE DEF X
    <3> QED BY <1>1, <3>1, MinimalSubset
  <2>2. PICK x \in A : TRUE
    OBVIOUS
  <2>3. CASE A \ {x} = {}
    <3>1. A = {x}
      BY <2>3
    <3> QED BY <3>1
  <2>4. CASE A \ {x} # {}
    <3>1. A \ {x} \notin X
      BY <2>1, <2>2
    <3>2. PICK m \in A \ {x} : \A y \in A \ {x} : m <= y
      BY <2>4, <3>1
    <3> QED BY <3>2
  <2> QED BY <2>3, <2>4
<1>2. \E x \in S : \A y \in S : x <= y
  BY <1>1
<1> QED BY <1>2 DEF Min

\* W is the fold of F from b for the subsets of S, with values in J.
IsFold(W, S, J, b, F) ==
    /\ W \in [SUBSET S -> J]
    /\ \A s \in SUBSET S : W[s] = IF s = {} THEN b ELSE F[<<Max(s), W[s \ {Max(s)}]>>]

\* There is such a function: the CHOOSE in MapThenFoldSet finds one.
LEMMA FoldExists ==
    ASSUME NEW S \in SUBSET Int, IsFiniteSet(S), NEW J, NEW b \in J,
           NEW F \in [S \X J -> J]
    PROVE  \E W : IsFold(W, S, J, b, F)
<1> DEFINE Folds(W, T) == \A s \in SUBSET T :
               W[s] = IF s = {} THEN b ELSE F[<<Max(s), W[s \ {Max(s)}]>>]
           X == {T \in SUBSET S : ~\E W \in [SUBSET T -> J] : Folds(W, T)}
<1>1. ASSUME X # {}
      PROVE  FALSE
  <2>1. PICK T \in X : \A B \in X : B \subseteq T => B = T
    <3>1. \A A \in X : A \subseteq S
      OBVIOUS
    <3> HIDE DEF X
    <3> QED BY <1>1, <3>1, MinimalSubset
  <2>2. T # {}
    <3>1. SUFFICES ASSUME T = {} PROVE FALSE
      OBVIOUS
    <3> DEFINE V == [s \in SUBSET T |-> b]
    <3>2. V \in [SUBSET T -> J]
      OBVIOUS
    <3>3. Folds(V, T)
      BY <3>1
    <3> QED BY <2>1, <3>2, <3>3
  <2> DEFINE m == Max(T)
             U == T \ {m}
  <2>3. m \in T /\ \A y \in T : m >= y
    BY <2>1, <2>2, FS_Subset, MaxIn
  <2>4. U \notin X
    <3>1. U \subseteq T /\ U # T
      BY <2>3
    <3> HIDE DEF X
    <3> QED BY <2>1, <3>1
  <2>5. PICK V \in [SUBSET U -> J] : Folds(V, U)
    <3>1. U \in SUBSET S
      BY <2>1
    <3> QED BY <2>4, <3>1
  <2> DEFINE W == [s \in SUBSET T |-> IF m \in s THEN F[<<m, V[s \ {m}]>>] ELSE V[s]]
  <2>6. \A s \in SUBSET T : /\ s \ {m} \in SUBSET U
                            /\ m \notin s => s \in SUBSET U
                            /\ m \in s => Max(s) = m
    BY <2>3, MaxIs
  <2>7. W \in [SUBSET T -> J]
    <3> SUFFICES ASSUME NEW s \in SUBSET T
                 PROVE  (IF m \in s THEN F[<<m, V[s \ {m}]>>] ELSE V[s]) \in J
      OBVIOUS
    <3>1. CASE m \in s
      <4>1. V[s \ {m}] \in J /\ m \in S
        BY <2>1, <2>3, <2>5, <2>6
      <4> QED BY <3>1, <4>1
    <3>2. CASE m \notin s
      BY <2>5, <2>6, <3>2
    <3> QED BY <3>1, <3>2
  <2>8. Folds(W, T)
    <3> SUFFICES ASSUME NEW s \in SUBSET T
                 PROVE  W[s] = IF s = {} THEN b ELSE F[<<Max(s), W[s \ {Max(s)}]>>]
      OBVIOUS
    <3>1. CASE m \in s
      <4>1. Max(s) = m /\ s \ {m} \in SUBSET T /\ m \notin s \ {m} /\ s # {}
        BY <2>6, <3>1
      <4>2. W[s] = F[<<m, V[s \ {m}]>>] /\ W[s \ {m}] = V[s \ {m}]
        BY <3>1, <4>1
      <4> QED BY <4>1, <4>2
    <3>2. CASE m \notin s
      <4>1. s \in SUBSET U /\ W[s] = V[s]
        BY <2>6, <3>2
      <4>2. CASE s = {}
        BY <2>5, <4>1, <4>2
      <4>3. CASE s # {}
        <5>1. Max(s) \in s
          BY <4>3, FS_Subset, MaxIn
        <5>2. s \ {Max(s)} \in SUBSET T /\ m \notin s \ {Max(s)}
          BY <3>2
        <5>3. W[s \ {Max(s)}] = V[s \ {Max(s)}]
          BY <5>2
        <5> QED BY <2>5, <4>1, <4>3, <5>3
      <4> QED BY <4>2, <4>3
    <3> QED BY <3>1, <3>2
  <2> QED BY <2>1, <2>7, <2>8
<1>2. S \notin X
  BY <1>1
<1> QED BY <1>2 DEF IsFold

\* What holds of the empty set, and is kept when a largest element is added,
\* holds of every subset.
LEMMA FoldInduction ==
    ASSUME NEW S \in SUBSET Int, IsFiniteSet(S), NEW G, NEW W,
           <<{}, W[{}]>> \in G,
           \A s \in SUBSET S : s # {} /\ <<s \ {Max(s)}, W[s \ {Max(s)}]>> \in G
                                 => <<s, W[s]>> \in G
    PROVE  \A s \in SUBSET S : <<s, W[s]>> \in G
<1> DEFINE X == {s \in SUBSET S : <<s, W[s]>> \notin G}
<1>1. ASSUME X # {}
      PROVE  FALSE
  <2>1. PICK s \in X : \A B \in X : B \subseteq s => B = s
    <3>1. \A A \in X : A \subseteq S
      OBVIOUS
    <3> HIDE DEF X
    <3> QED BY <1>1, <3>1, MinimalSubset
  <2>2. s # {}
    BY <2>1
  <2>3. Max(s) \in s
    BY <2>2, FS_Subset, MaxIn
  <2>4. s \ {Max(s)} \notin X
    <3>1. s \ {Max(s)} \subseteq s /\ s \ {Max(s)} # s
      BY <2>3
    <3> HIDE DEF X
    <3> QED BY <2>1, <3>1
  <2> QED BY <2>1, <2>2, <2>4
<1> QED BY <1>1

==============================================================================
