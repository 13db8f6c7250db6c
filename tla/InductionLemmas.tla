--------------------------- MODULE InductionLemmas ---------------------------
(***************************************************************************)
(* What the proofs keep needing of numbers, of finite sets and of the sums *)
(* of FiniteSetsExt.                                                       *)
(* Every one of them is an induction, done with a minimal counterexample.  *)
(***************************************************************************)
EXTENDS Integers, FiniteSetsExt, FiniteSetTheorems, TLAPS

\* Of some numbers one is the least.
LEMMA LeastNumber ==
  ASSUME NEW T, T \subseteq Nat, T # {}
  PROVE  \E n \in T : \A m \in T : n <= m
<1> DEFINE R == OpToRel(<, Nat)
<1>1. IsWellFoundedOn(R, Nat)
  BY NatLessThanWellFounded
<1>2. PICK n \in T : \A m \in T : ~ (<<m, n>> \in R)
  <2>. HIDE DEF R
  <2>. QED
    BY <1>1, WFMin
<1>3. \A m \in T : ~(m < n)
  <2> SUFFICES ASSUME NEW m \in T, m < n PROVE FALSE
    OBVIOUS
  <2>1. <<m, n>> \in Nat \X Nat /\ <<m, n>>[1] < <<m, n>>[2]
    OBVIOUS
  <2>2. <<m, n>> \in R
    BY <2>1 DEF OpToRel
  <2>. HIDE DEF R
  <2>. QED
    BY <1>2, <2>2
<1>. HIDE DEF R
<1>4. \A m \in T : m \in Nat /\ n \in Nat
  OBVIOUS
<1>. QED
  BY <1>3, <1>4

\* A set that has 0, and with a number the next one, has every number.
LEMMA Induct ==
  ASSUME NEW T, 0 \in T, \A n \in Nat : n \in T => n + 1 \in T
  PROVE  Nat \subseteq T
<1> DEFINE U == Nat \ T
<1>1. SUFFICES ASSUME U # {} PROVE FALSE
  OBVIOUS
<1>2. U \subseteq Nat
  OBVIOUS
<1>3. PICK n \in U : \A m \in U : n <= m
  <2>. HIDE DEF U
  <2>. QED
    BY <1>1, <1>2, LeastNumber
<1>4. n # 0 /\ n - 1 \in Nat
  BY <1>3
<1>5. n - 1 \in T
  BY <1>3, <1>4
<1>. QED
  BY <1>3, <1>4, <1>5

----------------------------------------------------------------------------
\* Finite sets.

\* Of some subsets of a finite set one has no other of them inside: induction over a finite set.
LEMMA SmallestSet ==
  ASSUME NEW D, IsFiniteSet(D), NEW X, X \subseteq SUBSET D, X # {}
  PROVE  \E S \in X : \A T \in SUBSET S : T # S => T \notin X
<1> DEFINE R == StrictSubsetOrdering(D)
<1>1. IsWellFoundedOn(R, SUBSET D)
  <2>1. FiniteSubsetsOf(D) = SUBSET D
    BY FS_FiniteSubsetsOfFinite
  <2>2. IsWellFoundedOn(R, FiniteSubsetsOf(D))
    BY FS_StrictSubsetOrderingWellFounded
  <2>. QED
    BY <2>1, <2>2
<1>2. PICK S \in X : \A T \in X : ~ (<<T, S>> \in R)
  <2>. HIDE DEF R
  <2>. QED
    BY <1>1, WFMin
<1>3. SUFFICES ASSUME NEW T \in SUBSET S, T # S, T \in X
               PROVE  FALSE
  OBVIOUS
<1>4. <<T, S>> \in R
  BY <1>3 DEF StrictSubsetOrdering
<1>. QED
  BY <1>2, <1>3, <1>4

----------------------------------------------------------------------------
\* Sums: the library takes the elements in the order of a choice, and nothing depends on it.

First(S) == CHOOSE x \in S : TRUE

SumOf(F, S) == MapThenSumSet(LAMBDA x : F[x], S)

\* The function of the fold.
Folds(F, S, sum) ==
    sum = [T \in SUBSET S |-> IF T = {} THEN 0 ELSE F[First(T)] + sum[T \ {First(T)}]]

LEMMA FirstIsMember ==
  ASSUME NEW S, S # {}
  PROVE  First(S) \in S
BY DEF First

\* One function is the fold's.
LEMMA OneFold ==
  ASSUME NEW D, IsFiniteSet(D), NEW F, NEW S \in SUBSET D, NEW f, NEW g,
          Folds(F, S, f), Folds(F, S, g)
  PROVE  \A T \in SUBSET S : f[T] = g[T]
<1> DEFINE X == {T \in SUBSET S : f[T] # g[T]}
<1>1. SUFFICES ASSUME X # {}
               PROVE  FALSE
  OBVIOUS
<1>2. X \subseteq SUBSET D
  OBVIOUS
<1>3. PICK T \in X : \A U \in SUBSET T : U # T => U \notin X
  <2>. HIDE DEF X
  <2>. QED
    BY <1>1, <1>2, SmallestSet
<1>4. f[T] = (IF T = {} THEN 0 ELSE F[First(T)] + f[T \ {First(T)}])
  BY <1>3 DEF Folds
<1>5. g[T] = (IF T = {} THEN 0 ELSE F[First(T)] + g[T \ {First(T)}])
  BY <1>3 DEF Folds
<1>6. T # {} /\ First(T) \in T
  BY <1>3, <1>4, <1>5, FirstIsMember
<1>7. T \ {First(T)} \in SUBSET T /\ T \ {First(T)} # T /\ T \ {First(T)} \in SUBSET S
  BY <1>3, <1>6
<1>8. f[T \ {First(T)}] = g[T \ {First(T)}]
  BY <1>3, <1>7
<1>. QED
  BY <1>3, <1>4, <1>5, <1>6, <1>8

LEMMA SumIsFold ==
  ASSUME NEW F, NEW S
  PROVE  SumOf(F, S) = (CHOOSE f : Folds(F, S, f))[S]
BY Zenon DEF SumOf, MapThenSumSet, MapThenFoldSet, Folds, First

\* What the fold says of a set.
Unfolds(F, S) == SumOf(F, S) = IF S = {} THEN 0 ELSE F[First(S)] + SumOf(F, S \ {First(S)})

\* It says it of a set if of the smaller ones.
LEMMA SumOfSmaller ==
  ASSUME NEW D, IsFiniteSet(D), NEW F, NEW S \in SUBSET D,
         \A T \in SUBSET S : T # S => Unfolds(F, T)
  PROVE  Unfolds(F, S)
<1> DEFINE g == [T \in SUBSET S |-> IF T = {} THEN 0 ELSE F[First(T)] + SumOf(F, T \ {First(T)})]
<1>1. \A T \in SUBSET S : T # S => g[T] = SumOf(F, T)
  BY DEF Unfolds
<1>2. \A T \in SUBSET S : T # {} => g[T] = F[First(T)] + g[T \ {First(T)}]
  <2>. SUFFICES ASSUME NEW T \in SUBSET S, T # {}
                PROVE  g[T] = F[First(T)] + g[T \ {First(T)}]
    OBVIOUS
  <2>1. First(T) \in T
    BY FirstIsMember
  <2>2. T \ {First(T)} \in SUBSET S /\ T \ {First(T)} # S
    BY <2>1
  <2>3. g[T \ {First(T)}] = SumOf(F, T \ {First(T)})
    BY <1>1, <2>2
  <2>. QED
    BY <2>3
<1>3. g = [T \in SUBSET S |-> IF T = {} THEN 0 ELSE F[First(T)] + g[T \ {First(T)}]]
  <2>1. \A T \in SUBSET S : g[T] = IF T = {} THEN 0 ELSE F[First(T)] + g[T \ {First(T)}]
    BY <1>2
  <2>2. g = [T \in SUBSET S |-> g[T]]
    OBVIOUS
  <2>. HIDE DEF g
  <2>. QED
    BY <2>1, <2>2
<1>4. Folds(F, S, g)
  <2>. HIDE DEF g
  <2>. QED
    BY <1>3 DEF Folds
<1>5. Folds(F, S, CHOOSE f : Folds(F, S, f))
  <2>. HIDE DEF g
  <2>. QED
    BY <1>4, Zenon
<1>6. SumOf(F, S) = g[S]
  <2>. HIDE DEF g
  <2>. QED
    BY <1>4, <1>5, OneFold, SumIsFold
<1>. QED
  BY <1>6 DEF Unfolds

LEMMA SumFolds ==
  ASSUME NEW D, IsFiniteSet(D), NEW F, NEW S \in SUBSET D
  PROVE  SumOf(F, S) = IF S = {} THEN 0 ELSE F[First(S)] + SumOf(F, S \ {First(S)})
<1> DEFINE X == {T \in SUBSET D : ~Unfolds(F, T)}
<1>1. SUFFICES ASSUME X # {}
               PROVE  FALSE
  BY DEF Unfolds
<1>2. PICK T \in X : \A U \in SUBSET T : U # T => U \notin X
  <2>1. X \subseteq SUBSET D
    OBVIOUS
  <2>. HIDE DEF X
  <2>. QED
    BY <1>1, <2>1, SmallestSet
<1>3. T \in SUBSET D /\ \A U \in SUBSET T : U # T => Unfolds(F, U)
  BY <1>2
<1>4. Unfolds(F, T)
  BY <1>3, SumOfSmaller
<1>. QED
  BY <1>2, <1>4

LEMMA SumEmpty ==
  ASSUME NEW D, IsFiniteSet(D), NEW F \in [D -> Nat]
  PROVE  SumOf(F, {}) = 0
BY SumFolds

LEMMA SumNat ==
  ASSUME NEW D, IsFiniteSet(D), NEW F \in [D -> Nat],
         NEW S \in SUBSET D
  PROVE  SumOf(F, S) \in Nat
<1> DEFINE X == {T \in SUBSET D : SumOf(F, T) \notin Nat}
<1>1. SUFFICES ASSUME X # {}
               PROVE  FALSE
  OBVIOUS
<1>2. PICK T \in X : \A U \in SUBSET T : U # T => U \notin X
  <2>1. X \subseteq SUBSET D
    OBVIOUS
  <2>. HIDE DEF X
  <2>. QED
    BY <1>1, <2>1, SmallestSet
<1>3. T # {}
  <2>1. SumOf(F, {}) \in Nat
    BY SumEmpty
  <2>2. SumOf(F, T) \notin Nat
    BY <1>2
  <2>. QED
    BY <2>1, <2>2, Zenon
<1>4. First(T) \in T
  BY <1>3, FirstIsMember
<1>5. SumOf(F, T \ {First(T)}) \in Nat
  BY <1>2, <1>4
<1>6. SumOf(F, T) = F[First(T)] + SumOf(F, T \ {First(T)})
  BY <1>2, <1>3, SumFolds
<1>7. F[First(T)] \in Nat
  BY <1>2, <1>4
<1>. QED
  BY <1>2, <1>5, <1>6, <1>7

\* Any element may be taken first.
LEMMA SumRemove ==
  ASSUME NEW D, IsFiniteSet(D), NEW F \in [D -> Nat],
         NEW S \in SUBSET D, NEW x \in S
  PROVE  SumOf(F, S) = F[x] + SumOf(F, S \ {x})
<1> DEFINE Any(T) == \A u \in T : SumOf(F, T) = F[u] + SumOf(F, T \ {u})
           X == {T \in SUBSET D : ~Any(T)}
<1>1. SUFFICES ASSUME X # {}
               PROVE  FALSE
  OBVIOUS
<1>2. PICK T \in X : \A U \in SUBSET T : U # T => U \notin X
  <2>1. X \subseteq SUBSET D
    OBVIOUS
  <2>. HIDE DEF X
  <2>. QED
    BY <1>1, <2>1, SmallestSet
<1>3. \A U \in SUBSET T : U # T => Any(U)
  <2>. HIDE DEF Any
  <2>. QED
    BY <1>2
<1>4. ASSUME NEW u \in T
      PROVE  SumOf(F, T) = F[u] + SumOf(F, T \ {u})
  <2> DEFINE y == First(T)
  <2>1. y \in T
    BY FirstIsMember
  <2>2. SumOf(F, T) = F[y] + SumOf(F, T \ {y})
    BY <1>2, <2>1, SumFolds
  <2>. HIDE DEF y
  <2>3. CASE u = y
    BY <2>2, <2>3
  <2>4. CASE u # y
    <3>1. Any(T \ {y}) /\ Any(T \ {u})
      <4>. HIDE DEF Any
      <4>. QED
        BY <1>3, <2>1
    <3>2. SumOf(F, T \ {y}) = F[u] + SumOf(F, (T \ {y}) \ {u})
      BY <3>1, <2>4
    <3>3. SumOf(F, T \ {u}) = F[y] + SumOf(F, (T \ {u}) \ {y})
      BY <3>1, <2>1, <2>4
    <3> DEFINE z == SumOf(F, (T \ {y}) \ {u})
    <3>4. (T \ {u}) \ {y} = (T \ {y}) \ {u}
      OBVIOUS
    <3>5. z = SumOf(F, (T \ {u}) \ {y})
      BY <3>4, Zenon
    <3>6. F[u] \in Nat /\ F[y] \in Nat /\ z \in Nat
      BY <1>2, <2>1, SumNat
    <3>7. SumOf(F, T) = F[y] + (F[u] + z)
      BY <2>2, <3>2, Zenon
    <3>8. F[u] + SumOf(F, T \ {u}) = F[u] + (F[y] + z)
      BY <3>3, <3>5, Zenon
    <3>. HIDE DEF z
    <3>9. F[y] + (F[u] + z) = F[u] + (F[y] + z)
      BY <3>6
    <3>. QED
      BY <3>7, <3>8, <3>9, Zenon
  <2>. QED
    BY <2>3, <2>4
<1>. QED
  BY <1>2, <1>4

\* Sets apart from each other add up.
LEMMA SumApart ==
  ASSUME NEW D, IsFiniteSet(D), NEW F \in [D -> Nat],
         NEW A \in SUBSET D, NEW B \in SUBSET D, A \cap B = {}
  PROVE  SumOf(F, A \cup B) = SumOf(F, A) + SumOf(F, B)
<1> DEFINE Adds(T) == SumOf(F, A \cup T) = SumOf(F, A) + SumOf(F, T)
           X == {T \in SUBSET B : ~Adds(T)}
<1>1. SUFFICES ASSUME X # {}
               PROVE  FALSE
  OBVIOUS
<1>2. PICK T \in X : \A U \in SUBSET T : U # T => U \notin X
  <2>1. X \subseteq SUBSET D
    OBVIOUS
  <2>. HIDE DEF X
  <2>. QED
    BY <1>1, <2>1, SmallestSet
<1>3. \A U \in SUBSET T : U # T => Adds(U)
  <2>. HIDE DEF Adds
  <2>. QED
    BY <1>2
<1>4. CASE T = {}
  BY <1>2, <1>4, SumEmpty, SumNat
<1>5. CASE T # {}
  <2> DEFINE x == First(T)
  <2>1. x \in T
    BY <1>5, FirstIsMember
  <2>. HIDE DEF x
  <2>2. Adds(T \ {x})
    <3>. HIDE DEF Adds
    <3>. QED
      BY <1>3, <2>1
  <2>3. SumOf(F, T) = F[x] + SumOf(F, T \ {x})
    BY <1>2, <2>1, SumRemove
  <2>4. SumOf(F, A \cup T) = F[x] + SumOf(F, (A \cup T) \ {x})
    BY <1>2, <2>1, SumRemove
  <2>5. (A \cup T) \ {x} = A \cup (T \ {x})
    BY <1>2, <2>1
  <2>6. F[x] \in Nat /\ SumOf(F, A) \in Nat /\ SumOf(F, T \ {x}) \in Nat
    BY <1>2, <2>1, SumNat
  <2>7. SumOf(F, A \cup T) = F[x] + (SumOf(F, A) + SumOf(F, T \ {x}))
    BY <2>2, <2>4, <2>5, Zenon
  <2>8. SumOf(F, A) + SumOf(F, T) = SumOf(F, A) + (F[x] + SumOf(F, T \ {x}))
    BY <2>3, Zenon
  <2>9. Adds(T)
    BY <2>6, <2>7, <2>8
  <2>. QED
    BY <1>2, <2>9
<1>. QED
  BY <1>4, <1>5

==============================================================================
