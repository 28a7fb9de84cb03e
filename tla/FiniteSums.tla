----------------------------- MODULE FiniteSums -----------------------------
(***************************************************************************)
(* Sums of an integer function over a finite set, as MapThenSumSet of the  *)
(* community modules computes them, and induction over the numbers and     *)
(* over the subsets of a finite set.  The induction hypothesis is a set of *)
(* numbers or of sets, which is all the well-founded orders of the library *)
(* ask for.                                                                *)
(***************************************************************************)
EXTENDS Integers, FiniteSetTheorems, WellFoundedInduction, TLAPS

\* Induction over the numbers, for a set of them.
LEMMA NatSetInduction ==
    ASSUME NEW G, 0 \in G, \A n \in Nat : n \in G => n + 1 \in G
    PROVE  Nat \subseteq G
<1> DEFINE Bad == {n \in Nat : n \notin G}
<1>1. SUFFICES ASSUME Bad # {} PROVE FALSE
  OBVIOUS
<1>2. Bad \subseteq Nat
  OBVIOUS
<1>3. PICK n \in Bad : \A m \in Bad : ~(<<m, n>> \in OpToRel(<, Nat))
  <2> HIDE DEF Bad
  <2> QED BY <1>1, <1>2, NatLessThanWellFounded, WFMin
<1>4. \A m \in Bad : ~(m < n)
  BY <1>3 DEF OpToRel
<1>5. n # 0 /\ n - 1 \in Nat /\ n - 1 \in G
  BY <1>4
<1> QED
  BY <1>4, <1>5

\* Induction over the subsets of a finite set, by taking elements away.
LEMMA SubsetInduction ==
    ASSUME NEW S, IsFiniteSet(S), NEW G,
           \A T \in SUBSET S : (\A x \in T : T \ {x} \in G) => T \in G
    PROVE  SUBSET S \subseteq G
<1> DEFINE Bad == {T \in SUBSET S : T \notin G}
<1>1. SUFFICES ASSUME Bad # {} PROVE FALSE
  OBVIOUS
<1>2. FiniteSubsetsOf(S) = SUBSET S
  BY FS_FiniteSubsetsOfFinite
<1>3. IsWellFoundedOn(StrictSubsetOrdering(S), SUBSET S)
  BY <1>2, FS_StrictSubsetOrderingWellFounded
<1>4. Bad \subseteq SUBSET S
  OBVIOUS
<1>5. PICK T \in Bad : \A U \in Bad : ~(<<U, T>> \in StrictSubsetOrdering(S))
  <2> HIDE DEF Bad
  <2> QED BY <1>1, <1>3, <1>4, WFMin
<1>6. ASSUME NEW x \in T PROVE T \ {x} \in G
  <2>1. T \ {x} \in SUBSET S /\ T \in SUBSET S /\ T \ {x} \subseteq T /\ T \ {x} # T
    OBVIOUS
  <2>2. <<T \ {x}, T>> \in StrictSubsetOrdering(S)
    BY <2>1 DEF StrictSubsetOrdering
  <2>3. T \ {x} \notin Bad
    BY <1>5, <2>2
  <2> QED
    BY <2>1, <2>3
<1> QED
  BY <1>6

\* A set of numbers has a least element, ...
LEMMA HasLeast ==
    ASSUME NEW S, S \subseteq Nat, S # {}
    PROVE  \E x \in S : \A y \in S : x <= y
<1>1. PICK x \in S : \A y \in S : ~(<<y, x>> \in OpToRel(<, Nat))
  BY NatLessThanWellFounded, WFMin
<1>2. \A y \in S : ~(y < x)
  BY <1>1 DEF OpToRel
<1> QED
  BY <1>2

\* ... and a finite one has a greatest.
LEMMA HasGreatest ==
    ASSUME NEW S, S \subseteq Nat, S # {}, IsFiniteSet(S)
    PROVE  \E x \in S : \A y \in S : x >= y
<1> DEFINE HasMax(T) == T # {} => \E x \in T : \A y \in T : x >= y
           G == {T \in SUBSET S : HasMax(T)}
<1>1. ASSUME NEW T \in SUBSET S, \A z \in T : T \ {z} \in G PROVE T \in G
  <2> SUFFICES ASSUME T # {} PROVE \E x \in T : \A y \in T : x >= y
    OBVIOUS
  <2>1. PICK z \in T : TRUE
    OBVIOUS
  <2>2. T \ {z} # {} => \E x \in T \ {z} : \A y \in T \ {z} : x >= y
    BY <1>1, <2>1
  <2>3. \A x \in T : x \in Nat
    OBVIOUS
  <2>4. CASE T \ {z} = {}
    BY <2>1, <2>3, <2>4
  <2>5. CASE T \ {z} # {}
    <3>1. PICK x \in T \ {z} : \A y \in T \ {z} : x >= y
      BY <2>2, <2>5
    <3>2. z >= x \/ x >= z
      BY <2>1, <2>3, <3>1
    <3>3. \A y \in T : (x >= z => x >= y) /\ (z >= x => z >= y)
      BY <2>1, <2>3, <3>1
    <3> QED
      BY <2>1, <3>1, <3>2, <3>3
  <2> QED
    BY <2>4, <2>5
<1>2. SUBSET S \subseteq G
  <2> HIDE DEF G
  <2> QED BY <1>1, SubsetInduction
<1> QED
  BY <1>2

-----------------------------------------------------------------------------
(* The sum, unfolded as MapThenSumSet is. *)

Pick(s) == CHOOSE x \in s : TRUE

SumStep(f, g, s) == IF s = {} THEN 0 ELSE f[Pick(s)] + g[s \ {Pick(s)}]

IsFold(f, g, D) == g = [s \in D |-> SumStep(f, g, s)]

Fold(f, S) == CHOOSE g : IsFold(f, g, SUBSET S)

SumOver(f, S) == Fold(f, S)[S]

\* An element picked from a set is in it.
LEMMA PickIn == \A s : s # {} => Pick(s) \in s
BY DEF Pick

\* The recursion defines a function on all subsets of a finite set.
LEMMA FoldExists ==
    ASSUME NEW f, NEW S, IsFiniteSet(S)
    PROVE  IsFold(f, Fold(f, S), SUBSET S)
<1> DEFINE Level(n) == {s \in SUBSET S : Cardinality(s) <= n}
           G == {n \in Nat : \E g : IsFold(f, g, Level(n))}
<1>0. \A s \in SUBSET S : IsFiniteSet(s) /\ Cardinality(s) \in Nat
  BY FS_Subset, FS_CardinalityType
<1>1. 0 \in G
  <2>1. \A s \in Level(0) : s = {}
    BY <1>0, FS_EmptySet
  <2>2. IsFold(f, [s \in Level(0) |-> 0], Level(0))
    BY <2>1 DEF IsFold, SumStep
  <2> QED
    BY <2>2
<1>2. ASSUME NEW n \in Nat, n \in G PROVE n + 1 \in G
  <2>1. PICK g : IsFold(f, g, Level(n))
    BY <1>2
  <2> DEFINE h == [s \in Level(n + 1) |-> IF s \in Level(n) THEN g[s] ELSE SumStep(f, g, s)]
  <2>2. ASSUME NEW s \in Level(n + 1), s # {} PROVE s \ {Pick(s)} \in Level(n)
    <3>1. Cardinality(s \ {Pick(s)}) = Cardinality(s) - 1
      BY <1>0, <2>2, PickIn, FS_RemoveElement
    <3> QED
      BY <1>0, <3>1
  <2>3. \A s \in Level(n) : s \in Level(n + 1)
    BY <1>0
  <2>4. \A s \in Level(n) : g[s] = SumStep(f, g, s)
    BY <2>1 DEF IsFold
  <2>5. ASSUME NEW s \in Level(n + 1) PROVE h[s] = SumStep(f, h, s)
    <3>1. h[s] = SumStep(f, g, s)
      BY <2>4
    <3>2. s # {} => h[s \ {Pick(s)}] = g[s \ {Pick(s)}]
      BY <2>2, <2>3
    <3> QED
      BY <3>1, <3>2 DEF SumStep
  <2>6. IsFold(f, h, Level(n + 1))
    <3>1. h = [s \in Level(n + 1) |-> h[s]]
      OBVIOUS
    <3> HIDE DEF h
    <3> QED
      BY <3>1, <2>5 DEF IsFold
  <2>7. n + 1 \in Nat
    OBVIOUS
  <2> HIDE DEF h, Level
  <2> QED
    BY <2>6, <2>7
<1>3. Cardinality(S) \in Nat /\ Cardinality(S) \in G
  <2> HIDE DEF G
  <2> QED BY <1>0, <1>1, <1>2, NatSetInduction
<1>4. Level(Cardinality(S)) = SUBSET S
  BY FS_Subset
<1>5. \E g : IsFold(f, g, SUBSET S)
  BY <1>3, <1>4
<1> QED
  BY <1>5 DEF Fold

\* The folds over two sets agree on what they share.
LEMMA FoldAgrees ==
    ASSUME NEW f, NEW S, IsFiniteSet(S), NEW T \in SUBSET S
    PROVE  Fold(f, S)[T] = SumOver(f, T)
<1> DEFINE G == {s \in SUBSET T : Fold(f, S)[s] = Fold(f, T)[s]}
<1>0. IsFiniteSet(T)
  BY FS_Subset
<1>1. IsFold(f, Fold(f, S), SUBSET S) /\ IsFold(f, Fold(f, T), SUBSET T)
  BY <1>0, FoldExists
<1>2. \A s \in SUBSET S : Fold(f, S)[s] = SumStep(f, Fold(f, S), s)
  BY <1>1 DEF IsFold
<1>3. \A s \in SUBSET T : Fold(f, T)[s] = SumStep(f, Fold(f, T), s)
  BY <1>1 DEF IsFold
<1>4. ASSUME NEW s \in SUBSET T, \A x \in s : s \ {x} \in G PROVE s \in G
  BY <1>4, <1>2, <1>3, PickIn DEF SumStep
<1>5. SUBSET T \subseteq G
  <2> HIDE DEF G
  <2> QED BY <1>0, <1>4, SubsetInduction
<1> QED
  BY <1>5 DEF SumOver

\* Nothing sums to zero.
LEMMA SumOfNone == \A f : SumOver(f, {}) = 0
<1> TAKE f
<1>1. IsFold(f, Fold(f, {}), SUBSET {})
  BY FoldExists, FS_EmptySet
<1> QED
  BY <1>1 DEF IsFold, SumOver, SumStep

\* The recursion, seen on the sum.
LEMMA SumUnfolds ==
    ASSUME NEW f, NEW S, IsFiniteSet(S), S # {}
    PROVE  SumOver(f, S) = f[Pick(S)] + SumOver(f, S \ {Pick(S)})
<1>1. Fold(f, S)[S] = SumStep(f, Fold(f, S), S)
  <2>1. IsFold(f, Fold(f, S), SUBSET S)
    BY FoldExists
  <2> QED BY <2>1 DEF IsFold
<1>2. Fold(f, S)[S \ {Pick(S)}] = SumOver(f, S \ {Pick(S)})
  BY FoldAgrees
<1> QED
  BY <1>1, <1>2 DEF SumOver, SumStep

\* A sum of integers is an integer, of natural numbers a natural number.
LEMMA SumTyped ==
    ASSUME NEW f, NEW S, IsFiniteSet(S), NEW N, N \in {Nat, Int}, \A x \in S : f[x] \in N
    PROVE  SumOver(f, S) \in N
<1> DEFINE G == {T \in SUBSET S : SumOver(f, T) \in N}
<1>1. ASSUME NEW T \in SUBSET S, \A x \in T : T \ {x} \in G PROVE T \in G
  <2>1. CASE T = {}
    BY <2>1, SumOfNone
  <2>2. CASE T # {}
    <3>1. Pick(T) \in T /\ IsFiniteSet(T)
      BY <2>2, PickIn, FS_Subset
    <3>2. SumOver(f, T) = f[Pick(T)] + SumOver(f, T \ {Pick(T)})
      BY <2>2, <3>1, SumUnfolds
    <3>3. f[Pick(T)] \in N /\ SumOver(f, T \ {Pick(T)}) \in N
      BY <1>1, <3>1
    <3> QED
      BY <3>2, <3>3
  <2> QED
    BY <2>1, <2>2
<1>2. SUBSET S \subseteq G
  <2> HIDE DEF G
  <2> QED BY <1>1, SubsetInduction
<1> QED
  BY <1>2

\* Any element can be taken out of a sum, whatever the fold picks.
LEMMA SumSplits ==
    ASSUME NEW f, NEW S, IsFiniteSet(S), \A x \in S : f[x] \in Int, NEW z \in S
    PROVE  SumOver(f, S) = f[z] + SumOver(f, S \ {z})
<1> DEFINE Good(T) == \A x \in T : SumOver(f, T) = f[x] + SumOver(f, T \ {x})
           G == {T \in SUBSET S : Good(T)}
<1>0. \A T \in SUBSET S : IsFiniteSet(T) /\ SumOver(f, T) \in Int
  BY FS_Subset, SumTyped
<1>1. ASSUME NEW T \in SUBSET S, \A x \in T : T \ {x} \in G PROVE T \in G
  <2> SUFFICES ASSUME NEW x \in T PROVE SumOver(f, T) = f[x] + SumOver(f, T \ {x})
    OBVIOUS
  <2> DEFINE p == Pick(T)
  <2>1. p \in T
    BY PickIn
  <2>2. SumOver(f, T) = f[p] + SumOver(f, T \ {p})
    BY <1>0, SumUnfolds
  <2> HIDE DEF p
  <2>3. CASE x # p
    <3>1. SumOver(f, T \ {p}) = f[x] + SumOver(f, (T \ {p}) \ {x})
      BY <1>1, <2>1, <2>3
    <3>2. SumOver(f, T \ {x}) = f[p] + SumOver(f, (T \ {x}) \ {p})
      BY <1>1, <2>1, <2>3
    <3>3. SumOver(f, (T \ {x}) \ {p}) = SumOver(f, (T \ {p}) \ {x})
      <4>1. (T \ {x}) \ {p} = (T \ {p}) \ {x}
        OBVIOUS
      <4> QED BY <4>1, Zenon
    <3>4. SumOver(f, (T \ {p}) \ {x}) \in Int /\ f[x] \in Int /\ f[p] \in Int
      <4>1. (T \ {p}) \ {x} \in SUBSET S
        OBVIOUS
      <4> QED BY <1>0, <2>1, <4>1
    <3> QED
      BY <2>2, <3>1, <3>2, <3>3, <3>4
  <2> QED
    BY <2>2, <2>3
<1>2. SUBSET S \subseteq G
  <2> HIDE DEF G
  <2> QED BY <1>1, SubsetInduction
<1> QED
  BY <1>2

\* A sum of natural numbers grows with its set.
LEMMA SumMonotone ==
    ASSUME NEW f, NEW S, IsFiniteSet(S), \A x \in S : f[x] \in Nat, NEW T \in SUBSET S
    PROVE  SumOver(f, T) <= SumOver(f, S)
<1> DEFINE E == S \ T
           G == {D \in SUBSET E : SumOver(f, T) <= SumOver(f, T \cup D)}
<1>0. \A U \in SUBSET S : IsFiniteSet(U) /\ SumOver(f, U) \in Nat
  BY FS_Subset, SumTyped
<1>1. ASSUME NEW D \in SUBSET E, \A x \in D : D \ {x} \in G PROVE D \in G
  <2>1. CASE D = {}
    <3>1. T \cup D = T
      BY <2>1
    <3> QED BY <1>0, <3>1
  <2>2. CASE D # {}
    <3>1. PICK x \in D : TRUE
      BY <2>2
    <3>2. (T \cup D) \ {x} = T \cup (D \ {x}) /\ T \cup D \in SUBSET S
      OBVIOUS
    <3>3. SumOver(f, T \cup D) = f[x] + SumOver(f, T \cup (D \ {x}))
      <4>1. SumOver(f, T \cup D) = f[x] + SumOver(f, (T \cup D) \ {x})
        BY <1>0, <3>2, SumSplits
      <4> QED BY <3>2, <4>1
    <3>4. SumOver(f, T) <= SumOver(f, T \cup (D \ {x}))
      BY <1>1
    <3>5. SumOver(f, T) \in Nat /\ SumOver(f, T \cup (D \ {x})) \in Nat /\ f[x] \in Nat
      <4>1. T \cup (D \ {x}) \in SUBSET S
        OBVIOUS
      <4> QED BY <1>0, <4>1
    <3> QED
      BY <3>3, <3>4, <3>5
  <2> QED
    BY <2>1, <2>2
<1>2. SUBSET E \subseteq G
  <2>1. IsFiniteSet(E)
    BY <1>0
  <2> HIDE DEF G, E
  <2> QED BY <1>1, <2>1, SubsetInduction
<1>3. E \in G /\ T \cup E = S
  BY <1>2
<1> QED
  BY <1>3, Zenon

\* One more element adds at most its own value.
LEMMA SumOfOneMore ==
    ASSUME NEW f, NEW S, IsFiniteSet(S), \A x \in S : f[x] \in Nat,
           NEW z, f[z] \in Nat
    PROVE  SumOver(f, S \cup {z}) <= SumOver(f, S) + f[z]
<1>0. SumOver(f, S) \in Nat
  BY SumTyped
<1>1. CASE z \in S
  <2>1. S \cup {z} = S
    BY <1>1
  <2> QED BY <1>0, <2>1
<1>2. CASE z \notin S
  <2>1. IsFiniteSet(S \cup {z}) /\ (S \cup {z}) \ {z} = S /\ \A x \in S \cup {z} : f[x] \in Int
    BY <1>2, FS_AddElement
  <2>2. SumOver(f, S \cup {z}) = f[z] + SumOver(f, S)
    <3>1. SumOver(f, S \cup {z}) = f[z] + SumOver(f, (S \cup {z}) \ {z})
      BY <2>1, SumSplits
    <3> QED BY <2>1, <3>1
  <2> QED
    BY <1>0, <2>2
<1> QED
  BY <1>1, <1>2

\* A sum looks at the values of its set only.
LEMMA SumAgrees ==
    ASSUME NEW f, NEW g, NEW S, \A x \in S : f[x] = g[x]
    PROVE  SumOver(f, S) = SumOver(g, S)
<1>1. \A s \in SUBSET S : s # {} => f[Pick(s)] = g[Pick(s)]
  BY PickIn
<1>2. \A h : [s \in SUBSET S |-> SumStep(f, h, s)] = [s \in SUBSET S |-> SumStep(g, h, s)]
  BY <1>1 DEF SumStep
<1>3. \A h : IsFold(f, h, SUBSET S) <=> IsFold(g, h, SUBSET S)
  BY <1>2 DEF IsFold
<1>4. Fold(f, S) = Fold(g, S)
  BY <1>3 DEF Fold
<1> QED
  BY <1>4 DEF SumOver
=============================================================================
