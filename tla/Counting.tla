------------------------------ MODULE Counting ------------------------------
(***************************************************************************)
(* Facts about sums over finite sets and about the largest number of a     *)
(* set.  A sum of sizes, as the folds compute it, is shown to count the    *)
(* blocks of a set, one per unit, so that what a step does to the sum is   *)
(* what it does to a finite set.                                           *)
(***************************************************************************)
EXTENDS Integers, FiniteSets, FiniteSetTheorems, WellFoundedInduction, TLAPS

\* The blocks of a file x that is n frames long, and of all of T.
Column(x, n) == {x} \X (1 .. n)
Blocks(f, T) == {b \in T \X (Nat \ {0}) : b[2] <= f[b[1]]}

\* A column has as many blocks as the file has frames.
LEMMA ColumnCount ==
  ASSUME NEW x, NEW n \in Nat
  PROVE  IsFiniteSet(Column(x, n)) /\ Cardinality(Column(x, n)) = n
<1>1. IsFiniteSet(1 .. n) /\ Cardinality(1 .. n) = n
  BY FS_Interval
<1> DEFINE g == [i \in 1 .. n |-> <<x, i>>]
<1>2. g \in Bijection(1 .. n, Column(x, n))
  BY DEF Bijection, Injection, Surjection, IsInjective, Column
<1>3. ExistsBijection(1 .. n, Column(x, n))
  BY <1>2 DEF ExistsBijection
<1> QED
  BY <1>1, <1>3, FS_Bijection

\* One element's blocks are its column and no one else's.
LEMMA BlocksSplit ==
  ASSUME NEW T, NEW x \in T, NEW f, \A y \in T : f[y] \in Nat
  PROVE  /\ Blocks(f, T) = Blocks(f, T \ {x}) \cup Column(x, f[x])
         /\ Blocks(f, T \ {x}) \cap Column(x, f[x]) = {}
BY DEF Blocks, Column

\* Finitely many files of finitely many frames have finitely many blocks.
LEMMA BlocksFinite ==
  ASSUME NEW S, IsFiniteSet(S), NEW f, \A y \in S : f[y] \in Nat
  PROVE  IsFiniteSet(Blocks(f, S)) /\ Cardinality(Blocks(f, S)) \in Nat
<1> DEFINE Bad == {T \in SUBSET S : ~IsFiniteSet(Blocks(f, T))}
<1> SUFFICES ASSUME Bad # {} PROVE FALSE
  BY FS_CardinalityType
<1>1. IsWellFoundedOn(StrictSubsetOrdering(S), SUBSET S)
  BY FS_StrictSubsetOrderingWellFounded, FS_FiniteSubsetsOfFinite
<1>2. PICK T \in Bad : \A U \in Bad : <<U, T>> \notin StrictSubsetOrdering(S)
  BY <1>1, WFMin
<1>3. T # {}
  <2>1. Blocks(f, {}) = {}
    BY DEF Blocks
  <2> QED
    BY <2>1, FS_EmptySet
<1>4. PICK x \in T : TRUE
  BY <1>3
<1>5. IsFiniteSet(Blocks(f, T \ {x}))
  <2>1. <<T \ {x}, T>> \in StrictSubsetOrdering(S)
    BY <1>4 DEF StrictSubsetOrdering
  <2> QED
    BY <1>2, <2>1
<1>6. IsFiniteSet(Column(x, f[x]))
  BY <1>4, ColumnCount
<1>7. Blocks(f, T) = Blocks(f, T \ {x}) \cup Column(x, f[x])
  BY <1>4, BlocksSplit
<1>8. IsFiniteSet(Blocks(f, T))
  BY <1>5, <1>6, <1>7, FS_Union
<1> QED
  BY <1>8

\* One file more is its frames more.
LEMMA BlocksAdd ==
  ASSUME NEW T, IsFiniteSet(T), NEW x \in T, NEW f, \A y \in T : f[y] \in Nat
  PROVE  Cardinality(Blocks(f, T)) = f[x] + Cardinality(Blocks(f, T \ {x}))
<1> DEFINE B == Blocks(f, T \ {x})
           C == Column(x, f[x])
<1>1. IsFiniteSet(T \ {x})
  BY FS_Subset
<1>2. IsFiniteSet(B) /\ Cardinality(B) \in Nat
  BY <1>1, BlocksFinite
<1>3. IsFiniteSet(C) /\ Cardinality(C) = f[x]
  BY ColumnCount
<1>4. Blocks(f, T) = B \cup C /\ B \cap C = {}
  BY BlocksSplit
<1>5. Cardinality(B \cup C) = Cardinality(B) + Cardinality(C) - Cardinality(B \cap C)
  BY <1>2, <1>3, FS_Union
<1> HIDE DEF B, C
<1>6. Cardinality(B \cap C) = 0
  BY <1>4, FS_EmptySet
<1>7. Cardinality(Blocks(f, T)) = Cardinality(B) + f[x]
  BY <1>2, <1>3, <1>4, <1>5, <1>6
<1> QED
  BY <1>2, <1>7 DEF B

-----------------------------------------------------------------------------
\* A sum as the fold computes it: nothing for no elements, and one element's
\* share more than for the rest.
SumsUp(g, f, S) ==
  \A T \in SUBSET S :
    g[T] = IF T = {} THEN 0
           ELSE LET x == CHOOSE x \in T : TRUE IN f[x] + g[T \ {x}]

\* Counting blocks sums up,
LEMMA CountingSumsUp ==
  ASSUME NEW S, IsFiniteSet(S), NEW f, \A y \in S : f[y] \in Nat
  PROVE  SumsUp([T \in SUBSET S |-> Cardinality(Blocks(f, T))], f, S)
<1> DEFINE g == [T \in SUBSET S |-> Cardinality(Blocks(f, T))]
<1> SUFFICES ASSUME NEW T \in SUBSET S
             PROVE  g[T] = IF T = {} THEN 0
                           ELSE LET x == CHOOSE x \in T : TRUE IN f[x] + g[T \ {x}]
  BY DEF SumsUp
<1>1. CASE T = {}
  <2>1. Blocks(f, {}) = {}
    BY DEF Blocks
  <2> QED
    BY <1>1, <2>1, FS_EmptySet
<1>2. CASE T # {}
  <2> DEFINE x == CHOOSE x \in T : TRUE
  <2>1. x \in T
    BY <1>2
  <2>2. IsFiniteSet(T) /\ \A y \in T : f[y] \in Nat
    BY FS_Subset
  <2> HIDE DEF x
  <2>3. Cardinality(Blocks(f, T)) = f[x] + Cardinality(Blocks(f, T \ {x}))
    BY <2>1, <2>2, BlocksAdd
  <2>4. g[T] = f[x] + g[T \ {x}]
    BY <2>3
  <2> QED
    BY <1>2, <2>4 DEF x
<1> QED
  BY <1>1, <1>2

\* ... and nothing else does.
LEMMA SumCounts ==
  ASSUME NEW S, IsFiniteSet(S), NEW f, \A y \in S : f[y] \in Nat,
         NEW g, SumsUp(g, f, S)
  PROVE  g[S] = Cardinality(Blocks(f, S))
<1> DEFINE Bad == {T \in SUBSET S : g[T] # Cardinality(Blocks(f, T))}
<1> SUFFICES ASSUME Bad # {} PROVE FALSE
  OBVIOUS
<1>1. IsWellFoundedOn(StrictSubsetOrdering(S), SUBSET S)
  BY FS_StrictSubsetOrderingWellFounded, FS_FiniteSubsetsOfFinite
<1>2. PICK T \in Bad : \A U \in Bad : <<U, T>> \notin StrictSubsetOrdering(S)
  BY <1>1, WFMin
<1>3. T # {}
  <2>1. Blocks(f, {}) = {}
    BY DEF Blocks
  <2> QED
    BY <2>1, FS_EmptySet DEF SumsUp
<1> DEFINE x == CHOOSE x \in T : TRUE
<1>4. x \in T
  BY <1>3
<1>5. g[T] = f[x] + g[T \ {x}]
  BY <1>3 DEF SumsUp
<1> HIDE DEF x
<1>6. g[T \ {x}] = Cardinality(Blocks(f, T \ {x}))
  <2>1. <<T \ {x}, T>> \in StrictSubsetOrdering(S)
    BY <1>4 DEF StrictSubsetOrdering
  <2> QED
    BY <1>2, <2>1
<1>7. IsFiniteSet(T) /\ \A y \in T : f[y] \in Nat
  BY FS_Subset
<1>8. Cardinality(Blocks(f, T)) = f[x] + Cardinality(Blocks(f, T \ {x}))
  BY <1>4, <1>7, BlocksAdd
<1> QED
  BY <1>2, <1>5, <1>6, <1>8

\* Fewer files have no more blocks.
LEMMA BlocksGrow ==
  ASSUME NEW S, IsFiniteSet(S), NEW f, \A y \in S : f[y] \in Nat, NEW T \in SUBSET S
  PROVE  /\ Cardinality(Blocks(f, T)) \in Nat
         /\ Cardinality(Blocks(f, T)) <= Cardinality(Blocks(f, S))
<1>1. IsFiniteSet(Blocks(f, S)) /\ Cardinality(Blocks(f, S)) \in Nat
  BY BlocksFinite
<1>2. Blocks(f, T) \subseteq Blocks(f, S)
  BY DEF Blocks
<1> HIDE DEF Blocks
<1>3. /\ IsFiniteSet(Blocks(f, T))
      /\ Cardinality(Blocks(f, T)) <= Cardinality(Blocks(f, S))
  BY <1>1, <1>2, FS_Subset
<1> QED
  BY <1>3, FS_CardinalityType

-----------------------------------------------------------------------------
\* A set of numbers that is bounded has a largest one.
LEMMA Largest ==
  ASSUME NEW T \in SUBSET Nat, T # {}, NEW n \in Nat, \A t \in T : t <= n
  PROVE  \E x \in T : \A y \in T : x >= y
<1> DEFINE Above == {u \in Nat : \A t \in T : t <= u}
<1>1. PICK u \in Above : \A v \in Above : <<v, u>> \notin OpToRel(<, Nat)
  <2>1. n \in Above
    OBVIOUS
  <2> QED
    BY <2>1, NatLessThanWellFounded, WFMin
<1>2. u \in Above /\ \A v \in Above : ~(v < u)
  BY <1>1 DEF OpToRel
<1>3. u \in T
  <2> SUFFICES ASSUME u \notin T PROVE FALSE
    OBVIOUS
  <2>1. u \in Nat /\ \A t \in T : t \in Nat /\ t < u
    <3>1. u \in Nat /\ \A t \in T : t \in Nat /\ t <= u /\ t # u
      BY <1>2
    <3> QED
      BY <3>1
  <2>2. u - 1 \in Nat /\ \A t \in T : t <= u - 1
    <3>1. u # 0
      <4>1. PICK t \in T : TRUE
        OBVIOUS
      <4> QED
        BY <2>1, <4>1
    <3> QED
      BY <2>1, <3>1
  <2> QED
    BY <1>2, <2>2
<1> QED
  BY <1>2, <1>3

\* A set of numbers that is not empty has a smallest one.
LEMMA Smallest ==
  ASSUME NEW T \in SUBSET Nat, T # {}
  PROVE  \E x \in T : \A y \in T : x <= y
<1>1. PICK x \in T : \A y \in T : <<y, x>> \notin OpToRel(<, Nat)
  BY NatLessThanWellFounded, WFMin
<1>2. \A y \in T : x \in Nat /\ y \in Nat /\ ~(y < x)
  BY <1>1 DEF OpToRel
<1>3. \A y \in T : x <= y
  BY <1>2
<1> QED
  BY <1>1, <1>3

\* A part of a finite set extends to a part of any size in between.
LEMMA PartOfSize ==
  ASSUME NEW S, IsFiniteSet(S), NEW T \in SUBSET S, NEW n \in Nat,
         Cardinality(T) <= n, n <= Cardinality(S)
  PROVE  \E U \in SUBSET S : T \subseteq U /\ Cardinality(U) = n
<1> DEFINE Large == {U \in SUBSET S : T \subseteq U /\ Cardinality(U) >= n}
<1>1. IsWellFoundedOn(StrictSubsetOrdering(S), SUBSET S)
  BY FS_StrictSubsetOrderingWellFounded, FS_FiniteSubsetsOfFinite
<1>2. PICK U \in Large : \A V \in Large : <<V, U>> \notin StrictSubsetOrdering(S)
  <2>1. Cardinality(S) \in Nat
    BY FS_CardinalityType
  <2>2. S \in Large /\ Large \subseteq SUBSET S
    BY <2>1
  <2> HIDE DEF Large
  <2> QED
    BY <1>1, <2>2, WFMin
<1>3. IsFiniteSet(U) /\ IsFiniteSet(T) /\ Cardinality(U) \in Nat
  BY FS_Subset, FS_CardinalityType
<1>4. Cardinality(U) = n
  <2> SUFFICES ASSUME Cardinality(U) > n PROVE FALSE
    BY <1>3
  <2>1. T # U
    BY <1>3, FS_CardinalityType
  <2>2. PICK x \in U : x \notin T
    BY <2>1
  <2>3. Cardinality(U \ {x}) = Cardinality(U) - 1
    BY <1>3, <2>2, FS_RemoveElement
  <2>4. U \ {x} \in Large
    BY <1>3, <2>2, <2>3
  <2>5. <<U \ {x}, U>> \in StrictSubsetOrdering(S)
    BY <2>2 DEF StrictSubsetOrdering
  <2> QED
    BY <1>2, <2>4, <2>5
<1> QED
  BY <1>4

=============================================================================
