------------------------------ MODULE Induction ------------------------------
(***************************************************************************)
(* Induction over the naturals and over finite sets, stated with a set of   *)
(* those that have the property instead of an operator that says it, and    *)
(* two recursive sums: that the function which the recursion defines        *)
(* exists, and what it returns.                                             *)
(***************************************************************************)
EXTENDS FiniteSetTheorems, TLAPS

\* Of a family of subsets of a finite set one is minimal.
LEMMA MinimalSet ==
  ASSUME NEW S, IsFiniteSet(S), NEW F, F \subseteq SUBSET S, F # {}
  PROVE  \E T \in F : \A U \in F : U \subseteq T => U = T
<1>1. IsWellFoundedOn(StrictSubsetOrdering(S), SUBSET S)
  BY FS_StrictSubsetOrderingWellFounded, FS_FiniteSubsetsOfFinite
<1>2. \E T \in F : \A U \in F : ~ (<<U, T>> \in StrictSubsetOrdering(S))
  <2> HIDE DEF StrictSubsetOrdering
  <2> QED
    BY <1>1, WFMin
<1> QED
  BY <1>2 DEF StrictSubsetOrdering

\* A set that has 0, and with a number below N the next, has all up to N.
LEMMA IntervalInduction ==
  ASSUME NEW N \in Nat, NEW F, 0 \in F,
         \A n \in 0 .. N - 1 : n \in F => n + 1 \in F
  PROVE  0 .. N \subseteq F
<1> DEFINE Bad == {n \in 0 .. N : n \notin F}
           R == OpToRel(<, Nat)
<1> SUFFICES ASSUME Bad # {} PROVE FALSE
  OBVIOUS
<1>1. IsWellFoundedOn(R, Nat)
  BY NatLessThanWellFounded
<1>2. PICK n \in Bad : \A m \in Bad : ~ (<<m, n>> \in R)
  <2>1. Bad \subseteq Nat
    OBVIOUS
  <2> HIDE DEF Bad, R
  <2> QED
    BY <1>1, <2>1, WFMin
<1>3. R = {ss \in Nat \X Nat : ss[1] < ss[2]}
  BY DEF OpToRel
<1> HIDE DEF R
<1>4. ASSUME n # 0 PROVE FALSE
  <2>1. n - 1 \in 0 .. N - 1 /\ n \in Nat /\ n - 1 \in Nat /\ n - 1 < n
    BY <1>4
  <2>2. <<n - 1, n>> \in {ss \in Nat \X Nat : ss[1] < ss[2]}
    BY <2>1
  <2>3. n - 1 \notin Bad
    BY <1>2, <1>3, <2>2
  <2>4. n - 1 \in F
    BY <2>1, <2>3
  <2>5. (n - 1) + 1 \in F
    BY <2>1, <2>4
  <2> QED
    BY <2>1, <2>5
<1> QED
  BY <1>4
-----------------------------------------------------------------------------
(* The functions two recursions define.                                     *)

\* The sums of the first n parts.
LEMMA PrefixSums ==
  ASSUME NEW N \in Nat, NEW part \in [1 .. N -> Nat]
  PROVE  \E f \in [0 .. N -> Nat] :
           f = [n \in 0 .. N |-> IF n = 0 THEN 0 ELSE f[n - 1] + part[n]]
<1> DEFINE SumsTo(n, f) == \A m \in 0 .. n : f[m] = IF m = 0 THEN 0 ELSE f[m - 1] + part[m]
           F == {n \in 0 .. N : \E f \in [0 .. n -> Nat] : SumsTo(n, f)}
<1>1. 0 \in F
  <2> DEFINE f == [m \in 0 .. 0 |-> 0]
  <2>1. f \in [0 .. 0 -> Nat] /\ SumsTo(0, f)
    OBVIOUS
  <2>2. \E g \in [0 .. 0 -> Nat] : SumsTo(0, g)
    <3> HIDE DEF f, SumsTo
    <3> QED
      BY <2>1
  <2> QED
    BY <2>2
<1>2. ASSUME NEW n \in 0 .. N - 1, n \in F PROVE n + 1 \in F
  <2>1. PICK f \in [0 .. n -> Nat] : SumsTo(n, f)
    BY <1>2
  <2> DEFINE g == [m \in 0 .. n + 1 |-> IF m = n + 1 THEN f[n] + part[n + 1] ELSE f[m]]
  <2>2. f[n] + part[n + 1] \in Nat
    OBVIOUS
  <2>3. g \in [0 .. n + 1 -> Nat]
    BY <2>2
  <2>4. SumsTo(n + 1, g)
    BY <2>1
  <2>5. n + 1 \in 0 .. N
    OBVIOUS
  <2> QED
    BY <2>3, <2>4, <2>5
<1>3. N \in F
  <2> HIDE DEF F
  <2>1. 0 .. N \subseteq F
    BY <1>1, <1>2, IntervalInduction
  <2> QED
    BY <2>1
<1>4. PICK f \in [0 .. N -> Nat] : SumsTo(N, f)
  BY <1>3
<1>5. f = [n \in 0 .. N |-> IF n = 0 THEN 0 ELSE f[n - 1] + part[n]]
  BY <1>4
<1> QED
  BY <1>5

\* The sums over each subset of S, taking the elements in the order of pick.
AreSubsetSums(f, S, part, pick) ==
  /\ f \in [SUBSET S -> Nat]
  /\ \A T \in SUBSET S :
       f[T] = IF T = {} THEN 0 ELSE part[pick[T]] + f[T \ {pick[T]}]

LEMMA SubsetSums ==
  ASSUME NEW S, IsFiniteSet(S), NEW part \in [S -> Nat],
         NEW pick \in [(SUBSET S) \ {{}} -> S],
         \A T \in SUBSET S : T # {} => pick[T] \in T
  PROVE  \E f : AreSubsetSums(f, S, part, pick)
<1> DEFINE Small(n) == {T \in SUBSET S : Cardinality(T) <= n}
           Of(T, f) == IF T = {} THEN 0 ELSE part[pick[T]] + f[T \ {pick[T]}]
           F == {n \in 0 .. Cardinality(S) :
                   \E f \in [Small(n) -> Nat] : \A T \in Small(n) : f[T] = Of(T, f)}
<1>1. /\ Cardinality(S) \in Nat
      /\ \A T \in SUBSET S : /\ IsFiniteSet(T) /\ Cardinality(T) \in Nat
                             /\ Cardinality(T) <= Cardinality(S)
  BY FS_CardinalityType, FS_Subset
<1>2. \A T \in SUBSET S : /\ Cardinality(T) = 0 <=> T = {}
                          /\ T # {} => /\ T \ {pick[T]} \in SUBSET S
                                       /\ Cardinality(T \ {pick[T]}) = Cardinality(T) - 1
  BY <1>1, FS_EmptySet, FS_RemoveElement
<1>3. 0 \in F
  <2> DEFINE f == [T \in Small(0) |-> 0]
  <2>1. ASSUME NEW T \in Small(0) PROVE T = {}
    <3>1. T \in SUBSET S /\ Cardinality(T) <= 0
      OBVIOUS
    <3>2. Cardinality(T) \in Nat /\ (Cardinality(T) = 0 <=> T = {})
      BY <1>1, <1>2, <3>1
    <3> QED
      BY <3>1, <3>2
  <2>2. f \in [Small(0) -> Nat] /\ \A T \in Small(0) : f[T] = Of(T, f)
    BY <2>1
  <2>3. \E g \in [Small(0) -> Nat] : \A T \in Small(0) : g[T] = Of(T, g)
    <3> HIDE DEF f, Small
    <3> QED
      BY <2>2
  <2>4. 0 \in 0 .. Cardinality(S)
    BY <1>1
  <2> HIDE DEF f, Small, Of
  <2> QED
    BY <2>3, <2>4
<1>4. ASSUME NEW n \in 0 .. Cardinality(S) - 1, n \in F PROVE n + 1 \in F
  <2>1. PICK f \in [Small(n) -> Nat] : \A T \in Small(n) : f[T] = Of(T, f)
    BY <1>4
  <2> DEFINE g == [T \in Small(n + 1) |-> Of(T, f)]
  <2>2. \A T \in Small(n + 1) : T # {} => /\ T \ {pick[T]} \in Small(n)
                                          /\ pick[T] \in S
    BY <1>1, <1>2
  <2>3. g \in [Small(n + 1) -> Nat]
    BY <2>2
  <2>4. \A T \in Small(n) : T \in Small(n + 1) /\ g[T] = f[T]
    BY <1>1, <2>1
  <2>5. \A T \in Small(n + 1) : g[T] = Of(T, g)
    <3> SUFFICES ASSUME NEW T \in Small(n + 1) PROVE g[T] = Of(T, g)
      OBVIOUS
    <3>1. T # {} => g[T \ {pick[T]}] = f[T \ {pick[T]}]
      BY <2>2, <2>4
    <3> QED
      BY <3>1
  <2>6. n + 1 \in 0 .. Cardinality(S)
    BY <1>1
  <2> QED
    BY <2>3, <2>5, <2>6
<1>5. Cardinality(S) \in F
  <2> HIDE DEF F
  <2> QED
    BY <1>1, <1>3, <1>4, IntervalInduction
<1>6. Small(Cardinality(S)) = SUBSET S
  BY <1>1
<1> QED
  BY <1>5, <1>6 DEF AreSubsetSums
=============================================================================
