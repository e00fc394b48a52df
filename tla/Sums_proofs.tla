----------------------------- MODULE Sums_proofs ------------------------------
(***************************************************************************)
(* Facts about sums and maxima over finite sets.                           *)
(*                                                                         *)
(* The induction theorems of the library take a predicate as a parameter.  *)
(* Here a predicate is the set of the subsets that satisfy it, and the     *)
(* induction is that a set of finite sets has a smallest member.           *)
(***************************************************************************)
EXTENDS Sums, FiniteSetTheorems, WellFoundedInduction, TLAPS

\* Induction over the subsets of a finite set: G holds of all if it holds of each one
\* whose proper subsets it holds of.
LEMMA SubsetInduction ==
  ASSUME NEW S, IsFiniteSet(S), NEW G,
         \A T \in SUBSET S : (\A U \in SUBSET T : U # T => U \in G) => T \in G
  PROVE  \A T \in SUBSET S : T \in G
<1> DEFINE Bad == (SUBSET S) \ G
<1> SUFFICES ASSUME Bad # {} PROVE FALSE
  OBVIOUS
<1>1. Bad \subseteq FiniteSubsetsOf(S)
  BY FS_FiniteSubsetsOfFinite
<1>2. IsWellFoundedOn(StrictSubsetOrdering(S), FiniteSubsetsOf(S))
  BY FS_StrictSubsetOrderingWellFounded
<1>3. \E T \in Bad : T \in Bad
  OBVIOUS
<1>4. ASSUME NEW B, B \subseteq FiniteSubsetsOf(S), NEW T \in B
      PROVE  \E M \in B : \A U \in B : ~(<<U, M>> \in StrictSubsetOrdering(S))
  BY <1>2, <1>4, WFMin
<1>5. PICK M \in Bad : \A T \in Bad : ~(<<T, M>> \in StrictSubsetOrdering(S))
  <2> HIDE DEF Bad
  <2>1. QED
    BY <1>1, <1>3, <1>4
<1>6. \A U \in SUBSET M : U # M => U \in G
  BY <1>5 DEF StrictSubsetOrdering
<1>7. QED
  BY <1>6

\* Induction element by element.
LEMMA SetInduction ==
  ASSUME NEW S, IsFiniteSet(S), NEW G, {} \in G,
         \A T \in SUBSET S : \A x \in S \ T : T \in G => T \cup {x} \in G
  PROVE  S \in G
<1>1. ASSUME NEW T \in SUBSET S, \A U \in SUBSET T : U # T => U \in G PROVE T \in G
  <2>1. CASE T = {}
    BY <2>1
  <2>2. ASSUME NEW x \in T PROVE T \in G
    <3>1. T \ {x} \in SUBSET S /\ x \in S \ (T \ {x}) /\ T = (T \ {x}) \cup {x} /\ T \ {x} # T
      OBVIOUS
    <3>2. T \ {x} \in G
      BY <3>1, <1>1
    <3>3. QED
      BY <3>1, <3>2
  <2>3. QED
    BY <2>1, <2>2
<1>2. QED
  BY <1>1, SubsetInduction

\* Induction on natural numbers, in the same form.
LEMMA NumberInduction ==
  ASSUME NEW N, 0 \in N, \A n \in Nat : n \in N => n + 1 \in N
  PROVE  Nat \subseteq N
<1> DEFINE Bad == Nat \ N
<1> SUFFICES ASSUME Bad # {} PROVE FALSE
  OBVIOUS
<1>1. Bad \subseteq Nat
  OBVIOUS
<1>2. PICK m \in Bad : \A n \in Bad : <<n, m>> \notin OpToRel(<, Nat)
  BY <1>1, NatLessThanWellFounded, WFMin
<1>3. m \in Nat /\ m # 0 /\ m - 1 \in Nat
  OBVIOUS
<1>4. <<m - 1, m>> \in OpToRel(<, Nat)
  BY <1>3 DEF OpToRel
<1>5. m - 1 \in N
  BY <1>2, <1>3, <1>4
<1>6. QED
  BY <1>3, <1>5

(***************************************************************************)
(* The recursive function of the definition exists: it is built for sets   *)
(* of up to n elements, by induction on n.                                 *)
(***************************************************************************)

\* The element the definition takes out of a set first.
First(s) == CHOOSE x \in s : TRUE

Adds(g, f, D) == g = [s \in D |-> IF s = {} THEN 0 ELSE f[First(s)] + g[s \ {First(s)}]]

LEMMA SumRecursion ==
  ASSUME NEW S, IsFiniteSet(S), NEW f
  PROVE  \E g : Adds(g, f, SUBSET S) /\ Sum(f, S) = g[S]
<1> DEFINE D(n) == {s \in SUBSET S : Cardinality(s) <= n}
           N == {n \in Nat : \E g : Adds(g, f, D(n))}
<1>1. \A s \in SUBSET S : IsFiniteSet(s) /\ Cardinality(s) \in Nat
  BY FS_Subset, FS_CardinalityType
<1>2. \A s \in SUBSET S : s # {} =>
        s \ {First(s)} \in SUBSET S /\ Cardinality(s \ {First(s)}) = Cardinality(s) - 1
  BY <1>1, FS_RemoveElement DEF First
<1>3. \A s \in SUBSET S : Cardinality(s) <= 0 => s = {}
  BY <1>1, FS_EmptySet
<1>4. 0 \in N
  <2> DEFINE g == [s \in D(0) |-> 0]
  <2>1. g = [s \in D(0) |-> IF s = {} THEN 0 ELSE f[First(s)] + g[s \ {First(s)}]]
    BY <1>3
  <2>2. QED
    BY <2>1 DEF Adds
<1>5. ASSUME NEW n \in Nat, n \in N PROVE n + 1 \in N
  <2>1. PICK g : g = [s \in D(n) |-> IF s = {} THEN 0 ELSE f[First(s)] + g[s \ {First(s)}]]
    BY <1>5 DEF Adds
  <2> DEFINE h == [s \in D(n+1) |-> IF s = {} THEN 0 ELSE f[First(s)] + g[s \ {First(s)}]]
  <2>2. \A s \in D(n) : s \in D(n+1) /\ h[s] = g[s]
    <3>1. \A s \in D(n) : s \in D(n+1)
      BY <1>1
    <3> HIDE DEF D
    <3>2. \A s \in D(n) : g[s] = IF s = {} THEN 0 ELSE f[First(s)] + g[s \ {First(s)}]
      BY <2>1
    <3>3. QED
      BY <3>1, <3>2
  <2>3. \A s \in D(n+1) : s # {} => s \ {First(s)} \in D(n)
    BY <1>1, <1>2
  <2>4. h = [s \in D(n+1) |-> IF s = {} THEN 0 ELSE f[First(s)] + h[s \ {First(s)}]]
    BY <2>2, <2>3
  <2> HIDE DEF D, h
  <2>5. Adds(h, f, D(n+1))
    BY <2>4 DEF Adds
  <2>6. \E k : Adds(k, f, D(n+1))
    BY <2>5
  <2>7. QED
    BY <2>6
<1>6. Cardinality(S) \in N
  BY <1>1, <1>4, <1>5, NumberInduction
<1>7. D(Cardinality(S)) = SUBSET S
  BY <1>1, FS_Subset
<1> DEFINE g == CHOOSE g : g = [s \in SUBSET S |-> IF s = {} THEN 0 ELSE f[First(s)] + g[s \ {First(s)}]]
<1>8. Adds(g, f, SUBSET S)
  BY <1>6, <1>7 DEF Adds
<1>9. Sum(f, S) = g[S]
  BY DEF Sum, MapThenSumSet, MapThenFoldSet, First
<1> HIDE DEF g
<1>10. QED
  BY <1>8, <1>9

LEMMA SumEmpty == \A f : Sum(f, {}) = 0
<1> SUFFICES ASSUME NEW f PROVE Sum(f, {}) = 0
  OBVIOUS
<1>1. PICK g : Adds(g, f, SUBSET {}) /\ Sum(f, {}) = g[{}]
  BY FS_EmptySet, SumRecursion
<1>2. QED
  BY <1>1 DEF Adds

\* Two recursive functions agree where both are defined.
LEMMA SumUnfold ==
  ASSUME NEW S, IsFiniteSet(S), S # {}, NEW f
  PROVE  First(S) \in S /\ Sum(f, S) = f[First(S)] + Sum(f, S \ {First(S)})
<1> DEFINE R == S \ {First(S)}
<1>0. First(S) \in S
  BY DEF First
<1>1. PICK g : Adds(g, f, SUBSET S) /\ Sum(f, S) = g[S]
  BY SumRecursion
<1>2. IsFiniteSet(R)
  BY FS_RemoveElement
<1>3. PICK h : Adds(h, f, SUBSET R) /\ Sum(f, R) = h[R]
  BY <1>2, SumRecursion
<1> DEFINE G == {T \in SUBSET R : g[T] = h[T]}
<1>4. ASSUME NEW T \in SUBSET R, \A U \in SUBSET T : U # T => U \in G PROVE T \in G
  <2>1. CASE T = {}
    BY <2>1, <1>1, <1>3 DEF Adds
  <2>2. CASE T # {}
    <3>1. First(T) \in T /\ T \ {First(T)} \in G
      BY <2>2, <1>4 DEF First
    <3>2. T \in SUBSET S
      OBVIOUS
    <3>3. g[T] = f[First(T)] + g[T \ {First(T)}]
      BY <3>2, <2>2, <1>1 DEF Adds
    <3>4. h[T] = f[First(T)] + h[T \ {First(T)}]
      BY <2>2, <1>3 DEF Adds
    <3>5. QED
      BY <3>1, <3>3, <3>4
  <2>3. QED
    BY <2>1, <2>2
<1>5. R \in G
  <2> HIDE DEF G, R
  <2>1. \A T \in SUBSET R : T \in G
    BY <1>2, <1>4, SubsetInduction
  <2>2. QED
    BY <2>1
<1>6. g[S] = f[First(S)] + g[R]
  BY <1>1 DEF Adds
<1>7. QED
  BY <1>0, <1>1, <1>3, <1>5, <1>6

(***************************************************************************)
(* What the proofs of the components cite.                                 *)
(***************************************************************************)

\* The sum of integers is one.
LEMMA SumInt ==
  ASSUME NEW S, IsFiniteSet(S), NEW f, \A x \in S : f[x] \in Int
  PROVE  Sum(f, S) \in Int
<1> DEFINE G == {T \in SUBSET S : Sum(f, T) \in Int}
<1>1. ASSUME NEW T \in SUBSET S, \A U \in SUBSET T : U # T => U \in G PROVE T \in G
  <2>1. CASE T = {}
    BY <2>1, SumEmpty
  <2>2. CASE T # {}
    <3>1. First(T) \in T /\ Sum(f, T) = f[First(T)] + Sum(f, T \ {First(T)})
      BY <2>2, SumUnfold, FS_Subset
    <3>2. T \ {First(T)} \in G
      BY <3>1, <1>1
    <3>3. QED
      BY <3>1, <3>2
  <2>3. QED
    BY <2>1, <2>2
<1>2. \A T \in SUBSET S : T \in G
  <2> HIDE DEF G
  <2>1. QED
    BY <1>1, SubsetInduction
<1>3. QED
  BY <1>2

\* Functions of the same values have the same sum.
LEMMA SumSame ==
  ASSUME NEW S, IsFiniteSet(S), NEW f, NEW g, \A x \in S : f[x] = g[x]
  PROVE  Sum(f, S) = Sum(g, S)
<1> DEFINE G == {T \in SUBSET S : Sum(f, T) = Sum(g, T)}
<1>1. ASSUME NEW T \in SUBSET S, \A U \in SUBSET T : U # T => U \in G PROVE T \in G
  <2>1. CASE T = {}
    BY <2>1, SumEmpty
  <2>2. CASE T # {}
    <3>1. /\ First(T) \in T
          /\ Sum(f, T) = f[First(T)] + Sum(f, T \ {First(T)})
          /\ Sum(g, T) = g[First(T)] + Sum(g, T \ {First(T)})
      BY <2>2, SumUnfold, FS_Subset
    <3>2. T \ {First(T)} \in G
      BY <3>1, <1>1
    <3>3. QED
      BY <3>1, <3>2
  <2>3. QED
    BY <2>1, <2>2
<1>2. \A T \in SUBSET S : T \in G
  <2> HIDE DEF G
  <2>1. QED
    BY <1>1, SubsetInduction
<1>3. QED
  BY <1>2

\* Any element may be counted first.
LEMMA SumRemove ==
  ASSUME NEW S, IsFiniteSet(S), NEW f, \A x \in S : f[x] \in Int, NEW y \in S
  PROVE  Sum(f, S) = f[y] + Sum(f, S \ {y})
<1> DEFINE G == {T \in SUBSET S : \A x \in T : Sum(f, T) = f[x] + Sum(f, T \ {x})}
<1>1. ASSUME NEW T \in SUBSET S, \A U \in SUBSET T : U # T => U \in G PROVE T \in G
  <2> SUFFICES ASSUME NEW x \in T PROVE Sum(f, T) = f[x] + Sum(f, T \ {x})
    OBVIOUS
  <2> DEFINE e == First(T)
             R == T \ {e}
  <2>1. e \in T /\ Sum(f, T) = f[e] + Sum(f, R)
    BY SumUnfold, FS_Subset
  <2>2. CASE x = e
    BY <2>1, <2>2
  <2>3. CASE x # e
    <3>1. R \in G /\ T \ {x} \in G
      BY <2>1, <1>1
    <3>2. Sum(f, R) = f[x] + Sum(f, R \ {x})
      BY <3>1, <2>3
    <3>3. Sum(f, T \ {x}) = f[e] + Sum(f, (T \ {x}) \ {e})
      BY <3>1, <2>1, <2>3
    <3>4. Sum(f, R \ {x}) = Sum(f, (T \ {x}) \ {e})
      <4>1. R \ {x} = (T \ {x}) \ {e}
        OBVIOUS
      <4>2. QED
        BY <4>1
    <3>5. Sum(f, R \ {x}) \in Int /\ f[x] \in Int /\ f[e] \in Int
      <4>1. IsFiniteSet(R \ {x}) /\ \A z \in R \ {x} : f[z] \in Int
        BY FS_Subset
      <4> HIDE DEF R
      <4>2. Sum(f, R \ {x}) \in Int
        BY <4>1, SumInt
      <4>3. QED
        BY <4>2, <2>1
    <3>6. \A a, b, c \in Int : a + (b + c) = b + (a + c)
      OBVIOUS
    <3> HIDE DEF e, R
    <3>7. Sum(f, T) = f[e] + (f[x] + Sum(f, R \ {x}))
      BY <2>1, <3>2
    <3>8. Sum(f, T \ {x}) = f[e] + Sum(f, R \ {x})
      BY <3>3, <3>4
    <3>9. QED
      BY <3>5, <3>6, <3>7, <3>8
  <2>4. QED
    BY <2>2, <2>3
<1>2. \A T \in SUBSET S : T \in G
  <2> HIDE DEF G
  <2>1. QED
    BY <1>1, SubsetInduction
<1>3. QED
  BY <1>2

LEMMA SumAdd ==
  ASSUME NEW S, IsFiniteSet(S), NEW f, NEW y, y \notin S,
         \A x \in S \cup {y} : f[x] \in Int
  PROVE  Sum(f, S \cup {y}) = f[y] + Sum(f, S)
<1>1. IsFiniteSet(S \cup {y}) /\ (S \cup {y}) \ {y} = S
  BY FS_AddElement
<1>2. QED
  BY <1>1, SumRemove

\* No value is larger, so the sum is not.
LEMMA SumMonotone ==
  ASSUME NEW S, IsFiniteSet(S), NEW f, NEW g,
         \A x \in S : f[x] \in Int /\ g[x] \in Int /\ f[x] <= g[x]
  PROVE  Sum(f, S) <= Sum(g, S)
<1> DEFINE G == {T \in SUBSET S : Sum(f, T) <= Sum(g, T)}
<1>1. {} \in G
  BY SumEmpty
<1>2. ASSUME NEW T \in SUBSET S, NEW x \in S \ T, T \in G PROVE T \cup {x} \in G
  <2>1. IsFiniteSet(T) /\ x \notin T /\ \A y \in T \cup {x} : f[y] \in Int /\ g[y] \in Int
    BY FS_Subset
  <2>2. Sum(f, T) \in Int /\ Sum(g, T) \in Int
    BY <2>1, SumInt
  <2>3. Sum(f, T \cup {x}) = f[x] + Sum(f, T) /\ Sum(g, T \cup {x}) = g[x] + Sum(g, T)
    BY <2>1, SumAdd
  <2>4. f[x] \in Int /\ g[x] \in Int /\ f[x] <= g[x] /\ Sum(f, T) <= Sum(g, T)
    BY <1>2
  <2>5. f[x] + Sum(f, T) <= g[x] + Sum(g, T)
    BY <2>2, <2>4
  <2>6. QED
    BY <2>3, <2>5
<1>3. S \in G
  <2> HIDE DEF G
  <2>1. QED
    BY <1>1, <1>2, SetInduction
<1>4. QED
  BY <1>3

\* The sum of sums of two values.
LEMMA SumPlus ==
  ASSUME NEW S, IsFiniteSet(S), NEW f, NEW g, NEW h,
         \A x \in S : f[x] \in Int /\ g[x] \in Int /\ h[x] = f[x] + g[x]
  PROVE  Sum(h, S) = Sum(f, S) + Sum(g, S)
<1> DEFINE G == {T \in SUBSET S : Sum(h, T) = Sum(f, T) + Sum(g, T)}
<1>1. {} \in G
  BY SumEmpty
<1>2. ASSUME NEW T \in SUBSET S, NEW x \in S \ T, T \in G PROVE T \cup {x} \in G
  <2>1. /\ IsFiniteSet(T) /\ x \notin T
        /\ \A y \in T \cup {x} : f[y] \in Int /\ g[y] \in Int /\ h[y] \in Int
    BY FS_Subset
  <2>2. Sum(f, T) \in Int /\ Sum(g, T) \in Int /\ Sum(h, T) \in Int
    BY <2>1, SumInt
  <2>3. /\ Sum(f, T \cup {x}) = f[x] + Sum(f, T)
        /\ Sum(g, T \cup {x}) = g[x] + Sum(g, T)
        /\ Sum(h, T \cup {x}) = h[x] + Sum(h, T)
    BY <2>1, SumAdd
  <2>4. f[x] \in Int /\ g[x] \in Int /\ h[x] = f[x] + g[x] /\ Sum(h, T) = Sum(f, T) + Sum(g, T)
    BY <1>2
  <2>5. h[x] + Sum(h, T) = (f[x] + Sum(f, T)) + (g[x] + Sum(g, T))
    BY <2>2, <2>4
  <2>6. QED
    BY <2>3, <2>5
<1>3. S \in G
  <2> HIDE DEF G
  <2>1. QED
    BY <1>1, <1>2, SetInduction
<1>4. QED
  BY <1>3

\* The sum of one value for every element.
LEMMA SumConstant ==
  ASSUME NEW S, IsFiniteSet(S), NEW c \in Int, NEW f, \A x \in S : f[x] = c
  PROVE  Sum(f, S) = c * Cardinality(S)
<1> DEFINE G == {T \in SUBSET S : Sum(f, T) = c * Cardinality(T)}
<1>1. {} \in G
  BY SumEmpty, FS_EmptySet
<1>2. ASSUME NEW T \in SUBSET S, NEW x \in S \ T, T \in G PROVE T \cup {x} \in G
  <2>1. IsFiniteSet(T) /\ x \notin T /\ \A y \in T \cup {x} : f[y] \in Int
    BY FS_Subset
  <2>2. Sum(f, T \cup {x}) = c + Sum(f, T)
    BY <2>1, SumAdd
  <2>3. Cardinality(T \cup {x}) = Cardinality(T) + 1 /\ Cardinality(T) \in Nat
    BY <2>1, FS_AddElement, FS_CardinalityType
  <2>4. Sum(f, T) = c * Cardinality(T)
    BY <1>2
  <2>5. \A n \in Nat : c + c * n = c * (n + 1)
    OBVIOUS
  <2>6. QED
    BY <2>2, <2>3, <2>4, <2>5
<1>3. S \in G
  <2> HIDE DEF G
  <2>1. QED
    BY <1>1, <1>2, SetInduction
<1>4. QED
  BY <1>3

LEMMA SumZero ==
  ASSUME NEW S, IsFiniteSet(S), NEW f, \A x \in S : f[x] = 0
  PROVE  Sum(f, S) = 0
<1>1. Sum(f, S) = 0 * Cardinality(S) /\ Cardinality(S) \in Nat
  BY SumConstant, FS_CardinalityType
<1>2. QED
  BY <1>1

LEMMA SumNat ==
  ASSUME NEW S, IsFiniteSet(S), NEW f, \A x \in S : f[x] \in Nat
  PROVE  Sum(f, S) \in Nat
<1> DEFINE zero == [x \in S |-> 0]
<1>1. Sum(zero, S) = 0
  BY SumZero
<1>2. Sum(zero, S) <= Sum(f, S)
  BY SumMonotone
<1>3. Sum(f, S) \in Int
  BY SumInt
<1>4. QED
  BY <1>1, <1>2, <1>3

\* Of two disjoint sets.
LEMMA SumUnion ==
  ASSUME NEW S, IsFiniteSet(S), NEW R, IsFiniteSet(R), S \cap R = {}, NEW f,
         \A x \in S \cup R : f[x] \in Int
  PROVE  Sum(f, S \cup R) = Sum(f, S) + Sum(f, R)
<1> DEFINE G == {T \in SUBSET R : Sum(f, S \cup T) = Sum(f, S) + Sum(f, T)}
<1>0. Sum(f, S) \in Int
  BY SumInt
<1>1. {} \in G
  BY <1>0, SumEmpty
<1>2. ASSUME NEW T \in SUBSET R, NEW x \in R \ T, T \in G PROVE T \cup {x} \in G
  <2>1. /\ IsFiniteSet(T) /\ IsFiniteSet(S \cup T) /\ x \notin T /\ x \notin S \cup T
        /\ \A y \in T \cup {x} : f[y] \in Int
        /\ \A y \in (S \cup T) \cup {x} : f[y] \in Int
    BY FS_Subset, FS_Union
  <2>2. Sum(f, T) \in Int
    BY <2>1, SumInt
  <2>3. /\ Sum(f, T \cup {x}) = f[x] + Sum(f, T)
        /\ Sum(f, (S \cup T) \cup {x}) = f[x] + Sum(f, S \cup T)
    BY <2>1, SumAdd
  <2>4. f[x] \in Int /\ Sum(f, S \cup T) = Sum(f, S) + Sum(f, T)
        /\ S \cup (T \cup {x}) = (S \cup T) \cup {x}
    BY <1>2
  <2>5. f[x] + (Sum(f, S) + Sum(f, T)) = Sum(f, S) + (f[x] + Sum(f, T))
    BY <1>0, <2>2, <2>4
  <2>6. QED
    BY <2>3, <2>4, <2>5
<1>3. R \in G
  <2> HIDE DEF G
  <2>1. QED
    BY <1>1, <1>2, SetInduction
<1>4. QED
  BY <1>3

\* Elements of no value may be left out.
LEMMA SumSupport ==
  ASSUME NEW S, IsFiniteSet(S), NEW T \in SUBSET S, NEW f,
         \A x \in S : f[x] \in Int, \A x \in S \ T : f[x] = 0
  PROVE  Sum(f, S) = Sum(f, T)
<1>1. /\ IsFiniteSet(T) /\ IsFiniteSet(S \ T) /\ T \cap (S \ T) = {} /\ T \cup (S \ T) = S
  BY FS_Subset
<1>2. Sum(f, T) \in Int /\ Sum(f, S \ T) = 0
  BY <1>1, SumInt, SumZero
<1>3. Sum(f, S) = Sum(f, T) + Sum(f, S \ T)
  <2> DEFINE R == S \ T
  <2>1. IsFiniteSet(T) /\ IsFiniteSet(R) /\ T \cap R = {} /\ T \cup R = S
        /\ \A x \in T \cup R : f[x] \in Int
    BY <1>1
  <2> HIDE DEF R
  <2>2. Sum(f, T \cup R) = Sum(f, T) + Sum(f, R)
    BY <2>1, SumUnion
  <2>3. QED
    BY <2>1, <2>2 DEF R
<1>4. QED
  BY <1>1, <1>2, <1>3

\* A function that differs from another at one point.
LEMMA SumChange ==
  ASSUME NEW S, IsFiniteSet(S), NEW y \in S, NEW f, NEW g,
         \A x \in S : f[x] \in Int /\ g[x] \in Int,
         \A x \in S \ {y} : f[x] = g[x]
  PROVE  Sum(g, S) = Sum(f, S) + g[y] - f[y]
<1>1. IsFiniteSet(S \ {y}) /\ \A x \in S \ {y} : f[x] \in Int
  BY FS_RemoveElement
<1>2. Sum(f, S) = f[y] + Sum(f, S \ {y}) /\ Sum(g, S) = g[y] + Sum(g, S \ {y})
  BY SumRemove
<1>3. Sum(f, S \ {y}) = Sum(g, S \ {y}) /\ Sum(f, S \ {y}) \in Int
  BY <1>1, SumSame, SumInt
<1>4. f[y] \in Int /\ g[y] \in Int
  OBVIOUS
<1>5. QED
  BY <1>2, <1>3, <1>4

\* A table by rows and by columns, and the sums of its rows.
Transposed(row, column, S, R) ==
    \A x \in S : \A y \in R : row[x][y] \in Int /\ column[y][x] = row[x][y]

Totals(f, row, S, R) == \A x \in S : f[x] = Sum(row[x], R)

\* The rows of a table add up to what its columns add up to.
LEMMA SumSwap ==
  ASSUME NEW S, IsFiniteSet(S), NEW R, IsFiniteSet(R), NEW row, NEW column, NEW f, NEW g,
         Totals(f, row, S, R), Totals(g, column, R, S), Transposed(row, column, S, R)
  PROVE  Sum(f, S) = Sum(g, R)
<1> USE DEF Totals, Transposed
<1> DEFINE part(T) == [y \in R |-> Sum(column[y], T)]
           G == {T \in SUBSET S : Sum(f, T) = Sum(part(T), R)}
<1>1. {} \in G
  <2>1. \A y \in R : part({})[y] = 0
    BY SumEmpty
  <2>2. Sum(part({}), R) = 0
    <3> HIDE DEF part
    <3>1. QED
      BY <2>1, SumZero
  <2>3. QED
    BY <2>2, SumEmpty
<1>2. ASSUME NEW T \in SUBSET S, NEW z \in S \ T, T \in G PROVE T \cup {z} \in G
  <2>1. IsFiniteSet(T) /\ z \notin T
    BY FS_Subset
  <2>2. ASSUME NEW y \in R
        PROVE  /\ part(T)[y] \in Int
               /\ part(T \cup {z})[y] = row[z][y] + part(T)[y]
    <3>1. \A x \in T \cup {z} : column[y][x] \in Int
      OBVIOUS
    <3>2. column[y][z] = row[z][y]
      OBVIOUS
    <3> DEFINE c == column[y]
    <3>3. Sum(c, T) \in Int /\ Sum(c, T \cup {z}) = c[z] + Sum(c, T)
      <4> HIDE DEF c
      <4>1. \A x \in T \cup {z} : c[x] \in Int
        BY <3>1 DEF c
      <4>2. QED
        BY <2>1, <4>1, SumAdd, SumInt
    <3>4. QED
      BY <3>2, <3>3
  <2>3. \A x \in S : f[x] \in Int
    BY SumInt
  <2>4. Sum(f, T \cup {z}) = f[z] + Sum(f, T)
    BY <2>1, <2>3, SumAdd
  <2>5. \A y \in R : row[z][y] \in Int
    OBVIOUS
  <2> DEFINE p == row[z]
             q == part(T)
             r == part(T \cup {z})
  <2>6. \A y \in R : p[y] \in Int /\ q[y] \in Int /\ r[y] = p[y] + q[y]
    BY <2>2, <2>5
  <2>7. f[z] = Sum(p, R) /\ Sum(f, T) = Sum(q, R)
    BY <1>2
  <2>8. Sum(r, R) = Sum(p, R) + Sum(q, R)
    <3> HIDE DEF p, q, r
    <3>1. QED
      BY <2>6, SumPlus
  <2>9. T \cup {z} \in SUBSET S /\ Sum(f, T \cup {z}) = Sum(part(T \cup {z}), R)
    BY <2>4, <2>7, <2>8
  <2>10. QED
    BY <2>9
<1>3. S \in G
  <2> HIDE DEF G
  <2>1. QED
    BY <1>1, <1>2, SetInduction
<1>4. Sum(f, S) = Sum(part(S), R)
  BY <1>3
<1>5. \A y \in R : part(S)[y] = g[y]
  OBVIOUS
<1>6. Sum(part(S), R) = Sum(g, R)
  <2> HIDE DEF part
  <2>1. QED
    BY <1>5, SumSame
<1>7. QED
  BY <1>4, <1>6

\* A finite set of integers that has an element has a largest one and a smallest one.
LEMMA MaxExists ==
  ASSUME NEW S, IsFiniteSet(S), S \subseteq Int, S # {}
  PROVE  Max(S) \in S /\ \A y \in S : Max(S) >= y
<1> DEFINE G == {T \in SUBSET S : T = {} \/ \E x \in T : \A y \in T : x >= y}
<1>1. {} \in G
  OBVIOUS
<1>2. ASSUME NEW T \in SUBSET S, NEW z \in S \ T, T \in G PROVE T \cup {z} \in G
  <2>1. z \in Int /\ z >= z /\ T \subseteq Int /\ T \cup {z} \in SUBSET S
    OBVIOUS
  <2>2. CASE T = {}
    BY <2>1, <2>2
  <2>3. ASSUME NEW x \in T, \A y \in T : x >= y PROVE T \cup {z} \in G
    <3>1. CASE x >= z
      <4>1. \A y \in T \cup {z} : x >= y
        BY <2>3, <3>1
      <4>2. QED
        BY <2>1, <4>1
    <3>2. CASE z >= x
      <4>1. \A y \in T \cup {z} : z >= y
        <5> SUFFICES ASSUME NEW y \in T PROVE z >= y
          BY <2>1
        <5>1. x >= y /\ x \in Int /\ y \in Int
          BY <2>1, <2>3
        <5>2. QED
          BY <2>1, <3>2, <5>1
      <4>2. QED
        BY <2>1, <4>1
    <3>3. x >= z \/ z >= x
      BY <2>1, <2>3
    <3>4. QED
      BY <3>1, <3>2, <3>3
  <2>4. QED
    BY <1>2, <2>2, <2>3
<1>3. S \in G
  <2> HIDE DEF G
  <2>1. QED
    BY <1>1, <1>2, SetInduction
<1>4. \E x \in S : \A y \in S : x >= y
  BY <1>3
<1>5. QED
  BY <1>4 DEF Max

\* The values a function has on a finite set.
LEMMA ImageFinite ==
  ASSUME NEW S, IsFiniteSet(S), NEW f
  PROVE  IsFiniteSet({f[x] : x \in S})
<1> DEFINE T == {f[x] : x \in S}
           h == [x \in S |-> f[x]]
<1>1. h \in Surjection(S, T)
  BY DEF Surjection
<1> HIDE DEF h
<1>2. IsFiniteSet(T)
  <2> HIDE DEF T
  <2>1. QED
    BY <1>1, FS_Surjection
<1>3. QED
  BY <1>2

LEMMA MinExists ==
  ASSUME NEW S, IsFiniteSet(S), S \subseteq Int, S # {}
  PROVE  Min(S) \in S /\ \A y \in S : Min(S) <= y
<1> DEFINE minus == [x \in S |-> 0 - x]
           R == {minus[x] : x \in S}
<1>1. IsFiniteSet(R)
  <2> HIDE DEF minus
  <2>1. QED
    BY ImageFinite
<1>2. R \subseteq Int /\ R # {}
  <2>1. \A x \in S : minus[x] \in Int
    OBVIOUS
  <2> HIDE DEF minus
  <2>2. QED
    BY <2>1
<1>3. Max(R) \in R /\ \A y \in R : Max(R) >= y
  <2> HIDE DEF R
  <2>1. QED
    BY <1>1, <1>2, MaxExists
<1>4. PICK x \in S : Max(R) = 0 - x
  BY <1>3
<1>5. \A y \in S : x <= y
  <2> SUFFICES ASSUME NEW y \in S PROVE x <= y
    OBVIOUS
  <2>1. 0 - y \in R /\ x \in Int /\ y \in Int
    OBVIOUS
  <2>2. 0 - x >= 0 - y
    BY <1>3, <1>4, <2>1
  <2>3. QED
    BY <2>1, <2>2
<1>6. QED
  BY <1>5 DEF Min
===============================================================================
