------------------------------ MODULE FoldLemmas ------------------------------
(***************************************************************************)
(* Induction, and the folds the specifications are built from: facts about *)
(* the sum of a function over a finite set (SumFunctionOnSet), about a     *)
(* recursion on 0..n, and about the sequence that lists a set in order;    *)
(* and what rounding to a decimal does.                                    *)
(*                                                                         *)
(* An induction is stated about a set, not about a predicate: what is to   *)
(* be shown of every number is shown of the set of the numbers that have   *)
(* it.                                                                     *)
(***************************************************************************)
EXTENDS Decimals, FiniteSets, FiniteSetsExt, FiniteSetTheorems, WellFoundedInduction, TLAPS

\* Every set of natural numbers has a least element.
LEMMA LeastNumber ==
  ASSUME NEW T \in SUBSET Nat, T # {}
  PROVE  \E n \in T : \A m \in T : n <= m
<1> DEFINE R == OpToRel(<, Nat)
<1>1. IsWellFoundedOn(R, Nat)
  BY NatLessThanWellFounded
<1>2. \A x, y \in Nat : <<y, x>> \in R <=> y < x
  BY DEF OpToRel
<1> HIDE DEF R
<1>3. \E x \in T : \A y \in T : ~ (<<y, x>> \in R)
  BY <1>1, WFMin
<1>4. PICK x \in T : \A y \in T : ~ (<<y, x>> \in R)
  BY <1>3
<1>5. \A y \in T : ~ (y < x)
  BY <1>2, <1>4
<1> QED
  BY <1>5

\* Induction on the natural numbers.
LEMMA NumberInduction ==
  ASSUME NEW T \in SUBSET Nat, 0 \in T, \A n \in T : n + 1 \in T
  PROVE  T = Nat
<1> SUFFICES ASSUME T # Nat PROVE FALSE
  OBVIOUS
<1>1. PICK n \in Nat \ T : \A m \in Nat \ T : n <= m
  BY LeastNumber
<1>2. n # 0 /\ n - 1 \in Nat
  BY <1>1
<1>3. n - 1 \in T
  BY <1>1, <1>2
<1> QED
  BY <1>1, <1>3

\* Induction on the subsets of a finite set.
LEMMA SubsetInduction ==
  ASSUME NEW S, IsFiniteSet(S),
         NEW P \in SUBSET SUBSET S,
         {} \in P,
         \A A \in P : \A x \in S \ A : A \union {x} \in P
  PROVE  P = SUBSET S
<1> DEFINE T == {n \in Nat : \A A \in SUBSET S : Cardinality(A) = n => A \in P}
<1>1. \A A \in SUBSET S : IsFiniteSet(A) /\ Cardinality(A) \in Nat
  BY FS_Subset, FS_CardinalityType
<1>2. 0 \in T
  BY <1>1, FS_EmptySet
<1>3. ASSUME NEW n \in T PROVE n + 1 \in T
  <2> SUFFICES ASSUME NEW A \in SUBSET S, Cardinality(A) = n + 1 PROVE A \in P
    OBVIOUS
  <2>1. A # {}
    <3>1. Cardinality({}) = 0 /\ n \in Nat
      BY FS_EmptySet
    <3>2. Cardinality(A) # Cardinality({})
      BY <3>1
    <3> QED
      BY <3>2
  <2>2. PICK x \in A : TRUE
    BY <2>1
  <2>3. Cardinality(A \ {x}) = n
    <3>1. IsFiniteSet(A) /\ n \in Nat
      BY <1>1
    <3>2. Cardinality(A \ {x}) = Cardinality(A) - 1
      BY <2>2, <3>1, FS_RemoveElement
    <3> QED
      BY <3>1, <3>2
  <2>4. A \ {x} \in P
    BY <2>3
  <2>5. (A \ {x}) \union {x} \in P
    BY <2>4
  <2> QED
    BY <2>5
<1> HIDE DEF T
<1>4. T = Nat
  <2>1. T \in SUBSET Nat
    BY DEF T
  <2> QED
    BY <1>2, <1>3, <2>1, NumberInduction
<1> QED
  BY <1>1, <1>4 DEF T

-----------------------------------------------------------------------------
(***************************************************************************)
(* Sums                                                                    *)
(***************************************************************************)

Pick(s) == CHOOSE x \in s : TRUE

\* The recursion by which the sum of f over a set is defined.
Summing(f, S, it) ==
  it = [s \in S |-> IF s = {} THEN 0 ELSE f[Pick(s)] + it[s \ {Pick(s)}]]

LEMMA SumDefinition ==
  ASSUME NEW f, NEW S
  PROVE  SumFunctionOnSet(f, S) = (CHOOSE it : Summing(f, SUBSET S, it))[S]
BY DEF SumFunctionOnSet, FoldFunctionOnSet, MapThenFoldSet, Summing, Pick

\* There is such a function.
LEMMA SummingExists ==
  ASSUME NEW f, NEW S, IsFiniteSet(S)
  PROVE  \E it : Summing(f, SUBSET S, it)
<1> DEFINE Small(n) == {s \in SUBSET S : Cardinality(s) <= n}
           T == {n \in Nat : \E it : Summing(f, Small(n), it)}
<1>1. \A s \in SUBSET S : /\ IsFiniteSet(s) /\ Cardinality(s) \in Nat
                          /\ Cardinality(s) <= Cardinality(S)
  BY FS_Subset, FS_CardinalityType
<1>2. \A s \in SUBSET S : s # {} => /\ Pick(s) \in s
                                    /\ s \ {Pick(s)} \in SUBSET S
                                    /\ Cardinality(s \ {Pick(s)}) = Cardinality(s) - 1
  BY <1>1, FS_RemoveElement DEF Pick
<1>3. 0 \in T
  <2> DEFINE it == [s \in Small(0) |-> 0]
  <2>1. Small(0) = {{}}
    BY <1>1, FS_EmptySet
  <2>2. Summing(f, Small(0), it)
    BY <2>1 DEF Summing
  <2> QED
    BY <2>2
<1>4. ASSUME NEW n \in T PROVE n + 1 \in T
  <2>1. PICK g : Summing(f, Small(n), g)
    OBVIOUS
  <2> DEFINE h == [s \in Small(n + 1) |->
                     IF s = {} THEN 0 ELSE f[Pick(s)] + g[s \ {Pick(s)}]]
  <2>2. ASSUME NEW s \in Small(n) PROVE s \in Small(n + 1) /\ h[s] = g[s]
    <3>1. s \in Small(n + 1)
      BY <1>1
    <3>2. g[s] = IF s = {} THEN 0 ELSE f[Pick(s)] + g[s \ {Pick(s)}]
      BY <2>1 DEF Summing
    <3> QED
      BY <3>1, <3>2
  <2>3. ASSUME NEW s \in Small(n + 1), s # {} PROVE s \ {Pick(s)} \in Small(n)
    <3>1. s \in SUBSET S /\ Cardinality(s) <= n + 1 /\ n \in Nat
      OBVIOUS
    <3>2. s \ {Pick(s)} \in SUBSET S /\ Cardinality(s \ {Pick(s)}) <= n
      BY <1>1, <1>2, <2>3, <3>1
    <3> QED
      BY <3>2
  <2>4. Summing(f, Small(n + 1), h)
    <3>1. \A s \in Small(n + 1) : s # {} => h[s \ {Pick(s)}] = g[s \ {Pick(s)}]
      BY <2>2, <2>3
    <3> QED
      BY <3>1 DEF Summing
  <2> HIDE DEF h
  <2>5. \E it : Summing(f, Small(n + 1), it)
    BY <2>4
  <2>6. n + 1 \in Nat
    OBVIOUS
  <2> QED
    BY <2>5, <2>6
<1> HIDE DEF T
<1>5. T = Nat
  <2>1. T \in SUBSET Nat
    BY DEF T
  <2> QED
    BY <1>3, <1>4, <2>1, NumberInduction
<1>6. Small(Cardinality(S)) = SUBSET S
  BY <1>1
<1>7. Cardinality(S) \in T
  BY <1>1, <1>5
<1> QED
  BY <1>6, <1>7 DEF T
\* The sum over a set satisfies the recursion.
LEMMA SumRecursion ==
  ASSUME NEW f, NEW S, IsFiniteSet(S)
  PROVE  \E it : /\ Summing(f, SUBSET S, it)
                 /\ SumFunctionOnSet(f, S) = it[S]
<1> DEFINE it == CHOOSE g : Summing(f, SUBSET S, g)
<1>1. Summing(f, SUBSET S, it)
  BY SummingExists
<1>2. SumFunctionOnSet(f, S) = it[S]
  BY SumDefinition
<1> QED
  BY <1>1, <1>2

\* Two such recursions agree where their functions and sets do.
LEMMA SummingAgrees ==
  ASSUME NEW S, IsFiniteSet(S), NEW f, NEW g, \A x \in S : f[x] = g[x],
         NEW A, NEW B, NEW p, NEW q,
         S \subseteq A, S \subseteq B,
         Summing(f, SUBSET A, p), Summing(g, SUBSET B, q)
  PROVE  p[S] = q[S]
<1> DEFINE T == {n \in Nat : \A s \in SUBSET S : Cardinality(s) = n => p[s] = q[s]}
<1>1. \A s \in SUBSET S : IsFiniteSet(s) /\ Cardinality(s) \in Nat
  BY FS_Subset, FS_CardinalityType
<1>2. \A s \in SUBSET S : s # {} => /\ Pick(s) \in s
                                    /\ s \ {Pick(s)} \in SUBSET S
                                    /\ Cardinality(s \ {Pick(s)}) = Cardinality(s) - 1
  BY <1>1, FS_RemoveElement DEF Pick
<1>3. p[{}] = 0 /\ q[{}] = 0
  BY DEF Summing
<1>4. \A s \in SUBSET S : s # {} => /\ p[s] = f[Pick(s)] + p[s \ {Pick(s)}]
                                    /\ q[s] = g[Pick(s)] + q[s \ {Pick(s)}]
  BY DEF Summing
<1>5. 0 \in T
  BY <1>1, <1>3, FS_EmptySet
<1>6. ASSUME NEW n \in T PROVE n + 1 \in T
  <2> SUFFICES ASSUME NEW s \in SUBSET S, Cardinality(s) = n + 1 PROVE p[s] = q[s]
    OBVIOUS
  <2>1. CASE s = {}
    BY <1>3, <2>1
  <2>2. CASE s # {}
    <3>1. n \in Nat /\ Cardinality(s \ {Pick(s)}) = n
      BY <1>2, <2>2
    <3>2. p[s \ {Pick(s)}] = q[s \ {Pick(s)}]
      BY <1>2, <2>2, <3>1
    <3>3. f[Pick(s)] = g[Pick(s)]
      BY <1>2, <2>2
    <3> QED
      BY <1>4, <2>2, <3>2, <3>3
  <2> QED
    BY <2>1, <2>2
<1> HIDE DEF T
<1>7. T = Nat
  <2>1. T \in SUBSET Nat
    BY DEF T
  <2> QED
    BY <1>5, <1>6, <2>1, NumberInduction
<1>8. Cardinality(S) \in T
  BY <1>1, <1>7
<1> QED
  BY <1>8 DEF T

\* Functions that agree on a set have the same sum over it.
LEMMA SumSame ==
  ASSUME NEW S, IsFiniteSet(S), NEW f, NEW g, \A x \in S : f[x] = g[x]
  PROVE  SumFunctionOnSet(f, S) = SumFunctionOnSet(g, S)
<1>1. PICK p : Summing(f, SUBSET S, p) /\ SumFunctionOnSet(f, S) = p[S]
  BY SumRecursion
<1>2. PICK q : Summing(g, SUBSET S, q) /\ SumFunctionOnSet(g, S) = q[S]
  BY SumRecursion
<1>3. p[S] = q[S]
  BY <1>1, <1>2, SummingAgrees
<1> QED
  BY <1>1, <1>2, <1>3

\* The sum over nothing.
LEMMA SumEmpty ==
  ASSUME NEW f
  PROVE  SumFunctionOnSet(f, {}) = 0
<1>1. PICK p : Summing(f, SUBSET {}, p) /\ SumFunctionOnSet(f, {}) = p[{}]
  BY SumRecursion, FS_EmptySet
<1> QED
  BY <1>1 DEF Summing

\* One recursion gives the sum over every subset.
LEMMA SumOfSubsets ==
  ASSUME NEW S, IsFiniteSet(S), NEW f, NEW p, Summing(f, SUBSET S, p), NEW s \in SUBSET S
  PROVE  SumFunctionOnSet(f, s) = p[s]
<1>1. IsFiniteSet(s)
  BY FS_Subset
<1>2. PICK q : Summing(f, SUBSET s, q) /\ SumFunctionOnSet(f, s) = q[s]
  BY <1>1, SumRecursion
<1>3. q[s] = p[s]
  <2>1. PICK g : g = f
    OBVIOUS
  <2>2. Summing(g, SUBSET s, q) /\ \A x \in s : g[x] = f[x]
    BY <1>2, <2>1
  <2>3. s \subseteq s /\ s \subseteq S
    OBVIOUS
  <2> QED
    BY <1>1, <2>2, <2>3, SummingAgrees
<1> QED
  BY <1>2, <1>3

\* The sum with its chosen element apart.
LEMMA SumPick ==
  ASSUME NEW S, IsFiniteSet(S), S # {}, NEW f
  PROVE  /\ Pick(S) \in S
         /\ SumFunctionOnSet(f, S) = f[Pick(S)] + SumFunctionOnSet(f, S \ {Pick(S)})
<1>1. PICK p : Summing(f, SUBSET S, p) /\ SumFunctionOnSet(f, S) = p[S]
  BY SumRecursion
<1>2. Pick(S) \in S
  BY DEF Pick
<1>3. p[S] = f[Pick(S)] + p[S \ {Pick(S)}]
  BY <1>1 DEF Summing
<1>4. S \ {Pick(S)} \in SUBSET S
  OBVIOUS
<1>5. SumFunctionOnSet(f, S \ {Pick(S)}) = p[S \ {Pick(S)}]
  BY <1>1, <1>4, SumOfSubsets
<1> QED
  BY <1>1, <1>2, <1>3, <1>5

\* A sum of integers is an integer.
LEMMA SumInteger ==
  ASSUME NEW S, IsFiniteSet(S), NEW f, \A x \in S : f[x] \in Int
  PROVE  SumFunctionOnSet(f, S) \in Int
<1> DEFINE T == {n \in Nat : \A s \in SUBSET S :
                   Cardinality(s) = n => SumFunctionOnSet(f, s) \in Int}
<1>1. \A s \in SUBSET S : IsFiniteSet(s) /\ Cardinality(s) \in Nat
  BY FS_Subset, FS_CardinalityType
<1>2. 0 \in T
  BY <1>1, FS_EmptySet, SumEmpty
<1>3. ASSUME NEW n \in T PROVE n + 1 \in T
  <2> SUFFICES ASSUME NEW s \in SUBSET S, Cardinality(s) = n + 1
               PROVE  SumFunctionOnSet(f, s) \in Int
    OBVIOUS
  <2>1. CASE s = {}
    BY <2>1, SumEmpty
  <2>2. CASE s # {}
    <3>1. /\ Pick(s) \in s
          /\ SumFunctionOnSet(f, s) = f[Pick(s)] + SumFunctionOnSet(f, s \ {Pick(s)})
      BY <1>1, <2>2, SumPick
    <3>2. Cardinality(s \ {Pick(s)}) = n /\ s \ {Pick(s)} \in SUBSET S
      <4>1. n \in Nat /\ IsFiniteSet(s)
        BY <1>1
      <4>2. Cardinality(s \ {Pick(s)}) = Cardinality(s) - 1
        BY <3>1, <4>1, FS_RemoveElement
      <4> QED
        BY <4>1, <4>2
    <3>3. SumFunctionOnSet(f, s \ {Pick(s)}) \in Int /\ f[Pick(s)] \in Int
      BY <3>1, <3>2
    <3> QED
      BY <3>1, <3>3
  <2> QED
    BY <2>1, <2>2
<1> HIDE DEF T
<1>4. T = Nat
  <2>1. T \in SUBSET Nat
    BY DEF T
  <2> QED
    BY <1>2, <1>3, <2>1, NumberInduction
<1>5. Cardinality(S) \in T
  BY <1>1, <1>4
<1> QED
  BY <1>5 DEF T

\* The sum with any element apart: the order of summation does not matter.
LEMMA SumApart ==
  ASSUME NEW S, IsFiniteSet(S), NEW f, \A x \in S : f[x] \in Int, NEW y \in S
  PROVE  SumFunctionOnSet(f, S) = f[y] + SumFunctionOnSet(f, S \ {y})
<1> DEFINE Sum(s) == SumFunctionOnSet(f, s)
           T == {n \in Nat : \A s \in SUBSET S : Cardinality(s) = n =>
                               \A x \in s : Sum(s) = f[x] + Sum(s \ {x})}
<1>1. \A s \in SUBSET S : IsFiniteSet(s) /\ Cardinality(s) \in Nat
  BY FS_Subset, FS_CardinalityType
<1>2. \A s \in SUBSET S : Sum(s) \in Int
  <2> SUFFICES ASSUME NEW s \in SUBSET S PROVE Sum(s) \in Int
    OBVIOUS
  <2>1. \A x \in s : f[x] \in Int
    OBVIOUS
  <2> QED
    BY <1>1, <2>1, SumInteger
<1>3. 0 \in T
  BY <1>1, FS_EmptySet
<1>4. ASSUME NEW n \in T PROVE n + 1 \in T
  <2> SUFFICES ASSUME NEW s \in SUBSET S, Cardinality(s) = n + 1, NEW x \in s
               PROVE  Sum(s) = f[x] + Sum(s \ {x})
    OBVIOUS
  <2> DEFINE p == Pick(s)
  <2>1. p \in s /\ Sum(s) = f[p] + Sum(s \ {p})
    BY <1>1, SumPick
  <2> HIDE DEF p
  <2>2. CASE x = p
    BY <2>1, <2>2
  <2>3. CASE x # p
    <3>1. Cardinality(s \ {p}) = n /\ Cardinality(s \ {x}) = n
      BY <1>1, <2>1, FS_RemoveElement
    <3>2. Sum(s \ {p}) = f[x] + Sum((s \ {p}) \ {x})
      BY <2>3, <3>1
    <3>3. Sum(s \ {x}) = f[p] + Sum((s \ {x}) \ {p})
      BY <2>1, <2>3, <3>1
    <3>4. (s \ {x}) \ {p} = (s \ {p}) \ {x}
      OBVIOUS
    <3>5. /\ Sum((s \ {p}) \ {x}) \in Int /\ f[x] \in Int /\ f[p] \in Int
      BY <1>2, <2>1
    <3>7. Sum(s) = f[p] + (f[x] + Sum((s \ {p}) \ {x}))
      BY <2>1, <3>2
    <3>8. Sum(s \ {x}) = f[p] + Sum((s \ {p}) \ {x})
      BY <3>3, <3>4
    <3>9. f[p] + (f[x] + Sum((s \ {p}) \ {x})) = f[x] + (f[p] + Sum((s \ {p}) \ {x}))
      BY <3>5
    <3> QED
      BY <3>7, <3>8, <3>9, Zenon
  <2> QED
    BY <2>2, <2>3
<1> HIDE DEF T
<1>5. T = Nat
  <2>1. T \in SUBSET Nat
    BY DEF T
  <2> QED
    BY <1>3, <1>4, <2>1, NumberInduction
<1>6. Cardinality(S) \in T
  BY <1>1, <1>5
<1> QED
  BY <1>6 DEF T

\* The sum with one more element.
LEMMA SumAdd ==
  ASSUME NEW S, IsFiniteSet(S), NEW f, NEW x, x \notin S,
         f[x] \in Int, \A y \in S : f[y] \in Int
  PROVE  SumFunctionOnSet(f, S \union {x}) = SumFunctionOnSet(f, S) + f[x]
<1>1. IsFiniteSet(S \union {x}) /\ x \in S \union {x} /\ (S \union {x}) \ {x} = S
  BY FS_AddElement
<1>2. \A y \in S \union {x} : f[y] \in Int
  OBVIOUS
<1>3. SumFunctionOnSet(f, S \union {x}) = f[x] + SumFunctionOnSet(f, S)
  BY <1>1, <1>2, SumApart
<1>4. SumFunctionOnSet(f, S) \in Int
  BY SumInteger
<1> QED
  BY <1>3, <1>4

\* The sum over two disjoint sets.
LEMMA SumUnion ==
  ASSUME NEW S, NEW R, IsFiniteSet(S), IsFiniteSet(R), S \intersect R = {},
         NEW f, \A x \in S \union R : f[x] \in Int
  PROVE  SumFunctionOnSet(f, S \union R) = SumFunctionOnSet(f, S) + SumFunctionOnSet(f, R)
<1> DEFINE P == {A \in SUBSET R :
                   SumFunctionOnSet(f, S \union A) =
                     SumFunctionOnSet(f, S) + SumFunctionOnSet(f, A)}
<1>1. SumFunctionOnSet(f, S) \in Int
  BY SumInteger
<1>2. {} \in P
  <2>1. S \union {} = S
    OBVIOUS
  <2> QED
    BY <1>1, <2>1, SumEmpty
<1>3. ASSUME NEW A \in P, NEW x \in R \ A PROVE A \union {x} \in P
  <2>1. IsFiniteSet(A) /\ IsFiniteSet(S \union A)
    BY FS_Subset, FS_Union
  <2>2. /\ \A y \in A : f[y] \in Int
        /\ \A y \in S \union A : f[y] \in Int
        /\ f[x] \in Int
        /\ x \notin A /\ x \notin S \union A
    OBVIOUS
  <2>3. SumFunctionOnSet(f, A \union {x}) = SumFunctionOnSet(f, A) + f[x]
    BY <2>1, <2>2, SumAdd
  <2>4. SumFunctionOnSet(f, (S \union A) \union {x}) = SumFunctionOnSet(f, S \union A) + f[x]
    BY <2>1, <2>2, SumAdd
  <2>5. SumFunctionOnSet(f, A) \in Int
    BY <2>1, <2>2, SumInteger
  <2>6. SumFunctionOnSet(f, S \union A) = SumFunctionOnSet(f, S) + SumFunctionOnSet(f, A)
    OBVIOUS
  <2>7. S \union (A \union {x}) = (S \union A) \union {x}
    OBVIOUS
  <2>8. (SumFunctionOnSet(f, S) + SumFunctionOnSet(f, A)) + f[x] =
          SumFunctionOnSet(f, S) + (SumFunctionOnSet(f, A) + f[x])
    BY <1>1, <2>2, <2>5
  <2>9. SumFunctionOnSet(f, S \union (A \union {x})) =
          SumFunctionOnSet(f, S) + SumFunctionOnSet(f, A \union {x})
    BY <2>3, <2>4, <2>6, <2>7, <2>8, Zenon
  <2> QED
    BY <2>9
<1> HIDE DEF P
<1>4. P = SUBSET R
  <2>1. P \in SUBSET SUBSET R
    BY DEF P
  <2> QED
    BY <1>2, <1>3, <2>1, SubsetInduction
<1>5. R \in P
  BY <1>4
<1> QED
  BY <1>5 DEF P

\* A sum of natural numbers is one, and at least each of them.
LEMMA SumNatural ==
  ASSUME NEW S, IsFiniteSet(S), NEW f, \A x \in S : f[x] \in Nat
  PROVE  /\ SumFunctionOnSet(f, S) \in Nat
         /\ \A x \in S : f[x] <= SumFunctionOnSet(f, S)
<1> DEFINE P == {A \in SUBSET S : SumFunctionOnSet(f, A) \in Nat}
<1>1. {} \in P
  BY SumEmpty
<1>2. ASSUME NEW A \in P, NEW x \in S \ A PROVE A \union {x} \in P
  <2>1. IsFiniteSet(A)
    BY FS_Subset
  <2>2. f[x] \in Int /\ x \notin A /\ \A y \in A : f[y] \in Int
    OBVIOUS
  <2>3. SumFunctionOnSet(f, A \union {x}) = SumFunctionOnSet(f, A) + f[x]
    BY <2>1, <2>2, SumAdd
  <2> QED
    BY <2>3
<1> HIDE DEF P
<1>3. P = SUBSET S
  <2>1. P \in SUBSET SUBSET S
    BY DEF P
  <2> QED
    BY <1>1, <1>2, <2>1, SubsetInduction
<1>4. \A A \in SUBSET S : SumFunctionOnSet(f, A) \in Nat
  BY <1>3 DEF P
<1>5. ASSUME NEW x \in S PROVE f[x] <= SumFunctionOnSet(f, S)
  <2>1. SumFunctionOnSet(f, S) = f[x] + SumFunctionOnSet(f, S \ {x})
    BY SumApart
  <2>2. SumFunctionOnSet(f, S \ {x}) \in Nat
    BY <1>4
  <2> QED
    BY <2>1, <2>2
<1> QED
  BY <1>4, <1>5

\* Part of a sum of natural numbers is no more than the whole.
LEMMA SumPart ==
  ASSUME NEW S, IsFiniteSet(S), NEW f, \A x \in S : f[x] \in Nat, NEW A \in SUBSET S
  PROVE  /\ SumFunctionOnSet(f, A) \in Nat /\ SumFunctionOnSet(f, S) \in Nat
         /\ SumFunctionOnSet(f, A) <= SumFunctionOnSet(f, S)
<1>1. IsFiniteSet(A) /\ IsFiniteSet(S \ A)
  BY FS_Subset
<1>2. /\ \A x \in A : f[x] \in Nat
      /\ \A x \in S \ A : f[x] \in Nat
      /\ \A x \in A \union (S \ A) : f[x] \in Int
      /\ A \intersect (S \ A) = {}
  OBVIOUS
<1>3. /\ SumFunctionOnSet(f, A) \in Nat /\ SumFunctionOnSet(f, S) \in Nat
      /\ SumFunctionOnSet(f, S \ A) \in Nat
  BY <1>1, <1>2, SumNatural
<1>4. SumFunctionOnSet(f, A \union (S \ A)) = SumFunctionOnSet(f, A) + SumFunctionOnSet(f, S \ A)
  BY <1>1, <1>2, SumUnion
<1>5. A \union (S \ A) = S
  OBVIOUS
<1>6. SumFunctionOnSet(f, S) = SumFunctionOnSet(f, A) + SumFunctionOnSet(f, S \ A)
  BY <1>4, <1>5, Zenon
<1> QED
  BY <1>3, <1>6

\* The sum after one more element, by a function that agrees on the others.
LEMMA SumGrows ==
  ASSUME NEW S, IsFiniteSet(S), NEW f, \A x \in S : f[x] \in Int,
         NEW g, \A x \in S : g[x] = f[x],
         NEW y, y \notin S, g[y] \in Int
  PROVE  /\ SumFunctionOnSet(f, S) \in Int
         /\ SumFunctionOnSet(g, S \union {y}) = SumFunctionOnSet(f, S) + g[y]
<1>1. SumFunctionOnSet(f, S) \in Int
  BY SumInteger
<1>2. SumFunctionOnSet(g, S) = SumFunctionOnSet(f, S)
  BY SumSame
<1>3. \A x \in S : g[x] \in Int
  OBVIOUS
<1>4. SumFunctionOnSet(g, S \union {y}) = SumFunctionOnSet(g, S) + g[y]
  BY <1>3, SumAdd
<1> QED
  BY <1>1, <1>2, <1>4

\* The sum of a function changed at one element.
LEMMA SumChanged ==
  ASSUME NEW S, IsFiniteSet(S), NEW f, \A x \in S : f[x] \in Int,
         NEW y \in S, NEW g, \A x \in S \ {y} : g[x] = f[x], g[y] \in Int
  PROVE  /\ SumFunctionOnSet(f, S) \in Int
         /\ SumFunctionOnSet(g, S) = (SumFunctionOnSet(f, S) - f[y]) + g[y]
<1>1. IsFiniteSet(S \ {y}) /\ (\A x \in S \ {y} : f[x] \in Int) /\ \A x \in S : g[x] \in Int
  BY FS_RemoveElement
<1>2. SumFunctionOnSet(f, S) = f[y] + SumFunctionOnSet(f, S \ {y})
  BY SumApart
<1>3. SumFunctionOnSet(g, S) = g[y] + SumFunctionOnSet(g, S \ {y})
  BY <1>1, SumApart
<1>4. SumFunctionOnSet(f, S \ {y}) = SumFunctionOnSet(g, S \ {y})
  BY <1>1, SumSame
<1>5. SumFunctionOnSet(f, S \ {y}) \in Int /\ SumFunctionOnSet(f, S) \in Int
  BY <1>1, SumInteger
<1>6. PICK a, b, c : a = f[y] /\ b = g[y] /\ c = SumFunctionOnSet(f, S \ {y})
  OBVIOUS
<1>7. SumFunctionOnSet(f, S) = a + c /\ SumFunctionOnSet(g, S) = b + c
  BY <1>2, <1>3, <1>4, <1>6, Zenon
<1>8. a \in Int /\ b \in Int /\ c \in Int
  BY <1>5, <1>6
<1>9. b + c = ((a + c) - a) + b
  BY <1>8
<1> QED
  BY <1>5, <1>6, <1>7, <1>9, Zenon

\* The sum of a function that is nought.
LEMMA SumNought ==
  ASSUME NEW S, IsFiniteSet(S), NEW f \in [S -> {0}]
  PROVE  SumFunctionOnSet(f, S) = 0
<1> DEFINE P == {A \in SUBSET S : SumFunctionOnSet(f, A) = 0}
<1>1. {} \in P
  BY SumEmpty
<1>2. ASSUME NEW A \in P, NEW x \in S \ A PROVE A \union {x} \in P
  <2>1. IsFiniteSet(A)
    BY FS_Subset
  <2>2. f[x] \in Int /\ x \notin A /\ \A y \in A : f[y] \in Int
    OBVIOUS
  <2>3. SumFunctionOnSet(f, A \union {x}) = SumFunctionOnSet(f, A) + f[x]
    BY <2>1, <2>2, SumAdd
  <2> QED
    BY <2>3
<1> HIDE DEF P
<1>3. P = SUBSET S
  <2>1. P \in SUBSET SUBSET S
    BY DEF P
  <2> QED
    BY <1>1, <1>2, <2>1, SubsetInduction
<1>4. S \in P
  BY <1>3
<1> QED
  BY <1>4 DEF P

\* A sum at least as large, element by element.
LEMMA SumAtMost ==
  ASSUME NEW S, IsFiniteSet(S), NEW f, NEW g,
         \A x \in S : f[x] \in Int /\ g[x] \in Int /\ f[x] <= g[x]
  PROVE  SumFunctionOnSet(f, S) <= SumFunctionOnSet(g, S)
<1> DEFINE P == {A \in SUBSET S : SumFunctionOnSet(f, A) <= SumFunctionOnSet(g, A)}
<1>1. {} \in P
  <2>1. SumFunctionOnSet(f, {}) = 0 /\ SumFunctionOnSet(g, {}) = 0
    BY SumEmpty
  <2> QED
    BY <2>1
<1>2. ASSUME NEW A \in P, NEW x \in S \ A PROVE A \union {x} \in P
  <2>1. IsFiniteSet(A)
    BY FS_Subset
  <2>2. /\ f[x] \in Int /\ x \notin A /\ \A y \in A : f[y] \in Int
        /\ g[x] \in Int /\ \A y \in A : g[y] \in Int
        /\ f[x] <= g[x]
    OBVIOUS
  <2>3. /\ SumFunctionOnSet(f, A \union {x}) = SumFunctionOnSet(f, A) + f[x]
        /\ SumFunctionOnSet(g, A \union {x}) = SumFunctionOnSet(g, A) + g[x]
    BY <2>1, <2>2, SumAdd
  <2>4. SumFunctionOnSet(f, A) \in Int /\ SumFunctionOnSet(g, A) \in Int
    BY <2>1, <2>2, SumInteger
  <2>5. SumFunctionOnSet(f, A) <= SumFunctionOnSet(g, A)
    OBVIOUS
  <2>6. SumFunctionOnSet(f, A) + f[x] <= SumFunctionOnSet(g, A) + g[x]
    BY <2>2, <2>4, <2>5
  <2>7. SumFunctionOnSet(f, A \union {x}) <= SumFunctionOnSet(g, A \union {x})
    BY <2>3, <2>6, Zenon
  <2> QED
    BY <2>7
<1> HIDE DEF P
<1>3. P = SUBSET S
  <2>1. P \in SUBSET SUBSET S
    BY DEF P
  <2> QED
    BY <1>1, <1>2, <2>1, SubsetInduction
<1>4. S \in P
  BY <1>3
<1> QED
  BY <1>4 DEF P

\* h takes the elements of S to different ones, and f is there what g is on S.
Carries(h, S, f, g) ==
  /\ \A x, y \in S : h[x] = h[y] => x = y
  /\ \A x \in S : g[x] \in Int /\ f[h[x]] = g[x]

\* A sum over the images of a set, none of them twice.
LEMMA SumImage ==
  ASSUME NEW S, IsFiniteSet(S), NEW h, NEW f, NEW g, Carries(h, S, f, g)
  PROVE  /\ IsFiniteSet({h[x] : x \in S})
         /\ SumFunctionOnSet(f, {h[x] : x \in S}) = SumFunctionOnSet(g, S)
<1>0. /\ \A x, y \in S : h[x] = h[y] => x = y
      /\ \A x \in S : g[x] \in Int /\ f[h[x]] = g[x]
  BY DEF Carries
<1> DEFINE Image(A) == {h[x] : x \in A}
           P == {A \in SUBSET S : /\ IsFiniteSet(Image(A))
                                  /\ SumFunctionOnSet(f, Image(A)) = SumFunctionOnSet(g, A)}
<1>1. {} \in P
  <2>1. Image({}) = {}
    OBVIOUS
  <2>2. SumFunctionOnSet(f, {}) = 0 /\ SumFunctionOnSet(g, {}) = 0
    BY SumEmpty
  <2>3. IsFiniteSet({})
    BY FS_EmptySet
  <2> QED
    BY <2>1, <2>2, <2>3
<1>2. ASSUME NEW A \in P, NEW x \in S \ A PROVE A \union {x} \in P
  <2>1. IsFiniteSet(A) /\ A \in SUBSET S
    BY FS_Subset
  <2>2. Image(A \union {x}) = Image(A) \union {h[x]} /\ h[x] \notin Image(A)
    BY <1>0
  <2>3. \A y \in Image(A) : f[y] \in Int
    BY <1>0
  <2>4. /\ f[h[x]] \in Int /\ g[x] \in Int /\ f[h[x]] = g[x]
        /\ x \notin A /\ \A y \in A : g[y] \in Int
    BY <1>0
  <2>5. IsFiniteSet(Image(A)) /\ SumFunctionOnSet(f, Image(A)) = SumFunctionOnSet(g, A)
    OBVIOUS
  <2> HIDE DEF Image
  <2>6. PICK I, y : I = Image(A) /\ y = h[x]
    OBVIOUS
  <2>7. SumFunctionOnSet(f, I \union {y}) = SumFunctionOnSet(f, I) + f[y]
    <3>1. IsFiniteSet(I) /\ y \notin I /\ f[y] \in Int /\ \A z \in I : f[z] \in Int
      BY <2>2, <2>3, <2>4, <2>5, <2>6
    <3>2. ASSUME NEW e, NEW J, IsFiniteSet(J), NEW z, z \notin J, e[z] \in Int,
                 \A w \in J : e[w] \in Int
          PROVE  SumFunctionOnSet(e, J \union {z}) = SumFunctionOnSet(e, J) + e[z]
      BY <3>2, SumAdd
    <3> QED
      BY <3>1, <3>2, Zenon
  <2>8. SumFunctionOnSet(g, A \union {x}) = SumFunctionOnSet(g, A) + g[x]
    BY <2>1, <2>4, SumAdd
  <2>9. SumFunctionOnSet(f, Image(A \union {x})) = SumFunctionOnSet(g, A \union {x})
    BY <2>2, <2>4, <2>5, <2>6, <2>7, <2>8, Zenon
  <2>10. IsFiniteSet(Image(A \union {x}))
    <3>1. IsFiniteSet(I \union {y})
      BY <2>5, <2>6, FS_AddElement, Zenon
    <3> QED
      BY <2>2, <2>6, <3>1, Zenon
  <2> QED
    BY <2>9, <2>10
<1> HIDE DEF P
<1>3. P = SUBSET S
  <2>1. P \in SUBSET SUBSET S
    BY DEF P
  <2> QED
    BY <1>1, <1>2, <2>1, SubsetInduction
<1>4. S \in P
  BY <1>3
<1> QED
  BY <1>4 DEF P

\* A set of numbers up to n has a greatest element.
LEMMA GreatestNumber ==
  ASSUME NEW n \in Nat, NEW S \in SUBSET (0 .. n), S # {}
  PROVE  Max(S) \in S /\ \A x \in S : x <= Max(S)
<1> DEFINE T == {n - x : x \in S}
<1>0. \A x \in S : x \in Int /\ n - x \in Nat
  OBVIOUS
<1>1. T \in SUBSET Nat /\ T # {}
  BY <1>0
<1>2. PICK d \in T : \A e \in T : d <= e
  BY <1>1, LeastNumber
<1>3. PICK y \in S : d = n - y
  OBVIOUS
<1>4. \A x \in S : n - x \in T
  OBVIOUS
<1>5. \A x \in S : n - y <= n - x
  BY <1>2, <1>3, <1>4
<1>6. Max(S) \in S /\ \A x \in S : Max(S) >= x
  <2>1. \A x \in S : y >= x
    BY <1>0, <1>5
  <2> QED
    BY <2>1 DEF Max
<1> QED
  BY <1>6

-----------------------------------------------------------------------------
(***************************************************************************)
(* Recursion on 0..n, and a set listed in order                            *)
(***************************************************************************)

\* f goes by the steps F from base, in the values V, n times.
Goes(f, V, base, F, n) ==
  /\ f \in [0 .. n -> V]
  /\ f[0] = base
  /\ \A i \in 1 .. n : f[i] = F[i][f[i - 1]]

\* A function defined from one number to the next exists.
LEMMA StepRecursion ==
  ASSUME NEW N \in Nat, NEW V, NEW base \in V, NEW F \in [1 .. N -> [V -> V]]
  PROVE  \E f : Goes(f, V, base, F, N)
<1> DEFINE Upto(k, f) == Goes(f, V, base, F, k)
           T == {k \in Nat : k <= N => \E f : Upto(k, f)}
<1>1. 0 \in T
  <2>1. Upto(0, [n \in 0 .. 0 |-> base])
    BY DEF Goes
  <2>2. \E f : Upto(0, f)
    BY <2>1
  <2> QED
    BY <2>2
<1>2. ASSUME NEW k \in T PROVE k + 1 \in T
  <2> SUFFICES ASSUME k + 1 <= N PROVE \E f : Upto(k + 1, f)
    OBVIOUS
  <2>1. k \in Nat /\ k <= N
    OBVIOUS
  <2>2. PICK f : Upto(k, f)
    BY <2>1
  <2> USE DEF Goes
  <2> DEFINE h == [n \in 0 .. (k + 1) |-> IF n <= k THEN f[n] ELSE F[k + 1][f[k]]]
  <2>3. F[k + 1][f[k]] \in V
    <3>1. f[k] \in V /\ k + 1 \in 1 .. N
      BY <2>1, <2>2
    <3> QED
      BY <3>1
  <2>4. h \in [0 .. (k + 1) -> V] /\ h[0] = base
    BY <2>1, <2>2, <2>3
  <2>5. ASSUME NEW n \in 1 .. (k + 1) PROVE h[n] = F[n][h[n - 1]]
    <3>1. n - 1 \in 0 .. k /\ h[n - 1] = f[n - 1]
      BY <2>1
    <3>2. CASE n <= k
      <4>1. n \in 1 .. k /\ h[n] = f[n]
        BY <2>1, <3>2
      <4> QED
        BY <2>2, <3>1, <4>1
    <3>3. CASE n = k + 1
      <4>1. n - 1 = k /\ h[n] = F[k + 1][f[k]]
        BY <2>1, <3>3
      <4> QED
        BY <3>1, <3>3, <4>1
    <3> QED
      BY <2>1, <3>2, <3>3
  <2> HIDE DEF h
  <2>6. Upto(k + 1, h)
    BY <2>4, <2>5
  <2> QED
    BY <2>6
<1> HIDE DEF T, Upto
<1>3. T = Nat
  <2>1. T \in SUBSET Nat
    BY DEF T
  <2> QED
    BY <1>1, <1>2, <2>1, NumberInduction
<1>4. N \in T
  BY <1>3
<1> QED
  BY <1>4 DEF T, Upto

\* R ranks the elements of S.
Ranks(R, S) ==
  /\ R \subseteq S \X S
  /\ \A a \in S : <<a, a>> \notin R
  /\ \A a, b \in S : a = b \/ <<a, b>> \in R \/ <<b, a>> \in R
  /\ \A a, b, c \in S : <<a, b>> \in R /\ <<b, c>> \in R => <<a, c>> \in R

\* The i-th element is the one that i - 1 others are ahead of.
Listed(R, S) ==
  [i \in 1 .. Cardinality(S) |->
     CHOOSE m \in S : Cardinality({o \in S : <<o, m>> \in R}) = i - 1]

\* A ranked finite set is listed in order and completely.
LEMMA ListedInOrder ==
  ASSUME NEW S, IsFiniteSet(S), NEW R, Ranks(R, S)
  PROVE  /\ Cardinality(S) \in Nat
         /\ Listed(R, S) \in [1 .. Cardinality(S) -> S]
         /\ \A m \in S : \E i \in 1 .. Cardinality(S) : Listed(R, S)[i] = m
         /\ \A i, j \in 1 .. Cardinality(S) :
              i < j => <<Listed(R, S)[i], Listed(R, S)[j]>> \in R
<1> DEFINE N == Cardinality(S)
           q == Listed(R, S)
           Before(m) == {o \in S : <<o, m>> \in R}
           place == [m \in S |-> Cardinality(Before(m)) + 1]
<1>1. N \in Nat
  BY FS_CardinalityType
<1>2. ASSUME NEW m \in S
      PROVE  IsFiniteSet(Before(m)) /\ Cardinality(Before(m)) \in Nat
  <2>1. Before(m) \in SUBSET S
    OBVIOUS
  <2> QED
    BY <2>1, FS_Subset, FS_CardinalityType
<1>3. ASSUME NEW a \in S, NEW b \in S, <<a, b>> \in R
      PROVE  Cardinality(Before(a)) < Cardinality(Before(b))
  <2>1. Before(a) \union {a} \subseteq Before(b) /\ a \notin Before(a)
    BY <1>3 DEF Ranks
  <2>2. Cardinality(Before(a) \union {a}) = Cardinality(Before(a)) + 1
    BY <1>2, <2>1, FS_AddElement
  <2>3. Cardinality(Before(a) \union {a}) <= Cardinality(Before(b))
    BY <1>2, <2>1, FS_Subset
  <2>4. Cardinality(Before(a)) \in Nat /\ Cardinality(Before(b)) \in Nat
    BY <1>2
  <2> HIDE DEF Before
  <2> QED
    BY <2>2, <2>3, <2>4
<1>4. ASSUME NEW m \in S PROVE Cardinality(Before(m)) + 1 \in 1 .. N
  <2>1. Before(m) \subseteq S \ {m}
    BY DEF Ranks
  <2>2. IsFiniteSet(S \ {m}) /\ Cardinality(S \ {m}) = N - 1
    BY FS_RemoveElement
  <2>3. Before(m) \in SUBSET (S \ {m})
    BY <2>1, Zenon
  <2>4. Cardinality(Before(m)) <= Cardinality(S \ {m})
    <3> HIDE DEF Before
    <3> QED
      BY <2>2, <2>3, FS_Subset
  <2>5. Cardinality(Before(m)) <= N - 1
    BY <2>2, <2>4
  <2> HIDE DEF Before
  <2> QED
    BY <1>1, <1>2, <2>5
<1>5. place \in Injection(S, 1 .. N)
  <2>1. place \in [S -> 1 .. N]
    BY <1>4
  <2>2. ASSUME NEW a \in S, NEW b \in S, place[a] = place[b] PROVE a = b
    <3>1. place[a] = Cardinality(Before(a)) + 1 /\ place[b] = Cardinality(Before(b)) + 1
      OBVIOUS
    <3>0. Cardinality(Before(a)) \in Nat /\ Cardinality(Before(b)) \in Nat
      BY <1>2
    <3> HIDE DEF place, Before
    <3>4. Cardinality(Before(a)) + 1 = Cardinality(Before(b)) + 1
      BY <2>2, <3>1, Zenon
    <3>2. Cardinality(Before(a)) = Cardinality(Before(b))
      BY <3>0, <3>4
    <3>3. <<a, b>> \notin R /\ <<b, a>> \notin R
      BY <1>2, <1>3, <3>2
    <3> QED
      BY <3>3 DEF Ranks
  <2> HIDE DEF place
  <2> QED
    BY <2>1, <2>2 DEF Injection, IsInjective
<1>6. place \in Surjection(S, 1 .. N)
  <2>1. IsFiniteSet(1 .. N) /\ Cardinality(1 .. N) = N
    BY <1>1, FS_Interval
  <2> HIDE DEF place
  <2> QED
    BY <1>5, <2>1, FS_Injection
<1>7. \A i \in 1 .. N : \E m \in S : place[m] = i
  <2> HIDE DEF place
  <2> QED
    BY <1>6 DEF Surjection
<1>8. \A i \in 1 .. N : q[i] \in S /\ Cardinality(Before(q[i])) = i - 1
  <2> SUFFICES ASSUME NEW i \in 1 .. N
               PROVE  q[i] \in S /\ Cardinality(Before(q[i])) = i - 1
    OBVIOUS
  <2>1. q[i] = CHOOSE m \in S : Cardinality(Before(m)) = i - 1
    BY DEF Listed
  <2>2. PICK m \in S : place[m] = i
    BY <1>7
  <2>3. Cardinality(Before(m)) + 1 = i
    BY <2>2
  <2> HIDE DEF place, q, Before
  <2>4. Cardinality(Before(m)) = i - 1
    BY <1>2, <2>3
  <2> QED
    BY <2>1, <2>4
<1>9. \A m \in S : \E i \in 1 .. N : q[i] = m
  <2> SUFFICES ASSUME NEW m \in S PROVE \E i \in 1 .. N : q[i] = m
    OBVIOUS
  <2> DEFINE i == Cardinality(Before(m)) + 1
  <2>1. i \in 1 .. N
    BY <1>4
  <2>2. q[i] \in S /\ Cardinality(Before(q[i])) = i - 1
    BY <1>8, <2>1
  <2> HIDE DEF q
  <2>3. place[q[i]] = place[m]
    <3>1. place[q[i]] = Cardinality(Before(q[i])) + 1 /\ place[m] = i
      BY <2>2
    <3>2. i \in Int
      BY <2>1
    <3> HIDE DEF place, i, Before
    <3> QED
      BY <2>2, <3>1, <3>2
  <2>4. q[i] = m
    <3> HIDE DEF place, i
    <3> QED
      BY <1>5, <2>2, <2>3 DEF Injection, IsInjective
  <2> QED
    BY <2>1, <2>4
<1>10. ASSUME NEW i \in 1 .. N, NEW j \in 1 .. N, i < j PROVE <<q[i], q[j]>> \in R
  <2>1. /\ q[i] \in S /\ Cardinality(Before(q[i])) = i - 1
        /\ q[j] \in S /\ Cardinality(Before(q[j])) = j - 1
    BY <1>8
  <2> HIDE DEF q, Before, place
  <2>2. q[i] # q[j] /\ <<q[j], q[i]>> \notin R
    BY <1>1, <1>3, <1>10, <2>1
  <2> QED
    BY <2>1, <2>2 DEF Ranks
<1>11. q \in [1 .. N -> S]
  BY <1>8 DEF Listed
<1> HIDE DEF q, N
<1>12. /\ N \in Nat
       /\ q \in [1 .. N -> S]
       /\ \A m \in S : \E i \in 1 .. N : q[i] = m
       /\ \A i, j \in 1 .. N : i < j => <<q[i], q[j]>> \in R
  BY <1>1, <1>9, <1>10, <1>11
<1> QED
  BY <1>12 DEF q, N

-----------------------------------------------------------------------------
(***************************************************************************)
(* Decimals                                                                *)
(***************************************************************************)

\* What integer division is.
LEMMA DivFacts ==
  ASSUME NEW a \in Nat, NEW b \in Nat \ {0}
  PROVE  /\ a \div b \in Nat
         /\ b * (a \div b) <= a
         /\ a < b * (a \div b) + b
OBVIOUS

\* The nearest integer is at most a half away.
LEMMA NearestClose ==
  ASSUME NEW n \in Int, NEW d \in Nat \ {0}
  PROVE  /\ Nearest(n, d) \in Int
         /\ n >= 0 => Nearest(n, d) \in Nat
         /\ 2 * (d * Nearest(n, d)) <= 2 * n + d
         /\ 2 * n - d <= 2 * (d * Nearest(n, d))
<1>1. CASE n >= 0
  <2> DEFINE a == 2 * n + d
             b == 2 * d
             q == a \div b
  <2>1. a \in Nat /\ b \in Nat \ {0}
    BY <1>1
  <2>2. q \in Nat /\ b * q <= a /\ a < b * q + b
    <3> HIDE DEF a, b
    <3> QED
      BY <2>1, DivFacts
  <2>3. Nearest(n, d) = q
    BY <1>1 DEF Nearest
  <2>4. b * q = 2 * (d * q)
    <3> HIDE DEF q
    <3> QED
      BY <2>2
  <2> HIDE DEF q
  <2> QED
    BY <1>1, <2>2, <2>3, <2>4
<1>2. CASE n < 0
  <2> DEFINE a == d - 2 * n
             b == 2 * d
             q == a \div b
  <2>1. a \in Nat /\ b \in Nat \ {0}
    BY <1>2
  <2>2. q \in Nat /\ b * q <= a /\ a < b * q + b
    <3> HIDE DEF a, b
    <3> QED
      BY <2>1, DivFacts
  <2>3. Nearest(n, d) = -q
    BY <1>2 DEF Nearest
  <2>4. b * q = 2 * (d * q) /\ d * (-q) = -(d * q)
    <3> HIDE DEF q
    <3> QED
      BY <2>2
  <2> HIDE DEF q
  <2> QED
    BY <1>2, <2>2, <2>3, <2>4
<1> QED
  BY <1>1, <1>2

\* Rounding moves an amount by half a digit at most, and not below zero.
LEMMA RoundedClose ==
  ASSUME NEW x \in Int, NEW d \in Nat \ {0}
  PROVE  /\ RoundedTo(x, d) \in Int
         /\ x >= 0 => RoundedTo(x, d) \in Nat
         /\ Slack(d) \in Nat
         /\ x - Slack(d) <= RoundedTo(x, d)
         /\ RoundedTo(x, d) <= x + Slack(d)
<1> DEFINE k == Nearest(x, d)
           r == d * k
<1>1. k \in Int /\ (x >= 0 => k \in Nat) /\ 2 * r <= 2 * x + d /\ 2 * x - d <= 2 * r
  BY NearestClose
<1>2. r \in Int /\ (x >= 0 => r \in Nat)
  <2> HIDE DEF k
  <2> QED
    BY <1>1
<1>3. RoundedTo(x, d) = r
  BY DEF RoundedTo
<1> HIDE DEF k, r
<1>4. Slack(d) \in Nat /\ 2 * Slack(d) <= d /\ d <= 2 * Slack(d) + 1
  BY DEF Slack
<1> QED
  BY <1>1, <1>2, <1>3, <1>4

\* An amount below a multiple of the digit is rounded to one.
LEMMA RoundedBelow ==
  ASSUME NEW x \in Int, NEW d \in Nat \ {0}, NEW k \in Int, x <= d * k
  PROVE  RoundedTo(x, d) <= d * k
<1> DEFINE m == Nearest(x, d)
<1>1. m \in Int /\ 2 * (d * m) <= 2 * x + d
  BY NearestClose
<1> HIDE DEF m
<1>2. ASSUME k + 1 <= m PROVE FALSE
  <2>1. d * (k + 1) <= d * m
    BY <1>1, <1>2
  <2>2. d * (k + 1) = d * k + d
    OBVIOUS
  <2>3. d * k \in Int /\ d * m \in Int
    BY <1>1
  <2> QED
    BY <1>1, <2>1, <2>2, <2>3
<1>3. m <= k
  BY <1>1, <1>2
<1>4. d * m <= d * k
  BY <1>1, <1>3
<1> QED
  BY <1>4 DEF RoundedTo, m

\* Where two functions are nowhere further apart than h, their sums differ by h
\* an element at most.
LEMMA SumsClose ==
  ASSUME NEW S, IsFiniteSet(S), NEW f, NEW g, NEW h \in Nat,
         \A x \in S : /\ f[x] \in Int /\ g[x] \in Int
                      /\ f[x] - h <= g[x] /\ g[x] <= f[x] + h
  PROVE  /\ SumFunctionOnSet(g, S) - h * Cardinality(S) <= SumFunctionOnSet(f, S)
         /\ SumFunctionOnSet(f, S) <= SumFunctionOnSet(g, S) + h * Cardinality(S)
<1> DEFINE P == {A \in SUBSET S :
      /\ SumFunctionOnSet(g, A) - h * Cardinality(A) <= SumFunctionOnSet(f, A)
      /\ SumFunctionOnSet(f, A) <= SumFunctionOnSet(g, A) + h * Cardinality(A)}
<1>1. {} \in P
  <2>1. Cardinality({}) = 0
    BY FS_EmptySet
  <2>2. SumFunctionOnSet(f, {}) = 0 /\ SumFunctionOnSet(g, {}) = 0
    BY SumEmpty
  <2> QED
    BY <2>1, <2>2
<1>2. ASSUME NEW A \in P, NEW x \in S \ A PROVE A \union {x} \in P
  <2>1. IsFiniteSet(A) /\ A \in SUBSET S
    BY FS_Subset
  <2>2. Cardinality(A) \in Nat /\ Cardinality(A \union {x}) = Cardinality(A) + 1
    BY <2>1, FS_AddElement, FS_CardinalityType
  <2>3. \A y \in A : f[y] \in Int /\ g[y] \in Int
    OBVIOUS
  <2>4. /\ SumFunctionOnSet(f, A) \in Int
        /\ SumFunctionOnSet(f, A \union {x}) = SumFunctionOnSet(f, A) + f[x]
    BY <2>1, <2>3, SumInteger, SumAdd
  <2>5. /\ SumFunctionOnSet(g, A) \in Int
        /\ SumFunctionOnSet(g, A \union {x}) = SumFunctionOnSet(g, A) + g[x]
    BY <2>1, <2>3, SumInteger, SumAdd
  <2>6. PICK c, a, b : c = Cardinality(A) /\ a = SumFunctionOnSet(f, A) /\ b = SumFunctionOnSet(g, A)
    OBVIOUS
  <2>7. h * (c + 1) = h * c + h /\ h * c \in Int
    BY <2>2, <2>6
  <2>8. b - h * c <= a /\ a <= b + h * c
    BY <2>6
  <2>9. f[x] - h <= g[x] /\ g[x] <= f[x] + h /\ f[x] \in Int /\ g[x] \in Int
    OBVIOUS
  <2>10. (b + g[x]) - h * (c + 1) <= a + f[x] /\ a + f[x] <= (b + g[x]) + h * (c + 1)
    BY <2>4, <2>5, <2>6, <2>7, <2>8, <2>9
  <2>11. A \union {x} \in SUBSET S
    BY <2>1
  <2> QED
    BY <2>2, <2>4, <2>5, <2>6, <2>10, <2>11
<1> HIDE DEF P
<1>3. P = SUBSET S
  <2>1. P \in SUBSET SUBSET S
    BY DEF P
  <2> QED
    BY <1>1, <1>2, <2>1, SubsetInduction
<1>4. S \in P
  BY <1>3
<1> QED
  BY <1>4 DEF P

=============================================================================
