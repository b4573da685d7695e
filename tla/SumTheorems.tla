----------------------------- MODULE SumTheorems -----------------------------
(***************************************************************************)
(* Sums over finite sets, for the proofs about digest coordinates, chain   *)
(* steps and rows.  The models add up with MapThenSumSet of the community  *)
(* modules; what its recursive function computes is shown here by          *)
(* induction over sets: a set of numbers (or a family of subsets) that is  *)
(* closed under one step more, and has the first element, has them all.    *)
(* So are the functions on the naturals that are defined step by step, of  *)
(* which the powers of two are the ones that the models share.             *)
(***************************************************************************)
EXTENDS Integers, FiniteSetsExt, FiniteSetTheorems, WellFoundedInduction, TLAPS

\* The sum of f over S, as the models write it.
Total(f, S) == MapThenSumSet(LAMBDA x : f[x], S)

\* A set that is not empty has an element.
LEMMA NonEmpty ==
  ASSUME NEW s, s # {}
  PROVE  \E x : x \in s
OBVIOUS

\* Induction over the naturals as a statement about sets: the least number
\* that is missing would have a predecessor that is not.
LEMMA NatSetInduction ==
  ASSUME NEW T \in SUBSET Nat, 0 \in T, \A n \in T : n + 1 \in T
  PROVE  T = Nat
<1> SUFFICES ASSUME Nat \ T # {} PROVE FALSE
  OBVIOUS
<1>1. PICK x \in Nat \ T : \A y \in Nat \ T : ~(<<y, x>> \in OpToRel(<, Nat))
  <2>1. IsWellFoundedOn(OpToRel(<, Nat), Nat)
    BY NatLessThanWellFounded
  <2>2. (Nat \ T) \subseteq Nat
    OBVIOUS
  <2> QED
    BY <2>1, <2>2, WFMin
<1>2. \A y \in Nat \ T : ~ (y < x)
  BY <1>1 DEF OpToRel
<1>3. x # 0 /\ x - 1 \in Nat /\ x - 1 < x
  OBVIOUS
<1>4. x - 1 \in T
  BY <1>2, <1>3
<1>5. (x - 1) + 1 \in T
  BY <1>4
<1> QED
  BY <1>5

\* A family of subsets of a finite set that holds the empty set, and with a
\* set each larger one by one element, holds them all.
LEMMA SubsetInduction ==
  ASSUME NEW S, IsFiniteSet(S), NEW F, {} \in F,
         \A s \in SUBSET S : \A x \in S \ s : s \in F => s \cup {x} \in F
  PROVE  \A s \in SUBSET S : s \in F
<1> DEFINE T == {n \in Nat : \A s \in SUBSET S : Cardinality(s) = n => s \in F}
<1>1. 0 \in T
  BY FS_Subset, FS_EmptySet
<1>2. ASSUME NEW n \in T PROVE n + 1 \in T
  <2> SUFFICES ASSUME NEW s \in SUBSET S, Cardinality(s) = n + 1 PROVE s \in F
    BY DEF T
  <2>1. IsFiniteSet(s) /\ n \in Nat
    BY FS_Subset
  <2>2. s # {}
    BY <2>1, FS_EmptySet
  <2>3. PICK x : x \in s
    BY <2>2, NonEmpty
  <2>4. Cardinality(s \ {x}) = n
    <3>1. Cardinality(s \ {x}) = Cardinality(s) - 1
      BY <2>1, <2>3, FS_RemoveElement
    <3>2. QED
      BY <2>1, <3>1
  <2>5. s \ {x} \in SUBSET S /\ x \in S \ (s \ {x})
    BY <2>3
  <2>6. s \ {x} \in F
    BY <2>4, <2>5
  <2>7. s = (s \ {x}) \cup {x}
    BY <2>3
  <2>8. QED
    BY <2>5, <2>6, <2>7
<1> HIDE DEF T
<1>3. T = Nat
  <2>1. T \in SUBSET Nat
    BY DEF T
  <2>2. QED
    BY <1>1, <1>2, <2>1, NatSetInduction
<1>4. \A s \in SUBSET S : Cardinality(s) \in Nat
  BY FS_Subset, FS_CardinalityType
<1>5. QED
  BY <1>3, <1>4 DEF T

\* The element that the recursion of MapThenFoldSet takes first.
First(s) == CHOOSE x \in s : TRUE

\* What the recursive function of MapThenFoldSet satisfies.
Sums(f, S, g) ==
    g = [s \in SUBSET S |-> IF s = {} THEN 0 ELSE f[First(s)] + g[s \ {First(s)}]]

\* A sum is a value of such a function.
LEMMA TotalForm == \A f, S : Total(f, S) = (CHOOSE g : Sums(f, S, g))[S]
BY DEF Total, MapThenSumSet, MapThenFoldSet, Sums, First

\* First chooses an element.
LEMMA FirstIn ==
  ASSUME NEW s, s # {}
  PROVE  First(s) \in s
<1>1. \E x \in s : TRUE
  <2>1. PICK x : x \in s
    OBVIOUS
  <2>2. QED
    BY <2>1
<1>2. QED
  BY <1>1 DEF First

\* One step of the recursion.
LEMMA SumsStep ==
  ASSUME NEW S, NEW f, NEW g, Sums(f, S, g), NEW s \in SUBSET S
  PROVE  g[s] = IF s = {} THEN 0 ELSE f[First(s)] + g[s \ {First(s)}]
BY DEF Sums

\* There is only one such function.
LEMMA SumsUnique ==
  ASSUME NEW S, IsFiniteSet(S), NEW f, NEW g, NEW h, Sums(f, S, g), Sums(f, S, h)
  PROVE  g = h
<1> DEFINE T == {n \in Nat : \A s \in SUBSET S : Cardinality(s) = n => g[s] = h[s]}
<1>1. 0 \in T
  <2>1. \A s \in SUBSET S : Cardinality(s) = 0 => s = {}
    BY FS_Subset, FS_EmptySet
  <2>2. g[{}] = 0 /\ h[{}] = 0
    BY SumsStep
  <2>3. QED
    BY <2>1, <2>2
<1>2. ASSUME NEW n \in T PROVE n + 1 \in T
  <2> SUFFICES ASSUME NEW s \in SUBSET S, Cardinality(s) = n + 1 PROVE g[s] = h[s]
    BY DEF T
  <2>1. IsFiniteSet(s) /\ n \in Nat
    BY FS_Subset
  <2>2. s # {}
    BY <2>1, FS_EmptySet
  <2>3. First(s) \in s
    BY <2>2, FirstIn
  <2>4. Cardinality(s \ {First(s)}) = n
    <3>1. Cardinality(s \ {First(s)}) = Cardinality(s) - 1
      BY <2>1, <2>3, FS_RemoveElement
    <3>2. QED
      BY <2>1, <3>1
  <2>5. g[s \ {First(s)}] = h[s \ {First(s)}]
    BY <2>4
  <2>6. QED
    BY <2>2, <2>5, SumsStep
<1> HIDE DEF T
<1>3. T = Nat
  <2>1. T \in SUBSET Nat
    BY DEF T
  <2>2. QED
    BY <1>1, <1>2, <2>1, NatSetInduction
<1>4. \A s \in SUBSET S : Cardinality(s) \in Nat
  BY FS_Subset, FS_CardinalityType
<1>5. \A s \in SUBSET S : g[s] = h[s]
  BY <1>3, <1>4 DEF T
<1>6. g = [s \in SUBSET S |-> g[s]] /\ h = [s \in SUBSET S |-> h[s]]
  BY DEF Sums
<1>7. QED
  BY <1>5, <1>6

\* There is one: it is defined for larger and larger sets.
LEMMA SumsExist ==
  ASSUME NEW S, IsFiniteSet(S), NEW f, \A x \in S : f[x] \in Int
  PROVE  \E g \in [SUBSET S -> Int] : Sums(f, S, g)
<1> DEFINE Level(n) == {s \in SUBSET S : Cardinality(s) <= n}
           Value(g, s) == IF s = {} THEN 0 ELSE f[First(s)] + g[s \ {First(s)}]
           Good(n, g) == g \in [Level(n) -> Int] /\ \A s \in Level(n) : g[s] = Value(g, s)
           T == {n \in Nat : \E g : Good(n, g)}
<1>0. \A s \in SUBSET S : IsFiniteSet(s) /\ Cardinality(s) \in Nat
  BY FS_Subset, FS_CardinalityType
<1>1. 0 \in T
  <2>1. \A s \in Level(0) : s = {}
    BY <1>0, FS_EmptySet
  <2>2. Good(0, [s \in Level(0) |-> 0])
    BY <2>1
  <2>3. QED
    BY <2>2
<1>2. ASSUME NEW n \in T PROVE n + 1 \in T
  <2>1. PICK g : Good(n, g)
    OBVIOUS
  <2>2. n \in Nat
    OBVIOUS
  <2> DEFINE h == [s \in Level(n + 1) |-> Value(g, s)]
  <2>3. ASSUME NEW s \in Level(n + 1), s # {}
        PROVE  First(s) \in s /\ s \ {First(s)} \in Level(n)
    <3>1. First(s) \in s /\ s \in SUBSET S /\ Cardinality(s) <= n + 1
      BY <2>3, FirstIn
    <3>2. Cardinality(s \ {First(s)}) = Cardinality(s) - 1
      BY <1>0, <3>1, FS_RemoveElement
    <3>3. Cardinality(s) \in Nat
      BY <1>0, <3>1
    <3>4. QED
      BY <2>2, <3>1, <3>2, <3>3
  <2>4. \A s \in Level(n + 1) : Value(g, s) \in Int
    BY <2>1, <2>3
  <2>5. \A s \in Level(n) : s \in Level(n + 1) /\ h[s] = g[s]
    <3>1. \A s \in Level(n) : s \in Level(n + 1)
      BY <1>0, <2>2
    <3>2. QED
      BY <2>1, <3>1
  <2>6. \A s \in Level(n + 1) : h[s] = Value(h, s)
    BY <2>3, <2>5
  <2>7. Good(n + 1, h)
    BY <2>4, <2>6
  <2>8. n + 1 \in Nat /\ \E i : Good(n + 1, i)
    <3> HIDE DEF h, Good
    <3>1. QED
      BY <2>2, <2>7
  <2>9. QED
    BY <2>8
<1>3. T = Nat
  <2> HIDE DEF T
  <2>1. T \in SUBSET Nat
    BY DEF T
  <2>2. QED
    BY <1>1, <1>2, <2>1, NatSetInduction
<1>4. Cardinality(S) \in T
  BY <1>0, <1>3
<1>5. PICK g : Good(Cardinality(S), g)
  BY <1>4
<1>6. Level(Cardinality(S)) = SUBSET S
  BY <1>0, FS_Subset
<1>7. g \in [SUBSET S -> Int] /\ \A s \in SUBSET S : g[s] = Value(g, s)
  BY <1>5, <1>6
<1>8. QED
  BY <1>7 DEF Sums

-----------------------------------------------------------------------------
(* Sums                                                                    *)

\* The sum over a set is that of all but one element, and that element.
LEMMA TotalStep ==
  ASSUME NEW S, IsFiniteSet(S), NEW f, \A x \in S : f[x] \in Int
  PROVE  /\ Total(f, S) \in Int
         /\ S = {} => Total(f, S) = 0
         /\ S # {} => Total(f, S) = f[First(S)] + Total(f, S \ {First(S)})
<1>1. PICK g \in [SUBSET S -> Int] : Sums(f, S, g)
  BY SumsExist
<1>2. \A h : Sums(f, S, h) => h = g
  BY <1>1, SumsUnique
<1>3. (CHOOSE h : Sums(f, S, h)) = g
  BY <1>1, <1>2
<1>4. Total(f, S) = g[S]
  BY <1>3, TotalForm
<1>5. ASSUME S # {} PROVE Total(f, S \ {First(S)}) = g[S \ {First(S)}]
  <2>1. PICK r : r = S \ {First(S)}
    OBVIOUS
  <2>2. r \in SUBSET S /\ IsFiniteSet(r)
    BY <2>1, FS_Subset
  <2> DEFINE h == [s \in SUBSET r |-> g[s]]
  <2>3. Sums(f, r, h)
    <3>1. ASSUME NEW s \in SUBSET r
          PROVE  h[s] = IF s = {} THEN 0 ELSE f[First(s)] + h[s \ {First(s)}]
      <4>1. s \in SUBSET S /\ s \ {First(s)} \in SUBSET r
        BY <2>2
      <4>2. QED
        BY <1>1, <4>1, SumsStep
    <3>2. QED
      BY <3>1 DEF Sums
  <2>4. h[r] = g[r]
    OBVIOUS
  <2> HIDE DEF h
  <2>5. \A i : Sums(f, r, i) => i = h
    BY <2>2, <2>3, SumsUnique
  <2>6. (CHOOSE i : Sums(f, r, i)) = h
    BY <2>3, <2>5
  <2>7. QED
    BY <2>1, <2>4, <2>6, TotalForm
<1>6. g[S] \in Int /\ g[S] = IF S = {} THEN 0 ELSE f[First(S)] + g[S \ {First(S)}]
  BY <1>1, SumsStep
<1>7. QED
  BY <1>4, <1>5, <1>6

\* The empty sum.
LEMMA TotalEmpty == \A f : Total(f, {}) = 0
BY TotalStep, FS_EmptySet

\* Any element will do.
LEMMA TotalRemove ==
  ASSUME NEW S, IsFiniteSet(S), NEW f, \A x \in S : f[x] \in Int, NEW y \in S
  PROVE  Total(f, S) = f[y] + Total(f, S \ {y})
<1> DEFINE F == {s \in SUBSET S : \A x \in s : Total(f, s) = f[x] + Total(f, s \ {x})}
           T == {n \in Nat : \A s \in SUBSET S : Cardinality(s) = n => s \in F}
<1>0. \A s \in SUBSET S : IsFiniteSet(s) /\ Cardinality(s) \in Nat /\ \A x \in s : f[x] \in Int
  BY FS_Subset, FS_CardinalityType
<1>1. 0 \in T
  <2>1. \A s \in SUBSET S : Cardinality(s) = 0 => s = {}
    BY <1>0, FS_EmptySet
  <2>2. QED
    BY <2>1
<1>2. ASSUME NEW n \in T PROVE n + 1 \in T
  <2> SUFFICES ASSUME NEW s \in SUBSET S, Cardinality(s) = n + 1, NEW x \in s
               PROVE  Total(f, s) = f[x] + Total(f, s \ {x})
    BY DEF T
  <2>1. n \in Nat /\ s # {}
    OBVIOUS
  <2>2. PICK z : z = First(s)
    OBVIOUS
  <2>3. z \in s
    BY <2>1, <2>2, FirstIn
  <2>4. Total(f, s) = f[z] + Total(f, s \ {z})
    BY <1>0, <2>1, <2>2, TotalStep
  <2>5. CASE z = x
    BY <2>4, <2>5
  <2>6. CASE z # x
    <3> DEFINE u == s \ {z}
               v == s \ {x}
    <3>1. /\ u \in SUBSET S /\ v \in SUBSET S /\ x \in u /\ z \in v
          /\ u \ {x} = v \ {z} /\ u \ {x} \in SUBSET S
      BY <2>3, <2>6
    <3>2. Cardinality(u) = n /\ Cardinality(v) = n
      <4>1. Cardinality(u) = Cardinality(s) - 1 /\ Cardinality(v) = Cardinality(s) - 1
        BY <1>0, <2>3, FS_RemoveElement
      <4>2. QED
        BY <2>1, <4>1
    <3>3. u \in F /\ v \in F
      BY <3>1, <3>2
    <3> HIDE DEF u, v
    <3>4. Total(f, u) = f[x] + Total(f, u \ {x}) /\ Total(f, v) = f[z] + Total(f, v \ {z})
      BY <3>1, <3>3
    <3>5. f[x] \in Int /\ f[z] \in Int /\ Total(f, u \ {x}) \in Int
      BY <1>0, <2>3, <3>1, TotalStep
    <3>6. Total(f, s) = f[z] + Total(f, u)
      BY <2>4 DEF u
    <3>7. Total(f, s) = f[x] + Total(f, v)
      <4>1. PICK a \in Int, b \in Int, c \in Int : a = f[x] /\ b = f[z] /\ c = Total(f, u \ {x})
        BY <3>5
      <4>2. Total(f, u) = a + c /\ Total(f, v) = b + c
        BY <3>1, <3>4, <4>1
      <4>3. b + (a + c) = a + (b + c)
        OBVIOUS
      <4>4. QED
        BY <3>6, <4>1, <4>2, <4>3
    <3>8. QED
      BY <3>7 DEF v
  <2>7. QED
    BY <2>5, <2>6
<1>3. T = Nat
  <2> HIDE DEF T
  <2>1. T \in SUBSET Nat
    BY DEF T
  <2>2. QED
    BY <1>1, <1>2, <2>1, NatSetInduction
<1>4. S \in F
  BY <1>0, <1>3
<1>5. QED
  BY <1>4

\* The sum over a set and one element more.
LEMMA TotalAdd ==
  ASSUME NEW S, IsFiniteSet(S), NEW y, y \notin S, NEW f, \A x \in S \cup {y} : f[x] \in Int
  PROVE  Total(f, S \cup {y}) = f[y] + Total(f, S)
<1>1. PICK R : R = S \cup {y}
  OBVIOUS
<1>2. IsFiniteSet(R) /\ y \in R /\ R \ {y} = S
  BY <1>1, FS_AddElement
<1>3. QED
  BY <1>1, <1>2, TotalRemove

\* Functions that agree have the same sum.
LEMMA TotalEqual ==
  ASSUME NEW S, IsFiniteSet(S), NEW f, NEW g, \A x \in S : f[x] \in Int /\ g[x] = f[x]
  PROVE  Total(f, S) = Total(g, S)
<1> DEFINE F == {s \in SUBSET S : Total(f, s) = Total(g, s)}
<1>1. {} \in F
  BY TotalStep, FS_EmptySet
<1>2. ASSUME NEW s \in SUBSET S, NEW x \in S \ s, s \in F PROVE s \cup {x} \in F
  <2>1. IsFiniteSet(s) /\ \A y \in s \cup {x} : f[y] \in Int /\ g[y] \in Int
    BY FS_Subset
  <2>2. Total(f, s \cup {x}) = f[x] + Total(f, s) /\ Total(g, s \cup {x}) = g[x] + Total(g, s)
    BY <2>1, TotalAdd
  <2>3. Total(f, s) = Total(g, s) /\ g[x] = f[x]
    BY <1>2
  <2>4. QED
    BY <2>2, <2>3
<1> HIDE DEF F
<1>3. S \in F
  BY <1>1, <1>2, SubsetInduction
<1>4. QED
  BY <1>3 DEF F

\* The sum of two functions.
LEMMA TotalSum ==
  ASSUME NEW S, IsFiniteSet(S), NEW f, NEW g, NEW h,
         \A x \in S : f[x] \in Int /\ g[x] \in Int /\ h[x] = f[x] + g[x]
  PROVE  Total(h, S) = Total(f, S) + Total(g, S)
<1> DEFINE F == {s \in SUBSET S : Total(h, s) = Total(f, s) + Total(g, s)}
<1>1. {} \in F
  <2>1. Total(f, {}) = 0 /\ Total(g, {}) = 0 /\ Total(h, {}) = 0
    BY TotalEmpty
  <2>2. QED
    BY <2>1
<1>2. ASSUME NEW s \in SUBSET S, NEW x \in S \ s, s \in F PROVE s \cup {x} \in F
  <2>1. IsFiniteSet(s) /\ \A y \in s \cup {x} : f[y] \in Int /\ g[y] \in Int /\ h[y] \in Int
    BY FS_Subset
  <2>2. /\ Total(f, s \cup {x}) = f[x] + Total(f, s) /\ Total(g, s \cup {x}) = g[x] + Total(g, s)
        /\ Total(h, s \cup {x}) = h[x] + Total(h, s)
    BY <2>1, TotalAdd
  <2>3. /\ Total(f, s) \in Int /\ Total(g, s) \in Int /\ f[x] \in Int /\ g[x] \in Int
        /\ Total(h, s) = Total(f, s) + Total(g, s) /\ h[x] = f[x] + g[x]
    BY <1>2, <2>1, TotalStep
  <2>4. QED
    BY <2>2, <2>3
<1> HIDE DEF F
<1>3. S \in F
  BY <1>1, <1>2, SubsetInduction
<1>4. QED
  BY <1>3 DEF F

\* The sum of a constant function.
LEMMA TotalConstant ==
  ASSUME NEW S, IsFiniteSet(S), NEW f, NEW k \in Int, \A x \in S : f[x] = k
  PROVE  Total(f, S) = Cardinality(S) * k
<1> DEFINE F == {s \in SUBSET S : Total(f, s) = Cardinality(s) * k}
<1>1. {} \in F
  BY TotalStep, FS_EmptySet
<1>2. ASSUME NEW s \in SUBSET S, NEW x \in S \ s, s \in F PROVE s \cup {x} \in F
  <2>1. IsFiniteSet(s) /\ Cardinality(s) \in Nat /\ \A y \in s \cup {x} : f[y] \in Int
    BY FS_Subset, FS_CardinalityType
  <2>2. Total(f, s \cup {x}) = f[x] + Total(f, s)
    BY <2>1, TotalAdd
  <2>3. Cardinality(s \cup {x}) = Cardinality(s) + 1
    BY <2>1, FS_AddElement
  <2>4. Total(f, s) = Cardinality(s) * k /\ f[x] = k
    BY <1>2
  <2>5. k + Cardinality(s) * k = (Cardinality(s) + 1) * k
    BY <2>1
  <2>6. QED
    BY <2>2, <2>3, <2>4, <2>5
<1> HIDE DEF F
<1>3. S \in F
  BY <1>1, <1>2, SubsetInduction
<1>4. QED
  BY <1>3 DEF F

\* One term grows by one.
LEMMA TotalIncrement ==
  ASSUME NEW S, IsFiniteSet(S), NEW f, NEW g, NEW y \in S, \A x \in S : f[x] \in Int,
         g[y] = f[y] + 1, \A x \in S \ {y} : g[x] = f[x]
  PROVE  Total(g, S) = Total(f, S) + 1
<1>1. PICK R : R = S \ {y}
  OBVIOUS
<1>2. IsFiniteSet(R) /\ \A x \in R : f[x] \in Int /\ g[x] = f[x]
  BY <1>1, FS_Subset
<1>3. Total(f, R) = Total(g, R) /\ Total(f, R) \in Int
  BY <1>2, TotalEqual, TotalStep
<1>4. \A x \in S : g[x] \in Int
  OBVIOUS
<1>5. Total(f, S) = f[y] + Total(f, R) /\ Total(g, S) = g[y] + Total(g, R)
  BY <1>1, <1>4, TotalRemove
<1>6. QED
  BY <1>3, <1>5

\* A function below another one has the smaller sum, and the same sum only if
\* it is the same everywhere.
LEMMA TotalBelow ==
  ASSUME NEW S, IsFiniteSet(S), NEW f, NEW g,
         \A x \in S : f[x] \in Int /\ g[x] \in Int /\ f[x] <= g[x]
  PROVE  /\ Total(f, S) <= Total(g, S)
         /\ Total(f, S) = Total(g, S) => \A x \in S : f[x] = g[x]
<1> DEFINE F == {s \in SUBSET S : /\ Total(f, s) <= Total(g, s)
                                  /\ Total(f, s) = Total(g, s) => \A x \in s : f[x] = g[x]}
<1>1. {} \in F
  <2>1. Total(f, {}) = 0 /\ Total(g, {}) = 0
    BY TotalEmpty
  <2>2. QED
    BY <2>1
<1>2. ASSUME NEW s \in SUBSET S, NEW x \in S \ s, s \in F PROVE s \cup {x} \in F
  <2>1. IsFiniteSet(s) /\ \A y \in s \cup {x} : f[y] \in Int /\ g[y] \in Int
    BY FS_Subset
  <2>2. /\ Total(f, s \cup {x}) = f[x] + Total(f, s) /\ Total(g, s \cup {x}) = g[x] + Total(g, s)
    BY <2>1, TotalAdd
  <2>3. /\ Total(f, s) \in Int /\ Total(g, s) \in Int /\ f[x] \in Int /\ g[x] \in Int
        /\ f[x] <= g[x] /\ Total(f, s) <= Total(g, s)
        /\ Total(f, s) = Total(g, s) => \A y \in s : f[y] = g[y]
    BY <1>2, <2>1, TotalStep
  <2>4. Total(f, s \cup {x}) <= Total(g, s \cup {x})
    BY <2>2, <2>3
  <2>5. Total(f, s \cup {x}) = Total(g, s \cup {x}) => f[x] = g[x] /\ Total(f, s) = Total(g, s)
    BY <2>2, <2>3
  <2>6. QED
    BY <2>3, <2>4, <2>5
<1> HIDE DEF F
<1>3. S \in F
  BY <1>1, <1>2, SubsetInduction
<1>4. QED
  BY <1>3 DEF F

-----------------------------------------------------------------------------
(* Recursive functions on the naturals, powers of two, division             *)

\* g goes from base to its next value by step.
Recurs(g, base, step) == g[0] = base /\ \A n \in Nat : g[n + 1] = step[n][g[n]]

\* A function whose value at each number is given by the one before exists.
LEMMA RecursionExists ==
  ASSUME NEW V, NEW base \in V, NEW step \in [Nat -> [V -> V]]
  PROVE  \E g \in [Nat -> V] : Recurs(g, base, step)
<1> DEFINE Good(n, h) == /\ h \in [0..n -> V]
                         /\ h[0] = base
                         /\ \A k \in 0..(n - 1) : h[k + 1] = step[k][h[k]]
           A == {n \in Nat : \E h : Good(n, h)}
           g == [n \in Nat |-> (CHOOSE h : Good(n, h))[n]]
<1>1. 0 \in A
  <2>1. Good(0, [k \in 0..0 |-> base])
    OBVIOUS
  <2> QED BY <2>1
<1>2. ASSUME NEW n \in A PROVE n + 1 \in A
  <2>1. PICK h : Good(n, h)
    OBVIOUS
  <2> DEFINE f == [k \in 0..(n + 1) |-> IF k = n + 1 THEN step[n][h[n]] ELSE h[k]]
  <2>2. n \in Nat
    OBVIOUS
  <2>3. \A k \in 0..n : f[k] = h[k] /\ h[k] \in V
    BY <2>1, <2>2
  <2>4. f[n + 1] = step[n][h[n]] /\ step[n][h[n]] \in V
    <3>1. step[n] \in [V -> V] /\ n \in 0..n /\ n + 1 \in 0..(n + 1)
      BY <2>2
    <3>2. h[n] \in V
      BY <2>3, <3>1
    <3> QED BY <3>1, <3>2
  <2>5. f \in [0..(n + 1) -> V]
    <3>1. \A k \in 0..(n + 1) : k = n + 1 \/ k \in 0..n
      BY <2>2
    <3>2. \A k \in 0..(n + 1) : f[k] \in V
      <4> HIDE DEF f
      <4> QED BY <2>3, <2>4, <3>1
    <3>3. f = [k \in 0..(n + 1) |-> f[k]]
      OBVIOUS
    <3> HIDE DEF f
    <3> QED BY <3>2, <3>3
  <2> HIDE DEF f
  <2>6. \A k \in 0..((n + 1) - 1) : f[k + 1] = step[k][f[k]]
    <3>1. \A k \in 0..((n + 1) - 1) : k = n \/ (k \in 0..(n - 1) /\ k \in 0..n /\ k + 1 \in 0..n)
      BY <2>2
    <3> QED BY <2>1, <2>2, <2>3, <2>4, <3>1
  <2>7. Good(n + 1, f)
    BY <2>1, <2>2, <2>3, <2>5, <2>6
  <2> HIDE DEF Good
  <2> QED BY <2>2, <2>7
<1>3. A = Nat
  <2> HIDE DEF A
  <2>1. A \in SUBSET Nat
    BY DEF A
  <2> QED BY <1>1, <1>2, <2>1, NatSetInduction
<1>4. ASSUME NEW m \in Nat, NEW n \in Nat, m <= n, NEW f, NEW h, Good(m, f), Good(n, h)
      PROVE  f[m] = h[m]
  <2> DEFINE S == {k \in Nat : k <= m => f[k] = h[k]}
  <2>1. 0 \in S
    BY <1>4
  <2>2. ASSUME NEW k \in S PROVE k + 1 \in S
    <3>1. k + 1 <= m => k \in 0..(m - 1) /\ k \in 0..(n - 1) /\ k <= m
      BY <1>4
    <3> QED BY <1>4, <3>1
  <2>3. S = Nat
    <3> HIDE DEF S
    <3>1. S \in SUBSET Nat
      BY DEF S
    <3> QED BY <2>1, <2>2, <3>1, NatSetInduction
  <2> QED BY <2>3
<1>5. \A n \in Nat : Good(n, CHOOSE h : Good(n, h))
  <2> HIDE DEF Good
  <2> QED BY <1>3
<1>6. g \in [Nat -> V]
  <2>1. ASSUME NEW n \in Nat PROVE (CHOOSE h : Good(n, h))[n] \in V
    <3>1. Good(n, CHOOSE h : Good(n, h))
      BY <1>5
    <3> DEFINE f == CHOOSE h : Good(n, h)
    <3> HIDE DEF f
    <3>2. f \in [0..n -> V] /\ n \in 0..n
      BY <3>1 DEF f
    <3>3. f[n] \in V
      BY <3>2
    <3> QED BY <3>3 DEF f
  <2> HIDE DEF Good
  <2> QED BY <2>1
<1>7. g[0] = base
  <2>1. Good(0, CHOOSE h : Good(0, h))
    BY <1>5
  <2> QED BY <2>1
<1>8. ASSUME NEW n \in Nat PROVE g[n + 1] = step[n][g[n]]
  <2> DEFINE f == CHOOSE h : Good(n, h)
             e == CHOOSE h : Good(n + 1, h)
  <2>1. Good(n, f) /\ Good(n + 1, e)
    <3> HIDE DEF Good
    <3> QED BY <1>5
  <2>2. g[n] = f[n] /\ g[n + 1] = e[n + 1]
    <3> HIDE DEF Good
    <3> QED OBVIOUS
  <2> HIDE DEF f, e
  <2>3. f[n] = e[n]
    <3> HIDE DEF Good
    <3>1. n <= n + 1 /\ n + 1 \in Nat
      OBVIOUS
    <3> QED BY <1>4, <2>1, <3>1
  <2>4. n \in 0..((n + 1) - 1)
    OBVIOUS
  <2>5. e[n + 1] = step[n][e[n]]
    BY <2>1, <2>4
  <2> HIDE DEF g
  <2> QED BY <2>2, <2>3, <2>5
<1> HIDE DEF g
<1> QED BY <1>6, <1>7, <1>8 DEF Recurs

\* The powers of two.
LEMMA PowersExist ==
  \E g : g = [n \in Nat |-> IF n = 0 THEN 1 ELSE 2 * g[n - 1]]
<1> DEFINE step == [n \in Nat |-> [v \in Nat |-> 2 * v]]
<1>1. step \in [Nat -> [Nat -> Nat]] /\ 1 \in Nat
  OBVIOUS
<1>2. PICK g \in [Nat -> Nat] : Recurs(g, 1, step)
  <2> HIDE DEF step
  <2> QED BY <1>1, RecursionExists
<1>3. g[0] = 1 /\ \A n \in Nat : g[n + 1] = 2 * g[n]
  BY <1>2 DEF Recurs
<1>4. \A n \in Nat : g[n] = IF n = 0 THEN 1 ELSE 2 * g[n - 1]
  <2>1. \A n \in Nat : n # 0 => n - 1 \in Nat /\ (n - 1) + 1 = n
    OBVIOUS
  <2> QED BY <1>2, <1>3, <2>1
<1>5. g = [n \in Nat |-> g[n]]
  BY <1>2
<1>6. g = [n \in Nat |-> IF n = 0 THEN 1 ELSE 2 * g[n - 1]]
  BY <1>4, <1>5, Zenon
<1> QED BY <1>6

\* They start from 1, double and are positive.
LEMMA PowersOfTwo ==
  ASSUME NEW g, g = [n \in Nat |-> IF n = 0 THEN 1 ELSE 2 * g[n - 1]]
  PROVE  /\ g[0] = 1
         /\ \A n \in Nat : g[n + 1] = 2 * g[n]
         /\ \A n \in Nat : g[n] \in Nat \ {0}
<1>1. \A n \in Nat : g[n] = IF n = 0 THEN 1 ELSE 2 * g[n - 1]
  BY Zenon
<1>2. g[0] = 1
  BY <1>1
<1>3. \A n \in Nat : g[n + 1] = 2 * g[n]
  <2>1. \A n \in Nat : n + 1 \in Nat /\ n + 1 # 0 /\ (n + 1) - 1 = n
    OBVIOUS
  <2> QED BY <1>1, <2>1
<1> DEFINE T == {n \in Nat : g[n] \in Nat \ {0}}
<1>4. 0 \in T
  BY <1>2
<1>5. ASSUME NEW n \in T PROVE n + 1 \in T
  BY <1>3
<1>6. T = Nat
  <2> HIDE DEF T
  <2>1. T \in SUBSET Nat
    BY DEF T
  <2> QED BY <1>4, <1>5, <2>1, NatSetInduction
<1> QED BY <1>2, <1>3, <1>6

\* Quotient and remainder are what they are defined to be.
LEMMA DivUnique ==
  ASSUME NEW x \in Nat, NEW d \in Nat \ {0}, NEW q \in Nat, NEW r \in Nat,
         x = q * d + r, r < d
  PROVE  x \div d = q /\ x % d = r
<1>1. d * q <= x /\ x < d * q + d /\ d * q = q * d
  OBVIOUS
<1>2. x \div d = q
  BY <1>1
<1>3. x % d = x - d * (x \div d)
  OBVIOUS
<1> QED BY <1>1, <1>2, <1>3
=============================================================================
