------------------------------- MODULE SumProofs -------------------------------
(***************************************************************************)
(* Sums over finite sets of any size.  The library's induction theorems     *)
(* take the formula as an operator; here a formula is the set of numbers,   *)
(* or of subsets, that satisfy it.                                          *)
(***************************************************************************)
EXTENDS Functions, FiniteSetTheorems, TLAPS

Sum(f, S) == SumFunctionOnSet(f, S)

LEMMA NumberInduction ==
    ASSUME NEW T \in SUBSET Nat, 0 \in T, \A n \in T : n + 1 \in T
    PROVE  T = Nat
<1> SUFFICES ASSUME T # Nat PROVE FALSE
  OBVIOUS
<1> DEFINE R == OpToRel(<, Nat)
<1> DEFINE U == Nat \ T
<1>1. U \subseteq Nat /\ U # {}
  OBVIOUS
<1>2. IsWellFoundedOn(R, Nat)
  BY NatLessThanWellFounded
<1>3. \A x, y \in Nat : <<y, x>> \in R <=> y < x
  BY DEF OpToRel
<1> HIDE DEF R
<1>4. PICK n \in U : \A m \in U : ~(<<m, n>> \in R)
  BY <1>1, <1>2, WFMin
<1>5. n \in Nat /\ n # 0 /\ n - 1 \in Nat /\ n - 1 < n
  OBVIOUS
<1>6. n - 1 \notin U
  BY <1>3, <1>4, <1>5
<1>7. (n - 1) + 1 \in T
  BY <1>5, <1>6
<1>8. QED
  BY <1>5, <1>7

\* What holds of the empty set, and goes on to hold when an element is added.
LEMMA SubsetInduction ==
    ASSUME NEW S, IsFiniteSet(S), NEW F, {} \in F,
           \A s \in SUBSET S : \A x \in S \ s : s \in F => s \cup {x} \in F
    PROVE  S \in F
<1> DEFINE T == {n \in Nat : \A s \in SUBSET S : IsFiniteSet(s) /\ Cardinality(s) = n => s \in F}
<1>1. 0 \in T
  BY FS_EmptySet
<1>2. ASSUME NEW n \in T PROVE n + 1 \in T
  <2>1. ASSUME NEW s \in SUBSET S, IsFiniteSet(s), Cardinality(s) = n + 1 PROVE s \in F
    <3>1. PICK x \in s : TRUE
      BY <2>1, FS_EmptySet
    <3>2. IsFiniteSet(s \ {x}) /\ Cardinality(s \ {x}) = n
      <4>1. IsFiniteSet(s \ {x}) /\ Cardinality(s \ {x}) = Cardinality(s) - 1 /\ n \in Nat
        BY <2>1, <3>1, FS_RemoveElement
      <4>2. QED
        BY <2>1, <4>1
    <3>3. s \ {x} \in F
      BY <3>2
    <3>4. (s \ {x}) \cup {x} = s
      OBVIOUS
    <3>5. QED
      BY <3>3, <3>4
  <2>2. QED
    BY <2>1
<1> HIDE DEF T
<1>3. T = Nat
  <2>1. T \subseteq Nat
    BY DEF T
  <2>2. QED
    BY <1>1, <1>2, <2>1, NumberInduction
<1>4. Cardinality(S) \in T
  BY <1>3, FS_CardinalityType
<1>5. QED
  BY <1>4 DEF T

-----------------------------------------------------------------------------
(* The recursion behind a sum *)

FirstOf(s) == CHOOSE x \in s : TRUE
Adds(f, g, s) == IF s = {} THEN 0 ELSE f[FirstOf(s)] + g[s \ {FirstOf(s)}]

\* g is the recursive function that adds up f over the subsets in B.
Adder(f, g, B) == g = [s \in B |-> Adds(f, g, s)]

LEMMA AdderExists ==
    ASSUME NEW f, NEW S, IsFiniteSet(S)
    PROVE  \E g : Adder(f, g, SUBSET S)
<1> DEFINE B(n) == {s \in SUBSET S : Cardinality(s) <= n}
<1> DEFINE T == {n \in Nat : \E g : Adder(f, g, B(n))}
<1>1. \A s \in SUBSET S : IsFiniteSet(s) /\ Cardinality(s) \in Nat
  BY FS_Subset, FS_CardinalityType
<1>2. 0 \in T
  <2>1. PICK g : g = [s \in B(0) |-> 0]
    OBVIOUS
  <2>2. ASSUME NEW s \in B(0) PROVE s = {}
    <3>1. Cardinality(s) = 0
      BY <1>1
    <3>2. QED
      BY <1>1, <3>1, FS_EmptySet
  <2>3. g = [s \in B(0) |-> Adds(f, g, s)]
    BY <2>1, <2>2 DEF Adds
  <2>4. QED
    BY <2>3 DEF Adder
<1>3. ASSUME NEW n \in T PROVE n + 1 \in T
  <2>1. PICK g : Adder(f, g, B(n))
    OBVIOUS
  <2>2. PICK h : h = [s \in B(n + 1) |-> Adds(f, g, s)]
    OBVIOUS
  <2>3. ASSUME NEW s \in B(n + 1), s # {} PROVE h[s \ {FirstOf(s)}] = g[s \ {FirstOf(s)}]
    <3> DEFINE t == s \ {FirstOf(s)}
    <3>1. FirstOf(s) \in s
      BY <2>3 DEF FirstOf
    <3>2. Cardinality(t) = Cardinality(s) - 1
      BY <1>1, <3>1, FS_RemoveElement
    <3>3. t \in B(n) /\ t \in B(n + 1)
      BY <1>1, <3>2
    <3>4. QED
      BY <2>1, <2>2, <3>3 DEF Adder
  <2>4. \A s \in B(n + 1) : Adds(f, h, s) = Adds(f, g, s)
    BY <2>3 DEF Adds
  <2>5. Adder(f, h, B(n + 1))
    BY <2>2, <2>4 DEF Adder
  <2>6. n + 1 \in Nat
    OBVIOUS
  <2>7. QED
    BY <2>5, <2>6
<1> HIDE DEF T
<1>4. T = Nat
  <2>1. T \subseteq Nat
    BY DEF T
  <2>2. QED
    BY <1>2, <1>3, <2>1, NumberInduction
<1>5. Cardinality(S) \in T
  BY <1>1, <1>4
<1>6. B(Cardinality(S)) = SUBSET S
  BY FS_Subset
<1> HIDE DEF B
<1>7. QED
  BY <1>5, <1>6 DEF T

\* Two of them agree wherever both are defined.
LEMMA AdderUnique ==
    ASSUME NEW f, NEW S, IsFiniteSet(S), NEW T \in SUBSET S, NEW g, NEW h,
           Adder(f, g, SUBSET S), Adder(f, h, SUBSET T)
    PROVE  g[T] = h[T]
<1> DEFINE P(n) == \A s \in SUBSET T : Cardinality(s) <= n => g[s] = h[s]
<1> DEFINE N == {n \in Nat : P(n)}
<1>1. \A s \in SUBSET T : IsFiniteSet(s) /\ Cardinality(s) \in Nat
  BY FS_Subset, FS_CardinalityType
<1>2. \A s \in SUBSET T : g[s] = Adds(f, g, s) /\ h[s] = Adds(f, h, s)
  BY DEF Adder
<1>3. 0 \in N
  <2>1. ASSUME NEW s \in SUBSET T, Cardinality(s) <= 0 PROVE g[s] = h[s]
    <3>1. Cardinality(s) = 0
      BY <1>1, <2>1
    <3>2. s = {}
      BY <1>1, <3>1, FS_EmptySet
    <3>3. QED
      BY <1>2, <3>2 DEF Adds
  <2>2. QED
    BY <2>1
<1>4. ASSUME NEW n \in N PROVE n + 1 \in N
  <2>1. ASSUME NEW s \in SUBSET T, Cardinality(s) <= n + 1, s # {} PROVE g[s] = h[s]
    <3> DEFINE t == s \ {FirstOf(s)}
    <3>1. FirstOf(s) \in s
      BY <2>1 DEF FirstOf
    <3>2. Cardinality(t) = Cardinality(s) - 1
      BY <1>1, <3>1, FS_RemoveElement
    <3>3. t \in SUBSET T /\ Cardinality(t) <= n
      BY <1>1, <2>1, <3>2
    <3>4. g[t] = h[t]
      BY <3>3
    <3>5. QED
      BY <1>2, <2>1, <3>4 DEF Adds
  <2>2. g[{}] = h[{}]
    BY <1>2 DEF Adds
  <2>3. P(n + 1) /\ n + 1 \in Nat
    <3>1. ASSUME NEW s \in SUBSET T, Cardinality(s) <= n + 1 PROVE g[s] = h[s]
      <4>1. CASE s = {}
        BY <2>2, <4>1
      <4>2. QED
        BY <2>1, <3>1, <4>1
    <3>2. QED
      BY <3>1
  <2> HIDE DEF P
  <2>4. QED
    BY <2>3
<1> HIDE DEF N
<1>5. N = Nat
  <2>1. N \subseteq Nat
    BY DEF N
  <2>2. QED
    BY <1>3, <1>4, <2>1, NumberInduction
<1>6. P(Cardinality(T))
  BY <1>1, <1>5 DEF N
<1>7. QED
  BY <1>1, <1>6

LEMMA SumDefined ==
    ASSUME NEW f, NEW S
    PROVE  Sum(f, S) = (CHOOSE g : Adder(f, g, SUBSET S))[S]
  BY DEF Sum, SumFunctionOnSet, FoldFunctionOnSet, MapThenFoldSet, Adder, Adds, FirstOf

LEMMA SumUnfolds ==
    ASSUME NEW f, NEW S, IsFiniteSet(S), S # {}
    PROVE  FirstOf(S) \in S /\ Sum(f, S) = f[FirstOf(S)] + Sum(f, S \ {FirstOf(S)})
<1> DEFINE T == S \ {FirstOf(S)}
<1> DEFINE g == CHOOSE x : Adder(f, x, SUBSET S)
<1> DEFINE h == CHOOSE x : Adder(f, x, SUBSET T)
<1>1. FirstOf(S) \in S
  BY DEF FirstOf
<1>2. IsFiniteSet(T) /\ T \in SUBSET S
  BY FS_Subset
<1>3. Adder(f, g, SUBSET S) /\ Adder(f, h, SUBSET T)
  BY <1>2, AdderExists
<1> HIDE DEF g, h, T
<1>4. g[T] = h[T]
  BY <1>2, <1>3, AdderUnique
<1>5. g[S] = f[FirstOf(S)] + g[T]
  <2>1. g[S] = Adds(f, g, S)
    BY <1>3 DEF Adder
  <2>2. QED
    BY <2>1 DEF Adds, T
<1>6. Sum(f, S) = g[S] /\ Sum(f, T) = h[T]
  BY SumDefined DEF g, h
<1>7. QED
  BY <1>1, <1>4, <1>5, <1>6 DEF T

LEMMA SumEmpty == \A f : Sum(f, {}) = 0
<1> TAKE f
<1>1. PICK g : Adder(f, g, SUBSET {}) /\ Sum(f, {}) = g[{}]
  BY SumDefined, AdderExists, FS_EmptySet
<1>2. QED
  BY <1>1 DEF Adder, Adds

-----------------------------------------------------------------------------
(* What a sum is, whatever the order of its elements *)

LEMMA SumInt ==
    ASSUME NEW f, NEW S, IsFiniteSet(S), \A x \in S : f[x] \in Int
    PROVE  Sum(f, S) \in Int
<1> DEFINE P(n) == \A s \in SUBSET S : Cardinality(s) = n => Sum(f, s) \in Int
<1> DEFINE N == {n \in Nat : P(n)}
<1>1. \A s \in SUBSET S : IsFiniteSet(s) /\ Cardinality(s) \in Nat
  BY FS_Subset, FS_CardinalityType
<1>2. 0 \in N
  <2>1. ASSUME NEW s \in SUBSET S, Cardinality(s) = 0 PROVE Sum(f, s) \in Int
    <3>1. s = {}
      BY <1>1, <2>1, FS_EmptySet
    <3>2. QED
      BY <3>1, SumEmpty
  <2>2. QED
    BY <2>1
<1>3. ASSUME NEW n \in N PROVE n + 1 \in N
  <2>1. ASSUME NEW s \in SUBSET S, Cardinality(s) = n + 1 PROVE Sum(f, s) \in Int
    <3>1. s # {} /\ n \in Nat
      BY <2>1, FS_EmptySet
    <3>2. FirstOf(s) \in s /\ Sum(f, s) = f[FirstOf(s)] + Sum(f, s \ {FirstOf(s)})
      BY <1>1, <3>1, SumUnfolds
    <3>3. Cardinality(s \ {FirstOf(s)}) = Cardinality(s) - 1
      BY <1>1, <3>2, FS_RemoveElement
    <3>4. Sum(f, s \ {FirstOf(s)}) \in Int
      BY <2>1, <3>1, <3>3
    <3>5. QED
      BY <3>2, <3>4
  <2>2. P(n + 1) /\ n + 1 \in Nat
    BY <2>1
  <2> HIDE DEF P
  <2>3. QED
    BY <2>2
<1> HIDE DEF N
<1>4. N = Nat
  <2>1. N \subseteq Nat
    BY DEF N
  <2>2. QED
    BY <1>2, <1>3, <2>1, NumberInduction
<1>5. P(Cardinality(S))
  BY <1>1, <1>4 DEF N
<1>6. QED
  BY <1>5

\* Any element may be taken out first.
LEMMA SumRemove ==
    ASSUME NEW f, NEW S, IsFiniteSet(S), \A x \in S : f[x] \in Int, NEW y \in S
    PROVE  Sum(f, S) = f[y] + Sum(f, S \ {y})
<1> DEFINE P(n) == \A s \in SUBSET S : \A z \in s :
                      Cardinality(s) = n => Sum(f, s) = f[z] + Sum(f, s \ {z})
<1> DEFINE N == {n \in Nat : P(n)}
<1>1. \A s \in SUBSET S : IsFiniteSet(s) /\ Cardinality(s) \in Nat /\ Sum(f, s) \in Int
  BY FS_Subset, FS_CardinalityType, SumInt
<1>2. 0 \in N
  <2>1. \A s \in SUBSET S : Cardinality(s) = 0 => s = {}
    BY <1>1, FS_EmptySet
  <2>2. QED
    BY <2>1
<1>3. ASSUME NEW n \in N PROVE n + 1 \in N
  <2>1. ASSUME NEW s \in SUBSET S, NEW z \in s, Cardinality(s) = n + 1
        PROVE  Sum(f, s) = f[z] + Sum(f, s \ {z})
    <3> DEFINE x == FirstOf(s)
    <3>1. x \in s /\ Sum(f, s) = f[x] + Sum(f, s \ {x})
      BY <1>1, SumUnfolds
    <3>2. n \in Nat /\ P(n)
      OBVIOUS
    <3>3. Cardinality(s \ {x}) = n /\ Cardinality(s \ {z}) = n
      <4>1. \A w \in s : Cardinality(s \ {w}) = Cardinality(s) - 1
        BY <1>1, FS_RemoveElement
      <4>2. QED
        BY <2>1, <3>1, <3>2, <4>1
    <3> HIDE DEF x
    <3>4. CASE x = z
      BY <3>1, <3>4
    <3>5. CASE x # z
      <4> DEFINE r == (s \ {x}) \ {z}
      <4>1. Sum(f, s \ {x}) = f[z] + Sum(f, r)
        BY <3>1, <3>2, <3>3, <3>5
      <4>2. r = (s \ {z}) \ {x}
        OBVIOUS
      <4>3. Sum(f, s \ {z}) = f[x] + Sum(f, r)
        BY <3>1, <3>2, <3>3, <3>5, <4>2
      <4>4. f[x] \in Int /\ f[z] \in Int /\ Sum(f, r) \in Int
        BY <1>1, <3>1
      <4> HIDE DEF r
      <4>5. QED
        BY <3>1, <4>1, <4>3, <4>4
    <3>6. QED
      BY <3>4, <3>5
  <2>2. P(n + 1) /\ n + 1 \in Nat
    BY <2>1
  <2> HIDE DEF P
  <2>3. QED
    BY <2>2
<1> HIDE DEF N
<1>4. N = Nat
  <2>1. N \subseteq Nat
    BY DEF N
  <2>2. QED
    BY <1>2, <1>3, <2>1, NumberInduction
<1>5. P(Cardinality(S))
  BY <1>1, <1>4 DEF N
<1>6. QED
  BY <1>5

LEMMA SumAdd ==
    ASSUME NEW f, NEW S, IsFiniteSet(S), NEW y, y \notin S, \A x \in S \cup {y} : f[x] \in Int
    PROVE  Sum(f, S \cup {y}) = f[y] + Sum(f, S)
<1>1. IsFiniteSet(S \cup {y}) /\ (S \cup {y}) \ {y} = S
  BY FS_AddElement
<1>2. QED
  BY <1>1, SumRemove

\* Functions that agree on a set have the same sum over it.
LEMMA SumSame ==
    ASSUME NEW f, NEW g, NEW S, IsFiniteSet(S), \A x \in S : f[x] \in Int /\ g[x] = f[x]
    PROVE  Sum(g, S) = Sum(f, S)
<1> DEFINE F == {s \in SUBSET S : Sum(g, s) = Sum(f, s)}
<1>1. {} \in F
  BY SumEmpty
<1>2. ASSUME NEW s \in SUBSET S, NEW x \in S \ s, s \in F PROVE s \cup {x} \in F
  <2>1. IsFiniteSet(s)
    BY FS_Subset
  <2>2. Sum(f, s \cup {x}) = f[x] + Sum(f, s) /\ Sum(g, s \cup {x}) = g[x] + Sum(g, s)
    BY <2>1, SumAdd
  <2>3. QED
    BY <1>2, <2>2
<1> HIDE DEF F
<1>3. S \in F
  BY <1>1, <1>2, SubsetInduction
<1>4. QED
  BY <1>3 DEF F

\* A value that changes changes the sum by the difference.
LEMMA SumChange ==
    ASSUME NEW f, NEW g, NEW S, IsFiniteSet(S), NEW y \in S, \A x \in S : f[x] \in Int,
           g[y] \in Int, \A x \in S \ {y} : g[x] = f[x]
    PROVE  Sum(g, S) = Sum(f, S) + (g[y] - f[y])
<1>1. IsFiniteSet(S \ {y})
  BY FS_Subset
<1>2. Sum(f, S) = f[y] + Sum(f, S \ {y}) /\ Sum(g, S) = g[y] + Sum(g, S \ {y})
  BY SumRemove
<1>3. Sum(g, S \ {y}) = Sum(f, S \ {y}) /\ Sum(f, S \ {y}) \in Int
  BY <1>1, SumSame, SumInt
<1>4. QED
  BY <1>2, <1>3

LEMMA SumPlus ==
    ASSUME NEW f, NEW g, NEW h, NEW S, IsFiniteSet(S),
           \A x \in S : f[x] \in Int /\ g[x] \in Int /\ h[x] = f[x] + g[x]
    PROVE  Sum(h, S) = Sum(f, S) + Sum(g, S)
<1> DEFINE F == {s \in SUBSET S : Sum(h, s) = Sum(f, s) + Sum(g, s)}
<1>1. {} \in F
  BY SumEmpty
<1>2. ASSUME NEW s \in SUBSET S, NEW x \in S \ s, s \in F PROVE s \cup {x} \in F
  <2>1. IsFiniteSet(s)
    BY FS_Subset
  <2>2. /\ Sum(f, s \cup {x}) = f[x] + Sum(f, s) /\ Sum(g, s \cup {x}) = g[x] + Sum(g, s)
        /\ Sum(h, s \cup {x}) = h[x] + Sum(h, s)
    BY <2>1, SumAdd
  <2>3. Sum(f, s) \in Int /\ Sum(g, s) \in Int /\ Sum(h, s) = Sum(f, s) + Sum(g, s)
    BY <1>2, <2>1, SumInt
  <2>4. f[x] \in Int /\ g[x] \in Int /\ h[x] = f[x] + g[x]
    OBVIOUS
  <2>5. Sum(h, s \cup {x}) = Sum(f, s \cup {x}) + Sum(g, s \cup {x})
    BY <2>2, <2>3, <2>4
  <2>6. QED
    BY <2>5
<1> HIDE DEF F
<1>3. S \in F
  BY <1>1, <1>2, SubsetInduction
<1>4. QED
  BY <1>3 DEF F

LEMMA SumMonotone ==
    ASSUME NEW f, NEW g, NEW S, IsFiniteSet(S),
           \A x \in S : f[x] \in Int /\ g[x] \in Int /\ f[x] <= g[x]
    PROVE  Sum(f, S) <= Sum(g, S)
<1> DEFINE F == {s \in SUBSET S : Sum(f, s) <= Sum(g, s)}
<1>1. {} \in F
  BY SumEmpty
<1>2. ASSUME NEW s \in SUBSET S, NEW x \in S \ s, s \in F PROVE s \cup {x} \in F
  <2>1. IsFiniteSet(s)
    BY FS_Subset
  <2>2. Sum(f, s \cup {x}) = f[x] + Sum(f, s) /\ Sum(g, s \cup {x}) = g[x] + Sum(g, s)
    BY <2>1, SumAdd
  <2>3. Sum(f, s) \in Int /\ Sum(g, s) \in Int /\ Sum(f, s) <= Sum(g, s)
    BY <1>2, <2>1, SumInt
  <2>4. f[x] \in Int /\ g[x] \in Int /\ f[x] <= g[x]
    OBVIOUS
  <2>5. Sum(f, s \cup {x}) <= Sum(g, s \cup {x})
    BY <2>2, <2>3, <2>4
  <2>6. QED
    BY <2>5
<1> HIDE DEF F
<1>3. S \in F
  BY <1>1, <1>2, SubsetInduction
<1>4. QED
  BY <1>3 DEF F

LEMMA SumOfConstant ==
    ASSUME NEW f, NEW c \in Int, NEW S, IsFiniteSet(S), \A x \in S : f[x] = c
    PROVE  Sum(f, S) = c * Cardinality(S)
<1> DEFINE F == {s \in SUBSET S : Sum(f, s) = c * Cardinality(s)}
<1>1. {} \in F
  BY SumEmpty, FS_EmptySet
<1>2. ASSUME NEW s \in SUBSET S, NEW x \in S \ s, s \in F PROVE s \cup {x} \in F
  <2>1. IsFiniteSet(s) /\ Cardinality(s) \in Nat
    BY FS_Subset, FS_CardinalityType
  <2>2. Sum(f, s \cup {x}) = f[x] + Sum(f, s) /\ Sum(f, s) = c * Cardinality(s)
    BY <1>2, <2>1, SumAdd
  <2>3. Cardinality(s \cup {x}) = Cardinality(s) + 1
    BY <2>1, FS_AddElement
  <2>4. \A n \in Nat : c * (n + 1) = c + c * n
    OBVIOUS
  <2>5. Sum(f, s \cup {x}) = c * Cardinality(s \cup {x})
    BY <2>1, <2>2, <2>3, <2>4
  <2>6. QED
    BY <2>5
<1> HIDE DEF F
<1>3. S \in F
  BY <1>1, <1>2, SubsetInduction
<1>4. QED
  BY <1>3 DEF F

LEMMA SumUnion ==
    ASSUME NEW f, NEW S, IsFiniteSet(S), NEW T, IsFiniteSet(T), S \cap T = {},
           \A x \in S \cup T : f[x] \in Int
    PROVE  Sum(f, S \cup T) = Sum(f, S) + Sum(f, T)
<1> DEFINE F == {t \in SUBSET T : Sum(f, S \cup t) = Sum(f, S) + Sum(f, t)}
<1>1. {} \in F
  <2>1. Sum(f, S) \in Int /\ S \cup {} = S
    BY SumInt
  <2>2. QED
    BY <2>1, SumEmpty
<1>2. ASSUME NEW t \in SUBSET T, NEW x \in T \ t, t \in F PROVE t \cup {x} \in F
  <2>1. IsFiniteSet(t) /\ IsFiniteSet(S \cup t) /\ x \notin S \cup t
        /\ (S \cup t) \cup {x} = S \cup (t \cup {x})
    BY FS_Subset, FS_Union
  <2>2. /\ Sum(f, (S \cup t) \cup {x}) = f[x] + Sum(f, S \cup t)
        /\ Sum(f, t \cup {x}) = f[x] + Sum(f, t)
    BY <2>1, SumAdd
  <2>3. Sum(f, S) \in Int /\ Sum(f, t) \in Int /\ f[x] \in Int
    BY <2>1, SumInt
  <2>4. Sum(f, S \cup t) = Sum(f, S) + Sum(f, t)
    BY <1>2
  <2>a. \A a, b, c \in Int : a + (b + c) = b + (a + c)
    OBVIOUS
  <2>b. Sum(f, S \cup (t \cup {x})) = f[x] + (Sum(f, S) + Sum(f, t))
    BY <2>1, <2>2, <2>4
  <2>5. Sum(f, S \cup (t \cup {x})) = Sum(f, S) + Sum(f, t \cup {x})
    BY <2>b, <2>2, <2>3, <2>a
  <2>6. QED
    BY <2>5
<1> HIDE DEF F
<1>3. T \in F
  BY <1>1, <1>2, SubsetInduction
<1>4. QED
  BY <1>3 DEF F

\* Fewer terms, none of them negative, add up to no more.
LEMMA SumLess ==
    ASSUME NEW f, NEW S, IsFiniteSet(S), NEW T \in SUBSET S, \A x \in S : f[x] \in Nat
    PROVE  Sum(f, T) <= Sum(f, S)
<1> DEFINE none == [x \in S |-> 0]
<1>1. IsFiniteSet(T) /\ IsFiniteSet(S \ T) /\ T \cap (S \ T) = {} /\ T \cup (S \ T) = S
  BY FS_Subset
<1>2. Sum(f, S) = Sum(f, T) + Sum(f, S \ T)
  BY <1>1, SumUnion
<1>3. Sum(none, S \ T) = 0 * Cardinality(S \ T) /\ Sum(none, S \ T) <= Sum(f, S \ T)
  BY <1>1, SumOfConstant, SumMonotone
<1>4. Cardinality(S \ T) \in Nat
  BY <1>1, FS_CardinalityType
<1>5. Sum(f, T) \in Int /\ Sum(f, S \ T) \in Int /\ 0 <= Sum(f, S \ T)
  BY <1>1, <1>3, <1>4, SumInt
<1>6. QED
  BY <1>2, <1>5
=============================================================================
