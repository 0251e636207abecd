---------------------------- MODULE SumTheorems ----------------------------
(***************************************************************************)
(* Facts about finite sums and products, for the proofs of the modules     *)
(* whose properties add up bytes, weights and counts.                      *)
(*                                                                         *)
(* The library's induction theorems take the property to be proved as an   *)
(* operator. Here induction is the choice of a least counterexample: a     *)
(* nonempty set of numbers has a least element.                            *)
(***************************************************************************)
EXTENDS Integers, FiniteSetsExt, Functions, FiniteSetTheorems,
        WellFoundedInduction, TLAPS

LEMMA LeastNumber ==
  ASSUME NEW T \in SUBSET Nat, T # {}
  PROVE  \E n \in T : \A m \in T : ~(m < n)
<1>1. PICK n \in T : \A m \in T : ~(<<m, n>> \in OpToRel(<, Nat))
  BY NatLessThanWellFounded, WFMin
<1>2. ASSUME NEW m \in T PROVE ~(m < n)
  <2>1. <<m, n>> \in Nat \X Nat
    OBVIOUS
  <2>2. <<m, n>>[1] = m /\ <<m, n>>[2] = n
    OBVIOUS
  <2>3. m < n => <<m, n>> \in OpToRel(<, Nat)
    BY <2>1, <2>2, Zenon DEF OpToRel
  <2>4. QED
    BY <1>1, <2>3
<1>3. QED
  BY <1>2

\* Among sets of subsets of a finite set, one loses its property with any of
\* its elements.
LEMMA LeastSubset ==
  ASSUME NEW S, IsFiniteSet(S), NEW Bad \in SUBSET (SUBSET S), Bad # {}
  PROVE  \E T \in Bad : \A x \in T : T \ {x} \notin Bad
<1> DEFINE Sizes == {Cardinality(T) : T \in Bad}
<1>1. \A T \in Bad : IsFiniteSet(T) /\ Cardinality(T) \in Nat
  BY FS_Subset, FS_CardinalityType
<1>2. Sizes \in SUBSET Nat /\ Sizes # {}
  BY <1>1
<1>3. PICK n \in Sizes : \A m \in Sizes : ~(m < n)
  BY <1>2, LeastNumber
<1>4. PICK T \in Bad : Cardinality(T) = n
  BY <1>3
<1>5. ASSUME NEW x \in T, T \ {x} \in Bad PROVE FALSE
  <2>1. Cardinality(T \ {x}) = Cardinality(T) - 1
    BY <1>1, FS_RemoveElement
  <2>2. Cardinality(T \ {x}) \in Sizes
    BY <1>5
  <2>3. ~(Cardinality(T \ {x}) < n)
    BY <1>3, <2>2
  <2>4. n \in Nat
    BY <1>1, <1>4
  <2> HIDE DEF Sizes
  <2>5. QED
    BY <1>4, <2>1, <2>3, <2>4
<1>6. QED
  BY <1>5

\* Induction over the subsets of a finite set: what holds of a set whenever it
\* holds of the set without any one of its elements holds of them all.
LEMMA SubsetInduction ==
  ASSUME NEW S, IsFiniteSet(S), NEW Good,
         \A T \in SUBSET S : (\A x \in T : T \ {x} \in Good) => T \in Good
  PROVE  S \in Good
<1> DEFINE Bad == {T \in SUBSET S : T \notin Good}
<1>1. \A T \in Bad : \E x \in T : T \ {x} \in Bad
  OBVIOUS
<1>2. Bad \in SUBSET (SUBSET S)
  OBVIOUS
<1> HIDE DEF Bad
<1>3. Bad = {}
  BY <1>1, <1>2, LeastSubset
<1>4. QED
  BY <1>3 DEF Bad

----------------------------------------------------------------------------
(* The fold behind a sum                                                   *)

\* g adds up f over every subset of S, taking elements as CHOOSE does.
Adds(g, f, S) ==
  g = [T \in SUBSET S |->
         IF T = {} THEN 0
         ELSE f[CHOOSE x \in T : TRUE] + g[T \ {CHOOSE x \in T : TRUE}]]

\* The sum of f over T.
Sum(f, T) == MapThenSumSet(LAMBDA x : f[x], T)

LEMMA AdderExists ==
  ASSUME NEW S, IsFiniteSet(S), NEW f
  PROVE  \E g : Adds(g, f, S)
<1> DEFINE Small(n) == {T \in SUBSET S : Cardinality(T) <= n}
           first(T) == CHOOSE x \in T : TRUE
           Upto(g, n) ==
             g = [T \in Small(n) |->
                    IF T = {} THEN 0 ELSE f[first(T)] + g[T \ {first(T)}]]
           Bad == {n \in Nat : ~\E g : Upto(g, n)}
<1>1. \A T \in SUBSET S : IsFiniteSet(T) /\ Cardinality(T) \in Nat
  BY FS_Subset, FS_CardinalityType
<1>2. Small(0) = {{}}
  BY <1>1, FS_EmptySet
<1>3. Upto([T \in {{}} |-> 0], 0)
  BY <1>2
<1>4. ASSUME NEW n \in Nat, n # 0, NEW g, Upto(g, n - 1)
      PROVE  \E h : Upto(h, n)
  <2> DEFINE h == [T \in Small(n) |->
                     IF T = {} THEN 0 ELSE f[first(T)] + g[T \ {first(T)}]]
  <2>1. Small(n - 1) \subseteq Small(n)
    BY <1>1
  <2>2. DOMAIN g = Small(n - 1) /\ DOMAIN h = Small(n)
    BY <1>4
  <2>3. \A T \in Small(n - 1) : h[T] = g[T]
    BY <1>4, <2>1
  <2>4. ASSUME NEW T \in Small(n), T # {}
        PROVE  T \ {first(T)} \in Small(n - 1)
    <3>1. first(T) \in T
      BY <2>4
    <3> HIDE DEF first
    <3>2. Cardinality(T \ {first(T)}) = Cardinality(T) - 1
      BY <1>1, <3>1, FS_RemoveElement
    <3>3. QED
      BY <1>1, <3>2
  <2>5. h = [T \in Small(n) |->
               IF T = {} THEN 0 ELSE f[first(T)] + h[T \ {first(T)}]]
    <3> HIDE DEF first, Small
    <3>1. \A T \in Small(n) : T # {} => h[T \ {first(T)}] = g[T \ {first(T)}]
      BY <2>3, <2>4
    <3>2. QED
      BY <3>1
  <2>6. QED
    BY <2>5
<1>5. Bad = {}
  <2>1. SUFFICES ASSUME Bad # {} PROVE FALSE
    OBVIOUS
  <2>2. PICK n \in Bad : \A m \in Bad : ~(m < n)
    BY <2>1, LeastNumber
  <2>3. n # 0
    BY <1>3, <2>2, ZenonT(30)
  <2>4. n - 1 \in Nat /\ n - 1 < n
    BY <2>3
  <2>5. n - 1 \notin Bad
    BY <2>2, <2>4
  <2>6. PICK g : Upto(g, n - 1)
    BY <2>4, <2>5
  <2>7. QED
    BY <1>4, <2>2, <2>3, <2>6
<1>6. Cardinality(S) \in Nat /\ Small(Cardinality(S)) = SUBSET S
  BY <1>1, FS_Subset
<1>7. PICK g : Upto(g, Cardinality(S))
  BY <1>5, <1>6
<1>8. Adds(g, f, S)
  BY <1>6, <1>7 DEF Adds
<1>9. QED
  BY <1>8

LEMMA SumUnfolds ==
  ASSUME NEW S, IsFiniteSet(S), NEW f
  PROVE  \E g : Adds(g, f, S) /\ Sum(f, S) = g[S]
<1>1. Sum(f, S) = (CHOOSE g : Adds(g, f, S))[S]
  BY DEF Sum, MapThenSumSet, MapThenFoldSet, Adds
<1>2. Adds(CHOOSE g : Adds(g, f, S), f, S)
  BY AdderExists
<1>3. QED
  BY <1>1, <1>2

LEMMA AdderIsSum ==
  ASSUME NEW S, IsFiniteSet(S), NEW f, NEW g, Adds(g, f, S), NEW T \in SUBSET S
  PROVE  g[T] = Sum(f, T)
<1>1. IsFiniteSet(T)
  BY FS_Subset
<1>2. PICK h : Adds(h, f, T) /\ Sum(f, T) = h[T]
  BY <1>1, SumUnfolds
<1> DEFINE Good == {U \in SUBSET T : g[U] = h[U]}
<1>3. ASSUME NEW U \in SUBSET T, \A x \in U : U \ {x} \in Good
      PROVE  g[U] = h[U]
  <2> DEFINE first == CHOOSE x \in U : TRUE
  <2>1. /\ g[U] = IF U = {} THEN 0 ELSE f[first] + g[U \ {first}]
        /\ h[U] = IF U = {} THEN 0 ELSE f[first] + h[U \ {first}]
    BY <1>2 DEF Adds
  <2>2. U # {} => first \in U
    OBVIOUS
  <2> HIDE DEF first
  <2>3. U # {} => g[U \ {first}] = h[U \ {first}]
    BY <1>3, <2>2
  <2>4. QED
    BY <2>1, <2>3
<1>4. \A U \in SUBSET T : (\A x \in U : U \ {x} \in Good) => U \in Good
  BY <1>3
<1> HIDE DEF Good
<1>5. T \in Good
  BY <1>1, <1>4, SubsetInduction
<1>6. QED
  BY <1>2, <1>5 DEF Good

----------------------------------------------------------------------------
(* Sums                                                                    *)

\* As a fold computes it: some element, and the rest.
LEMMA SumStep ==
  ASSUME NEW T, IsFiniteSet(T), NEW f
  PROVE  Sum(f, T) = IF T = {} THEN 0
                     ELSE f[CHOOSE x \in T : TRUE] + Sum(f, T \ {CHOOSE x \in T : TRUE})
<1>1. PICK g : Adds(g, f, T) /\ Sum(f, T) = g[T]
  BY SumUnfolds
<1> DEFINE first == CHOOSE x \in T : TRUE
<1>2. g[T] = IF T = {} THEN 0 ELSE f[first] + g[T \ {first}]
  BY <1>1 DEF Adds
<1>3. g[T \ {first}] = Sum(f, T \ {first})
  BY <1>1, AdderIsSum
<1>4. QED
  BY <1>1, <1>2, <1>3

LEMMA SumEmpty ==
  ASSUME NEW f
  PROVE  Sum(f, {}) = 0
BY SumStep, FS_EmptySet

LEMMA SumInt ==
  ASSUME NEW S, IsFiniteSet(S), NEW f, \A x \in S : f[x] \in Int
  PROVE  Sum(f, S) \in Int
<1> DEFINE Good == {T \in SUBSET S : Sum(f, T) \in Int}
<1>1. ASSUME NEW T \in SUBSET S, \A x \in T : T \ {x} \in Good
      PROVE  Sum(f, T) \in Int
  <2> DEFINE first == CHOOSE x \in T : TRUE
  <2>1. Sum(f, T) = IF T = {} THEN 0 ELSE f[first] + Sum(f, T \ {first})
    BY SumStep, FS_Subset
  <2>2. T # {} => first \in T
    OBVIOUS
  <2> HIDE DEF first
  <2>3. T # {} => Sum(f, T \ {first}) \in Int
    BY <1>1, <2>2
  <2>4. QED
    BY <2>1, <2>2, <2>3
<1>2. \A T \in SUBSET S : (\A x \in T : T \ {x} \in Good) => T \in Good
  BY <1>1
<1> HIDE DEF Good
<1>3. S \in Good
  BY <1>2, SubsetInduction
<1>4. QED
  BY <1>3 DEF Good

\* Whichever element is taken first.
LEMMA SumTake ==
  ASSUME NEW S, IsFiniteSet(S), NEW f, \A y \in S : f[y] \in Int, NEW x \in S
  PROVE  Sum(f, S) = f[x] + Sum(f, S \ {x})
<1> DEFINE Good == {T \in SUBSET S : \A y \in T : Sum(f, T) = f[y] + Sum(f, T \ {y})}
<1>1. ASSUME NEW T \in SUBSET S, \A y \in T : T \ {y} \in Good, NEW y \in T
      PROVE  Sum(f, T) = f[y] + Sum(f, T \ {y})
  <2> DEFINE first == CHOOSE z \in T : TRUE
  <2>1. Sum(f, T) = f[first] + Sum(f, T \ {first})
    BY SumStep, FS_Subset
  <2>2. first \in T
    OBVIOUS
  <2> HIDE DEF first
  <2>3. CASE y # first
    <3>1. /\ T \ {first} \in SUBSET S /\ y \in T \ {first}
          /\ T \ {y} \in SUBSET S /\ first \in T \ {y}
      BY <2>2, <2>3
    <3>2. Sum(f, T \ {first}) = f[y] + Sum(f, (T \ {first}) \ {y})
      BY <1>1, <2>2, <3>1
    <3>3. Sum(f, T \ {y}) = f[first] + Sum(f, (T \ {y}) \ {first})
      BY <1>1, <3>1
    <3>4. (T \ {first}) \ {y} = (T \ {y}) \ {first}
      OBVIOUS
    <3>5. Sum(f, (T \ {y}) \ {first}) \in Int
      BY SumInt, FS_Subset
    <3>6. f[y] \in Int /\ f[first] \in Int
      BY <2>2
    <3>7. \A a, b, c \in Int : a + (b + c) = b + (a + c)
      OBVIOUS
    <3>8. f[first] + (f[y] + Sum(f, (T \ {y}) \ {first}))
            = f[y] + (f[first] + Sum(f, (T \ {y}) \ {first}))
      BY <3>5, <3>6, <3>7
    <3>9. QED
      BY <2>1, <3>2, <3>3, <3>4, <3>8
  <2>4. QED
    BY <2>1, <2>3
<1>2. \A T \in SUBSET S : (\A y \in T : T \ {y} \in Good) => T \in Good
  BY <1>1
<1> HIDE DEF Good
<1>3. S \in Good
  BY <1>2, SubsetInduction
<1>4. QED
  BY <1>3 DEF Good

LEMMA SumAgree ==
  ASSUME NEW S, IsFiniteSet(S), NEW f, NEW h, \A x \in S : f[x] = h[x]
  PROVE  Sum(f, S) = Sum(h, S)
<1> DEFINE Good == {T \in SUBSET S : Sum(f, T) = Sum(h, T)}
<1>1. ASSUME NEW T \in SUBSET S, \A x \in T : T \ {x} \in Good
      PROVE  Sum(f, T) = Sum(h, T)
  <2> DEFINE first == CHOOSE x \in T : TRUE
  <2>1. /\ Sum(f, T) = IF T = {} THEN 0 ELSE f[first] + Sum(f, T \ {first})
        /\ Sum(h, T) = IF T = {} THEN 0 ELSE h[first] + Sum(h, T \ {first})
    BY SumStep, FS_Subset
  <2>2. T # {} => first \in T
    OBVIOUS
  <2> HIDE DEF first
  <2>3. T # {} => Sum(f, T \ {first}) = Sum(h, T \ {first})
    BY <1>1, <2>2
  <2>4. QED
    BY <2>1, <2>2, <2>3
<1>2. \A T \in SUBSET S : (\A x \in T : T \ {x} \in Good) => T \in Good
  BY <1>1
<1> HIDE DEF Good
<1>3. S \in Good
  BY <1>2, SubsetInduction
<1>4. QED
  BY <1>3 DEF Good

LEMMA SumAtMost ==
  ASSUME NEW S, IsFiniteSet(S), NEW f, NEW h,
         \A x \in S : f[x] \in Int /\ h[x] \in Int /\ f[x] <= h[x]
  PROVE  Sum(f, S) <= Sum(h, S)
<1> DEFINE Good == {T \in SUBSET S : Sum(f, T) <= Sum(h, T)}
<1>1. ASSUME NEW T \in SUBSET S, \A x \in T : T \ {x} \in Good
      PROVE  Sum(f, T) <= Sum(h, T)
  <2>1. CASE T = {}
    BY <2>1, SumEmpty
  <2>2. CASE T # {}
    <3>1. PICK x \in T : TRUE
      BY <2>2
    <3>2. IsFiniteSet(T)
      BY FS_Subset
    <3>3. /\ Sum(f, T) = f[x] + Sum(f, T \ {x})
          /\ Sum(h, T) = h[x] + Sum(h, T \ {x})
      BY <3>2, SumTake
    <3>4. Sum(f, T \ {x}) \in Int /\ Sum(h, T \ {x}) \in Int
      BY SumInt, FS_Subset
    <3>5. Sum(f, T \ {x}) <= Sum(h, T \ {x})
      BY <1>1
    <3>6. f[x] \in Int /\ h[x] \in Int /\ f[x] <= h[x]
      OBVIOUS
    <3>7. QED
      BY <3>3, <3>4, <3>5, <3>6
  <2>3. QED
    BY <2>1, <2>2
<1>2. \A T \in SUBSET S : (\A x \in T : T \ {x} \in Good) => T \in Good
  BY <1>1
<1> HIDE DEF Good
<1>3. S \in Good
  BY <1>2, SubsetInduction
<1>4. QED
  BY <1>3 DEF Good

LEMMA SumScaled ==
  ASSUME NEW S, IsFiniteSet(S), NEW f, NEW h, NEW k \in Int,
         \A x \in S : f[x] \in Int /\ h[x] = k * f[x]
  PROVE  Sum(h, S) = k * Sum(f, S)
<1> DEFINE Good == {T \in SUBSET S : Sum(h, T) = k * Sum(f, T)}
<1>1. ASSUME NEW T \in SUBSET S, \A x \in T : T \ {x} \in Good
      PROVE  Sum(h, T) = k * Sum(f, T)
  <2>1. CASE T = {}
    BY <2>1, SumEmpty
  <2>2. CASE T # {}
    <3>1. PICK x \in T : TRUE
      BY <2>2
    <3>2. IsFiniteSet(T) /\ \A y \in T : h[y] \in Int
      BY FS_Subset
    <3>3. /\ Sum(f, T) = f[x] + Sum(f, T \ {x})
          /\ Sum(h, T) = h[x] + Sum(h, T \ {x})
      BY <3>2, SumTake
    <3>4. Sum(f, T \ {x}) \in Int
      BY SumInt, FS_Subset
    <3>5. Sum(h, T \ {x}) = k * Sum(f, T \ {x})
      BY <1>1
    <3>6. f[x] \in Int /\ h[x] = k * f[x]
      OBVIOUS
    <3>7. \A a, b \in Int : k * (a + b) = k * a + k * b
      OBVIOUS
    <3>8. QED
      BY <3>3, <3>4, <3>5, <3>6, <3>7
  <2>3. QED
    BY <2>1, <2>2
<1>2. \A T \in SUBSET S : (\A x \in T : T \ {x} \in Good) => T \in Good
  BY <1>1
<1> HIDE DEF Good
<1>3. S \in Good
  BY <1>2, SubsetInduction
<1>4. QED
  BY <1>3 DEF Good

LEMMA SumOfSums ==
  ASSUME NEW S, IsFiniteSet(S), NEW f, NEW g, NEW h,
         \A x \in S : f[x] \in Int /\ g[x] \in Int /\ h[x] = f[x] + g[x]
  PROVE  Sum(h, S) = Sum(f, S) + Sum(g, S)
<1> DEFINE Good == {T \in SUBSET S : Sum(h, T) = Sum(f, T) + Sum(g, T)}
<1>1. ASSUME NEW T \in SUBSET S, \A x \in T : T \ {x} \in Good
      PROVE  Sum(h, T) = Sum(f, T) + Sum(g, T)
  <2>1. CASE T = {}
    BY <2>1, SumEmpty
  <2>2. CASE T # {}
    <3>1. PICK x \in T : TRUE
      BY <2>2
    <3>2. IsFiniteSet(T) /\ \A y \in T : h[y] \in Int
      BY FS_Subset
    <3>3. /\ Sum(f, T) = f[x] + Sum(f, T \ {x})
          /\ Sum(g, T) = g[x] + Sum(g, T \ {x})
          /\ Sum(h, T) = h[x] + Sum(h, T \ {x})
      BY <3>2, SumTake
    <3>4. Sum(f, T \ {x}) \in Int /\ Sum(g, T \ {x}) \in Int
      BY SumInt, FS_Subset
    <3>5. Sum(h, T \ {x}) = Sum(f, T \ {x}) + Sum(g, T \ {x})
      BY <1>1
    <3>6. f[x] \in Int /\ g[x] \in Int /\ h[x] = f[x] + g[x]
      OBVIOUS
    <3>7. QED
      BY <3>3, <3>4, <3>5, <3>6
  <2>3. QED
    BY <2>1, <2>2
<1>2. \A T \in SUBSET S : (\A x \in T : T \ {x} \in Good) => T \in Good
  BY <1>1
<1> HIDE DEF Good
<1>3. S \in Good
  BY <1>2, SubsetInduction
<1>4. QED
  BY <1>3 DEF Good

LEMMA SumConstant ==
  ASSUME NEW S, IsFiniteSet(S), NEW f, NEW k \in Int, \A x \in S : f[x] = k
  PROVE  Sum(f, S) = k * Cardinality(S)
<1> DEFINE Good == {T \in SUBSET S : Sum(f, T) = k * Cardinality(T)}
<1>1. ASSUME NEW T \in SUBSET S, \A x \in T : T \ {x} \in Good
      PROVE  Sum(f, T) = k * Cardinality(T)
  <2>1. CASE T = {}
    BY <2>1, SumEmpty, FS_EmptySet
  <2>2. CASE T # {}
    <3>1. PICK x \in T : TRUE
      BY <2>2
    <3>2. IsFiniteSet(T) /\ Cardinality(T) \in Nat
      BY FS_Subset, FS_CardinalityType
    <3>3. Sum(f, T) = k + Sum(f, T \ {x})
      BY <3>2, SumTake
    <3>4. Cardinality(T \ {x}) = Cardinality(T) - 1
      BY <3>2, FS_RemoveElement
    <3>5. Sum(f, T \ {x}) = k * Cardinality(T \ {x})
      BY <1>1
    <3>6. \A n \in Int : k + k * (n - 1) = k * n
      OBVIOUS
    <3>7. QED
      BY <3>2, <3>3, <3>4, <3>5, <3>6
  <2>3. QED
    BY <2>1, <2>2
<1>2. \A T \in SUBSET S : (\A x \in T : T \ {x} \in Good) => T \in Good
  BY <1>1
<1> HIDE DEF Good
<1>3. S \in Good
  BY <1>2, SubsetInduction
<1>4. QED
  BY <1>3 DEF Good

LEMMA SumOfFunction ==
  ASSUME NEW S, NEW f, DOMAIN f = S
  PROVE  SumFunction(f) = Sum(f, S)
BY DEF SumFunction, SumFunctionOnSet, FoldFunctionOnSet, Sum, MapThenSumSet

LEMMA SumNat ==
  ASSUME NEW S, IsFiniteSet(S), NEW f, \A x \in S : f[x] \in Nat
  PROVE  Sum(f, S) \in Nat
<1> DEFINE zero == [x \in S |-> 0]
<1>1. Sum(zero, S) = 0 * Cardinality(S)
  BY SumConstant
<1>2. Sum(zero, S) <= Sum(f, S)
  BY SumAtMost
<1>3. Sum(f, S) \in Int /\ Cardinality(S) \in Nat
  BY SumInt, FS_CardinalityType
<1>4. QED
  BY <1>1, <1>2, <1>3

LEMMA SumDisjoint ==
  ASSUME NEW S, NEW R, IsFiniteSet(S), IsFiniteSet(R), S \cap R = {},
         NEW f, \A x \in S \cup R : f[x] \in Int
  PROVE  Sum(f, S \cup R) = Sum(f, S) + Sum(f, R)
<1> DEFINE Good == {T \in SUBSET S : Sum(f, T \cup R) = Sum(f, T) + Sum(f, R)}
<1>1. ASSUME NEW T \in SUBSET S, \A x \in T : T \ {x} \in Good
      PROVE  Sum(f, T \cup R) = Sum(f, T) + Sum(f, R)
  <2>1. IsFiniteSet(T) /\ IsFiniteSet(T \cup R)
    BY FS_Subset, FS_Union
  <2>2. Sum(f, R) \in Int
    BY SumInt
  <2>3. CASE T = {}
    <3>1. T \cup R = R
      BY <2>3
    <3>2. QED
      BY <2>2, <2>3, <3>1, SumEmpty
  <2>4. CASE T # {}
    <3>1. PICK x \in T : TRUE
      BY <2>4
    <3>2. Sum(f, T) = f[x] + Sum(f, T \ {x})
      BY <2>1, SumTake
    <3>3. Sum(f, T \cup R) = f[x] + Sum(f, (T \cup R) \ {x})
      BY <2>1, SumTake
    <3>4. (T \cup R) \ {x} = (T \ {x}) \cup R
      OBVIOUS
    <3>5. Sum(f, (T \ {x}) \cup R) = Sum(f, T \ {x}) + Sum(f, R)
      BY <1>1
    <3>6. Sum(f, T \ {x}) \in Int /\ f[x] \in Int
      BY SumInt, FS_Subset
    <3>7. \A a, b, c \in Int : a + (b + c) = (a + b) + c
      OBVIOUS
    <3>8. f[x] + (Sum(f, T \ {x}) + Sum(f, R)) = (f[x] + Sum(f, T \ {x})) + Sum(f, R)
      BY <2>2, <3>6, <3>7
    <3>9. QED
      BY <3>2, <3>3, <3>4, <3>5, <3>8
  <2>5. QED
    BY <2>3, <2>4
<1>2. \A T \in SUBSET S : (\A x \in T : T \ {x} \in Good) => T \in Good
  BY <1>1
<1> HIDE DEF Good
<1>3. S \in Good
  BY <1>2, SubsetInduction
<1>4. QED
  BY <1>3 DEF Good

\* The members of S of class k.
Fibre(S, class, k) == {x \in S : class[x] = k}

\* The sum over the members of S, one class after the other.
LEMMA SumByClass ==
  ASSUME NEW S, IsFiniteSet(S), NEW K, IsFiniteSet(K), NEW class,
         \A x \in S : class[x] \in K,
         NEW f, \A x \in S : f[x] \in Int,
         NEW sums, \A k \in K : sums[k] = Sum(f, Fibre(S, class, k))
  PROVE  Sum(f, S) = Sum(sums, K)
<1> DEFINE Members(T) == {x \in S : class[x] \in T}
           Good == {T \in SUBSET K : Sum(f, Members(T)) = Sum(sums, T)}
<1>1. \A k \in K : sums[k] \in Int
  BY SumInt, FS_Subset DEF Fibre
<1>2. ASSUME NEW T \in SUBSET K, \A k \in T : T \ {k} \in Good
      PROVE  Sum(f, Members(T)) = Sum(sums, T)
  <2>1. CASE T = {}
    <3>1. Members(T) = {}
      BY <2>1
    <3>2. QED
      BY <2>1, <3>1, SumEmpty
  <2>2. CASE T # {}
    <3>1. PICK k \in T : TRUE
      BY <2>2
    <3> DEFINE those == Fibre(S, class, k)
               others == Members(T \ {k})
    <3>2. Sum(sums, T) = sums[k] + Sum(sums, T \ {k})
      BY <1>1, SumTake, FS_Subset
    <3>3. /\ Members(T) = those \cup others
          /\ those \cap others = {}
          /\ \A x \in those \cup others : f[x] \in Int
      BY <1>2 DEF Fibre
    <3>4. IsFiniteSet(those) /\ IsFiniteSet(others)
      BY FS_Subset DEF Fibre
    <3>5. sums[k] = Sum(f, those)
      OBVIOUS
    <3>6. Sum(f, others) = Sum(sums, T \ {k})
      BY <1>2
    <3> HIDE DEF those, others
    <3>7. Sum(f, those \cup others) = Sum(f, those) + Sum(f, others)
      BY <3>3, <3>4, SumDisjoint
    <3>8. QED
      BY <3>2, <3>3, <3>5, <3>6, <3>7
  <2>3. QED
    BY <2>1, <2>2
<1>3. \A T \in SUBSET K : (\A k \in T : T \ {k} \in Good) => T \in Good
  BY <1>2
<1>4. Members(K) = S
  OBVIOUS
<1> HIDE DEF Good
<1>5. K \in Good
  BY <1>3, SubsetInduction
<1>6. QED
  BY <1>4, <1>5 DEF Good

\* The classes share out the members of S.
LEMMA CountByClass ==
  ASSUME NEW S, IsFiniteSet(S), NEW K, IsFiniteSet(K), NEW class,
         \A x \in S : class[x] \in K,
         NEW counts, \A k \in K : counts[k] = Cardinality(Fibre(S, class, k))
  PROVE  Cardinality(S) = Sum(counts, K)
<1> DEFINE one == [x \in S |-> 1]
<1>1. ASSUME NEW T \in SUBSET S PROVE Sum(one, T) = Cardinality(T)
  <2>1. Sum(one, T) = 1 * Cardinality(T)
    BY SumConstant, FS_Subset
  <2>2. Cardinality(T) \in Nat
    BY FS_Subset, FS_CardinalityType
  <2>3. QED
    BY <2>1, <2>2
<1>2. \A k \in K : counts[k] = Sum(one, Fibre(S, class, k))
  BY <1>1 DEF Fibre
<1>3. \A x \in S : one[x] \in Int
  OBVIOUS
<1> HIDE DEF one
<1>4. Sum(one, S) = Sum(counts, K)
  BY <1>2, <1>3, SumByClass
<1>5. QED
  BY <1>1, <1>4

\* Renaming what is added up.
LEMMA SumReindexed ==
  ASSUME NEW S, IsFiniteSet(S), NEW T, NEW b \in Bijection(S, T),
         NEW f, \A y \in T : f[y] \in Int, NEW g, \A x \in S : g[x] = f[b[x]]
  PROVE  Sum(g, S) = Sum(f, T)
<1> DEFINE Images(U) == {b[x] : x \in U}
           Good == {U \in SUBSET S : Sum(g, U) = Sum(f, Images(U))}
<1>1. /\ \A x \in S : b[x] \in T
      /\ \A x, y \in S : b[x] = b[y] => x = y
      /\ \A y \in T : \E x \in S : b[x] = y
  BY DEF Bijection, Injection, Surjection, IsInjective
<1>2. ASSUME NEW U \in SUBSET S, \A x \in U : U \ {x} \in Good
      PROVE  Sum(g, U) = Sum(f, Images(U))
  <2>1. IsFiniteSet(U)
    BY FS_Subset
  <2>2. CASE U = {}
    <3>1. Images(U) = {}
      BY <2>2
    <3>2. QED
      BY <2>2, <3>1, SumEmpty
  <2>3. CASE U # {}
    <3>1. PICK x \in U : TRUE
      BY <2>3
    <3>2. Sum(g, U) = g[x] + Sum(g, U \ {x})
      <4>1. \A y \in U : g[y] \in Int
        BY <1>1
      <4>2. QED
        BY <2>1, <4>1, SumTake
    <3>3. Sum(g, U \ {x}) = Sum(f, Images(U \ {x}))
      BY <1>2
    <3>4. Images(U \ {x}) = Images(U) \ {b[x]}
      <4>1. \A y \in U : b[y] = b[x] => y = x
        BY <1>1
      <4>2. QED
        BY <4>1
    <3>5. IsFiniteSet(Images(U))
      <4>1. [y \in U |-> b[y]] \in Surjection(U, Images(U))
        BY DEF Surjection
      <4>2. QED
        BY <2>1, <4>1, FS_Surjection
    <3>6. /\ Images(U) \in SUBSET T /\ b[x] \in Images(U)
          /\ \A y \in Images(U) : f[y] \in Int
      BY <1>1
    <3> HIDE DEF Images
    <3>7. Sum(f, Images(U)) = f[b[x]] + Sum(f, Images(U) \ {b[x]})
      BY <3>5, <3>6, SumTake
    <3>8. g[x] = f[b[x]]
      OBVIOUS
    <3>9. QED
      BY <3>2, <3>3, <3>4, <3>7, <3>8, Zenon
  <2>4. QED
    BY <2>2, <2>3
<1>3. \A U \in SUBSET S : (\A x \in U : U \ {x} \in Good) => U \in Good
  BY <1>2
<1>4. Images(S) = T
  BY <1>1
<1> HIDE DEF Good
<1>5. S \in Good
  BY <1>3, SubsetInduction
<1>6. QED
  BY <1>4, <1>5 DEF Good

\* Induction up to n.
LEMMA CountingUp ==
  ASSUME NEW n \in Nat, NEW Good, 0 \in Good,
         \A k \in 1..n : k - 1 \in Good => k \in Good
  PROVE  \A k \in 0..n : k \in Good
<1> DEFINE Bad == {k \in 0..n : k \notin Good}
<1>1. SUFFICES ASSUME Bad # {} PROVE FALSE
  OBVIOUS
<1>2. Bad \in SUBSET Nat
  OBVIOUS
<1>3. PICK k \in Bad : \A m \in Bad : ~(m < k)
  BY <1>1, <1>2, LeastNumber
<1>4. k \in 1..n
  BY <1>3
<1>5. k - 1 \in 0..n /\ k - 1 < k
  BY <1>4
<1>6. k - 1 \in Good
  BY <1>3, <1>5
<1>7. QED
  BY <1>3, <1>4, <1>6

\* A nonempty finite set of numbers has a least and a greatest element.
LEMMA MinIsLeast ==
  ASSUME NEW T \in SUBSET Nat, T # {}
  PROVE  Min(T) \in T /\ \A x \in T : Min(T) <= x
<1>1. PICK n \in T : \A m \in T : ~(m < n)
  BY LeastNumber
<1>2. \A m \in T : n <= m
  BY <1>1
<1>3. QED
  BY <1>2 DEF Min

LEMMA SumSubset ==
  ASSUME NEW S, IsFiniteSet(S), NEW f, \A x \in S : f[x] \in Nat, NEW T \in SUBSET S
  PROVE  Sum(f, T) <= Sum(f, S)
<1>1. IsFiniteSet(T) /\ IsFiniteSet(S \ T)
  BY FS_Subset
<1>2. Sum(f, T) \in Nat /\ Sum(f, S \ T) \in Nat
  BY <1>1, SumNat
<1>3. T \cup (S \ T) = S
  OBVIOUS
<1>4. Sum(f, T \cup (S \ T)) = Sum(f, T) + Sum(f, S \ T)
  <2>1. \A x \in T \cup (S \ T) : f[x] \in Int
    OBVIOUS
  <2>2. QED
    BY <1>1, <2>1, SumDisjoint
<1>5. Sum(f, S) = Sum(f, T) + Sum(f, S \ T)
  BY <1>3, <1>4
<1>6. QED
  BY <1>2, <1>5

----------------------------------------------------------------------------
(* Products                                                                *)

\* g multiplies the elements of every subset of S, taken as CHOOSE does.
Multiplies(g, S) ==
  g = [T \in SUBSET S |->
         IF T = {} THEN 1
         ELSE (CHOOSE x \in T : TRUE) * g[T \ {CHOOSE x \in T : TRUE}]]

LEMMA MultiplierExists ==
  ASSUME NEW S, IsFiniteSet(S)
  PROVE  \E g : Multiplies(g, S)
<1> DEFINE Small(n) == {T \in SUBSET S : Cardinality(T) <= n}
           first(T) == CHOOSE x \in T : TRUE
           Upto(g, n) ==
             g = [T \in Small(n) |->
                    IF T = {} THEN 1 ELSE first(T) * g[T \ {first(T)}]]
           Bad == {n \in Nat : ~\E g : Upto(g, n)}
<1>1. \A T \in SUBSET S : IsFiniteSet(T) /\ Cardinality(T) \in Nat
  BY FS_Subset, FS_CardinalityType
<1>2. Small(0) = {{}}
  BY <1>1, FS_EmptySet
<1>3. Upto([T \in {{}} |-> 1], 0)
  BY <1>2
<1>4. ASSUME NEW n \in Nat, n # 0, NEW g, Upto(g, n - 1)
      PROVE  \E h : Upto(h, n)
  <2> DEFINE h == [T \in Small(n) |->
                     IF T = {} THEN 1 ELSE first(T) * g[T \ {first(T)}]]
  <2>1. Small(n - 1) \subseteq Small(n)
    BY <1>1
  <2>2. DOMAIN g = Small(n - 1) /\ DOMAIN h = Small(n)
    BY <1>4
  <2>3. \A T \in Small(n - 1) : h[T] = g[T]
    BY <1>4, <2>1
  <2>4. ASSUME NEW T \in Small(n), T # {}
        PROVE  T \ {first(T)} \in Small(n - 1)
    <3>1. first(T) \in T
      BY <2>4
    <3> HIDE DEF first
    <3>2. Cardinality(T \ {first(T)}) = Cardinality(T) - 1
      BY <1>1, <3>1, FS_RemoveElement
    <3>3. QED
      BY <1>1, <3>2
  <2>5. h = [T \in Small(n) |->
               IF T = {} THEN 1 ELSE first(T) * h[T \ {first(T)}]]
    <3> HIDE DEF first, Small
    <3>1. \A T \in Small(n) : T # {} => h[T \ {first(T)}] = g[T \ {first(T)}]
      BY <2>3, <2>4
    <3>2. QED
      BY <3>1
  <2>6. QED
    BY <2>5
<1>5. Bad = {}
  <2>1. SUFFICES ASSUME Bad # {} PROVE FALSE
    OBVIOUS
  <2>2. PICK n \in Bad : \A m \in Bad : ~(m < n)
    BY <2>1, LeastNumber
  <2>3. n # 0
    BY <1>3, <2>2, ZenonT(30)
  <2>4. n - 1 \in Nat /\ n - 1 < n
    BY <2>3
  <2>5. n - 1 \notin Bad
    BY <2>2, <2>4
  <2>6. PICK g : Upto(g, n - 1)
    BY <2>4, <2>5
  <2>7. QED
    BY <1>4, <2>2, <2>3, <2>6
<1>6. Cardinality(S) \in Nat /\ Small(Cardinality(S)) = SUBSET S
  BY <1>1, FS_Subset
<1>7. PICK g : Upto(g, Cardinality(S))
  BY <1>5, <1>6
<1>8. Multiplies(g, S)
  BY <1>6, <1>7 DEF Multiplies
<1>9. QED
  BY <1>8

\* A product of positive numbers is a positive multiple of each of them.
LEMMA ProductIsMultiple ==
  ASSUME NEW S \in SUBSET (Nat \ {0}), IsFiniteSet(S)
  PROVE  /\ ProductSet(S) \in Nat \ {0}
         /\ \A y \in S : \E k \in Nat : ProductSet(S) = y * k
<1>1. ProductSet(S) = (CHOOSE g : Multiplies(g, S))[S]
  BY DEF ProductSet, FoldSet, MapThenFoldSet, Multiplies
<1>2. PICK g : Multiplies(g, S) /\ ProductSet(S) = g[S]
  BY <1>1, MultiplierExists
<1> DEFINE Good == {T \in SUBSET S : /\ g[T] \in Nat \ {0}
                                     /\ \A y \in T : \E k \in Nat : g[T] = y * k}
<1>3. ASSUME NEW T \in SUBSET S, \A x \in T : T \ {x} \in Good
      PROVE  /\ g[T] \in Nat \ {0}
             /\ \A y \in T : \E k \in Nat : g[T] = y * k
  <2> DEFINE first == CHOOSE x \in T : TRUE
  <2>1. g[T] = IF T = {} THEN 1 ELSE first * g[T \ {first}]
    BY <1>2 DEF Multiplies
  <2>2. T # {} => first \in T
    OBVIOUS
  <2> HIDE DEF first
  <2>3. CASE T = {}
    BY <2>1, <2>3
  <2>4. CASE T # {}
    <3> DEFINE rest == g[T \ {first}]
    <3>1. /\ first \in Nat \ {0}
          /\ rest \in Nat \ {0}
          /\ \A y \in T \ {first} : \E k \in Nat : rest = y * k
          /\ g[T] = first * rest
      BY <1>3, <2>1, <2>2, <2>4
    <3> HIDE DEF rest, Good
    <3>2. g[T] \in Nat \ {0}
      <4>1. \A a, b \in Nat \ {0} : a * b \in Nat \ {0}
        OBVIOUS
      <4>2. QED
        BY <3>1, <4>1
    <3>3. ASSUME NEW y \in T PROVE \E k \in Nat : g[T] = y * k
      <4>1. CASE y = first
        BY <3>1, <4>1
      <4>2. CASE y # first
        <5>1. PICK k \in Nat : rest = y * k
          BY <3>1, <4>2
        <5>2. y \in Nat
          OBVIOUS
        <5>3. \A a, b, c \in Nat : a * (b * c) = b * (a * c) /\ a * c \in Nat
          OBVIOUS
        <5>4. first * (y * k) = y * (first * k) /\ first * k \in Nat
          BY <3>1, <5>2, <5>3
        <5>5. QED
          BY <3>1, <5>1, <5>4
      <4>3. QED
        BY <4>1, <4>2
    <3>4. QED
      BY <3>2, <3>3
  <2>5. QED
    BY <2>3, <2>4
<1>4. \A T \in SUBSET S : (\A x \in T : T \ {x} \in Good) => T \in Good
  BY <1>3
<1> HIDE DEF Good
<1>5. S \in Good
  BY <1>4, SubsetInduction
<1>6. QED
  BY <1>2, <1>5 DEF Good
============================================================================
