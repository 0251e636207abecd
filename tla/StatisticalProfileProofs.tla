---------------------- MODULE StatisticalProfileProofs ----------------------
(***************************************************************************)
(* Theorems about the statistical profile, for any requests, valid or not, *)
(* and any limits, and proofs the TLA+ proof system checks.                *)
(***************************************************************************)
EXTENDS PricingRequestsProofs, SumTheorems, SequenceTheorems

----------------------------------------------------------------------------
(* Arranging a sequence                                                    *)

\* precedes is a strict total order of places.
Orders(precedes, places) ==
  /\ \A i \in places : <<i, i>> \notin precedes
  /\ \A i, j, k \in places :
       <<i, j>> \in precedes /\ <<j, k>> \in precedes => <<i, k>> \in precedes
  /\ \A i, j \in places : i # j => <<i, j>> \in precedes \/ <<j, i>> \in precedes

Ahead(i, places, precedes) == {j \in places : <<j, i>> \in precedes}
Rank(i, places, precedes) == Cardinality(Ahead(i, places, precedes))

\* The place that n - 1 others precede.
PlaceOf(n, places, precedes) ==
  CHOOSE i \in places : Rank(i, places, precedes) = n - 1

Places(places, precedes) ==
  [n \in 1..Cardinality(places) |-> PlaceOf(n, places, precedes)]

LEMMA RanksAreABijection ==
  ASSUME NEW places, IsFiniteSet(places), NEW precedes, Orders(precedes, places),
         NEW rank, rank = [i \in places |-> Rank(i, places, precedes)]
  PROVE  /\ Cardinality(places) \in Nat
         /\ rank \in Bijection(places, 0..(Cardinality(places) - 1))
         /\ \A i, j \in places : <<i, j>> \in precedes => rank[i] < rank[j]
<1> DEFINE n == Cardinality(places)
           before(i) == Ahead(i, places, precedes)
<1>1. n \in Nat
  BY FS_CardinalityType
<1>2. ASSUME NEW i \in places
      PROVE  IsFiniteSet(before(i)) /\ rank[i] = Cardinality(before(i)) /\ rank[i] \in 0..(n - 1)
  <2>1. before(i) \in SUBSET places /\ i \notin before(i)
    BY DEF Orders, Ahead
  <2>2. /\ IsFiniteSet(before(i))
        /\ Cardinality(before(i)) <= n
        /\ Cardinality(before(i)) # n
    BY <2>1, FS_Subset
  <2>3. Cardinality(before(i)) \in Nat
    BY <2>2, FS_CardinalityType
  <2>4. QED
    BY <1>1, <2>2, <2>3 DEF Rank
<1>3. ASSUME NEW i \in places, NEW j \in places, <<i, j>> \in precedes
      PROVE  rank[i] < rank[j]
  <2>1. before(i) \in SUBSET before(j)
    BY <1>3 DEF Orders, Ahead
  <2>2. i \in before(j) /\ i \notin before(i)
    BY <1>3 DEF Orders, Ahead
  <2>3. /\ Cardinality(before(i)) <= Cardinality(before(j))
        /\ Cardinality(before(i)) # Cardinality(before(j))
    BY <1>2, <2>1, <2>2, FS_Subset
  <2>4. rank[i] = Cardinality(before(i)) /\ rank[j] = Cardinality(before(j))
    BY <1>2
  <2>5. rank[i] \in Int /\ rank[j] \in Int
    BY <1>1, <1>2
  <2>6. QED
    BY <2>3, <2>4, <2>5
<1>4. rank \in Injection(places, 0..(n - 1))
  <2>1. rank \in [places -> 0..(n - 1)]
    BY <1>2
  <2>2. ASSUME NEW i \in places, NEW j \in places, rank[i] = rank[j]
        PROVE  i = j
    <3>1. rank[i] \in Int /\ rank[j] \in Int
      BY <1>1, <1>2
    <3>2. \A a, b \in Int : a = b => ~(a < b) /\ ~(b < a)
      OBVIOUS
    <3>3. ~(rank[i] < rank[j]) /\ ~(rank[j] < rank[i])
      BY <2>2, <3>1, <3>2
    <3>4. QED
      BY <1>3, <3>3 DEF Orders
  <2>3. QED
    BY <2>1, <2>2 DEF Injection, IsInjective
<1>5. IsFiniteSet(0..(n - 1)) /\ Cardinality(0..(n - 1)) = n
  BY <1>1, FS_Interval
<1>6. rank \in Surjection(places, 0..(n - 1))
  BY <1>1, <1>4, <1>5, FS_Injection
<1>7. QED
  BY <1>1, <1>3, <1>4, <1>6 DEF Bijection

\* Every place is the place of one number, and the order is kept.
LEMMA PlacesAreInOrder ==
  ASSUME NEW places, IsFiniteSet(places), NEW precedes, Orders(precedes, places)
  PROVE  LET place == Places(places, precedes)
         IN  /\ Cardinality(places) \in Nat
             /\ place \in Bijection(1..Cardinality(places), places)
             /\ \A m, n \in 1..Cardinality(places) :
                  m < n => <<place[m], place[n]>> \in precedes
<1> DEFINE place == Places(places, precedes)
           size == Cardinality(places)
           rank == [i \in places |-> Rank(i, places, precedes)]
<1>1. /\ size \in Nat
      /\ rank \in Bijection(places, 0..(size - 1))
      /\ \A i, j \in places : <<i, j>> \in precedes => rank[i] < rank[j]
  BY RanksAreABijection
<1>2. ASSUME NEW n \in 1..size
      PROVE  place[n] \in places /\ rank[place[n]] = n - 1
  <2>1. n - 1 \in 0..(size - 1)
    BY <1>1
  <2>2. PICK i \in places : rank[i] = n - 1
    BY <1>1, <2>1 DEF Bijection, Surjection
  <2>3. place[n] = PlaceOf(n, places, precedes)
    BY DEF Places
  <2>4. QED
    BY <2>2, <2>3 DEF PlaceOf
<1>p. DOMAIN place = 1..size
  BY DEF Places
<1>q. place = [n \in 1..size |-> place[n]]
  BY DEF Places
<1> HIDE DEF place
<1>3. ASSUME NEW m \in 1..size, NEW n \in 1..size, place[m] = place[n]
      PROVE  m = n
  <2>1. m - 1 = n - 1
    BY <1>2, <1>3
  <2>2. QED
    BY <1>1, <2>1
<1>4. ASSUME NEW i \in places
      PROVE  \E n \in 1..size : place[n] = i
  <2>1. rank[i] \in 0..(size - 1)
    BY <1>1 DEF Bijection, Injection
  <2>2. rank[i] + 1 \in 1..size /\ (rank[i] + 1) - 1 = rank[i]
    BY <1>1, <2>1
  <2>3. place[rank[i] + 1] \in places /\ rank[place[rank[i] + 1]] = rank[i]
    BY <1>2, <2>2
  <2>4. place[rank[i] + 1] = i
    BY <1>1, <2>3 DEF Bijection, Injection, IsInjective
  <2>5. QED
    BY <2>2, <2>4
<1>5. place \in Bijection(1..size, places)
  BY <1>2, <1>3, <1>4, <1>p, <1>q DEF Bijection, Injection, Surjection, IsInjective
<1>6. ASSUME NEW m \in 1..size, NEW n \in 1..size, m < n
      PROVE  <<place[m], place[n]>> \in precedes
  <2>1. rank[place[m]] = m - 1 /\ rank[place[n]] = n - 1
    BY <1>2
  <2>2. ~(rank[place[n]] < rank[place[m]]) /\ place[m] # place[n]
    BY <1>1, <1>3, <1>6, <2>1
  <2>3. QED
    BY <1>1, <1>2, <2>2 DEF Orders
<1>7. QED
  BY <1>1, <1>5, <1>6 DEF place

\* Comparables as the schema lets them through, each under an id of its own.
Comparables(s) ==
  /\ s \in Seq(Elements(s))
  /\ \A i \in DOMAIN s :
       /\ s[i].id \in Nat /\ s[i].price \in Nat \ {0} /\ s[i].similarity \in 0..100
       /\ \A j \in DOMAIN s : s[i].id = s[j].id => i = j

LEMMA DomainOfASequence ==
  ASSUME NEW s, s \in Seq(Elements(s))
  PROVE  /\ Len(s) \in Nat /\ DOMAIN s = 1..Len(s)
         /\ IsFiniteSet(DOMAIN s) /\ Cardinality(DOMAIN s) = Len(s)
<1>1. Len(s) \in Nat /\ DOMAIN s = 1..Len(s)
  BY LenProperties
<1>2. IsFiniteSet(1..Len(s)) /\ Cardinality(1..Len(s)) = Len(s)
  BY <1>1, FS_Interval, SMTT(30)
<1>3. QED
  BY <1>1, <1>2

\* Arranging permutes what the places hold.
LEMMA ArrangedPermutes ==
  ASSUME NEW s, s \in Seq(Elements(s)), NEW places \in SUBSET DOMAIN s,
         NEW precedes, Orders(precedes, places)
  PROVE  LET place == Places(places, precedes)
         IN  /\ IsFiniteSet(places)
             /\ Cardinality(places) \in Nat
             /\ place \in Bijection(1..Cardinality(places), places)
             /\ \A m, n \in 1..Cardinality(places) :
                  m < n => <<place[m], place[n]>> \in precedes
             /\ Arranged(s, places, precedes) = [n \in 1..Cardinality(places) |-> s[place[n]]]
<1>1. IsFiniteSet(places)
  BY DomainOfASequence, FS_Subset
<1>2. Arranged(s, places, precedes)
        = [n \in 1..Cardinality(places) |-> s[PlaceOf(n, places, precedes)]]
  BY Zenon DEF Arranged, PlaceOf, Rank, Ahead
<1>3. Arranged(s, places, precedes)
        = [n \in 1..Cardinality(places) |-> s[Places(places, precedes)[n]]]
  BY <1>2 DEF Places
<1>4. QED
  BY <1>1, <1>3, PlacesAreInOrder

LEMMA ArrangedHolds ==
  ASSUME NEW s, s \in Seq(Elements(s)), NEW places \in SUBSET DOMAIN s,
         NEW precedes, Orders(precedes, places)
  PROVE  LET t == Arranged(s, places, precedes)
         IN  /\ t \in Seq(Elements(t))
             /\ Len(t) = Cardinality(places)
             /\ Elements(t) = {s[i] : i \in places}
             /\ Comparables(s) => Comparables(t)
<1> DEFINE t == Arranged(s, places, precedes)
           place == Places(places, precedes)
<1>1. Cardinality(places) \in Nat
  BY ArrangedPermutes
<1>2. place \in Bijection(1..Cardinality(places), places)
  BY ArrangedPermutes
<1>t. t = [n \in 1..Cardinality(places) |-> s[place[n]]]
  BY ArrangedPermutes
<1> HIDE DEF t, place
<1>3. DOMAIN t = 1..Cardinality(places)
  BY <1>t
<1>4. \A n \in DOMAIN t : place[n] \in places /\ t[n] = s[place[n]]
  BY <1>t, <1>2, <1>3 DEF Bijection, Injection
<1>5. /\ \A m, n \in DOMAIN t : place[m] = place[n] => m = n
      /\ \A i \in places : \E n \in DOMAIN t : place[n] = i
  BY <1>2, <1>3 DEF Bijection, Injection, Surjection, IsInjective
<1>6. t \in Seq(Elements(t)) /\ Len(t) = Cardinality(places)
  <2>1. t \in [1..Cardinality(places) -> Elements(t)]
    BY <1>t, <1>3 DEF Elements
  <2>2. QED
    BY <1>1, <2>1
<1>7. Elements(t) = {s[i] : i \in places}
  BY <1>4, <1>5 DEF Elements
<1>8. ASSUME Comparables(s) PROVE Comparables(t)
  <2>1. \A n \in DOMAIN t :
          /\ t[n].id \in Nat /\ t[n].price \in Nat \ {0} /\ t[n].similarity \in 0..100
    BY <1>4, <1>8 DEF Comparables
  <2>2. ASSUME NEW m \in DOMAIN t, NEW n \in DOMAIN t, t[m].id = t[n].id
        PROVE  m = n
    <3>1. place[m] \in DOMAIN s /\ place[n] \in DOMAIN s /\ s[place[m]].id = s[place[n]].id
      BY <1>4, <2>2
    <3>2. place[m] = place[n]
      BY <1>8, <3>1 DEF Comparables
    <3>3. QED
      BY <1>5, <3>2
  <2>3. QED
    BY <1>6, <2>1, <2>2 DEF Comparables
<1>9. QED
  BY <1>6, <1>7, <1>8 DEF t

LEMMA PlacesAreOrdered ==
  ASSUME NEW s, s \in Seq(Elements(s)), NEW places \in SUBSET DOMAIN s
  PROVE  Orders({p \in Pairs(s) : p[1] < p[2]}, places)
<1> DEFINE earlier == {p \in Pairs(s) : p[1] < p[2]}
<1>1. \A i, j \in places : <<i, j>> \in earlier <=> i < j
  <2>1. ASSUME NEW i \in places, NEW j \in places
        PROVE  <<i, j>> \in earlier <=> i < j
    <3>1. <<i, j>> \in Pairs(s) /\ <<i, j>>[1] = i /\ <<i, j>>[2] = j
      BY DEF Pairs
    <3>2. QED
      BY <3>1
  <2>2. QED
    BY <2>1
<1>2. \A i \in places : i \in Nat
  BY DomainOfASequence
<1> HIDE DEF earlier
<1>3. Orders(earlier, places)
  BY <1>1, <1>2 DEF Orders
<1>4. QED
  BY <1>3 DEF earlier

LEMMA IdsAreOrdered ==
  ASSUME NEW s, Comparables(s), NEW places \in SUBSET DOMAIN s
  PROVE  Orders(ById(s), places)
<1>1. ASSUME NEW i \in places, NEW j \in places
      PROVE  <<i, j>> \in ById(s) <=> s[i].id < s[j].id
  <2>1. <<i, j>> \in Pairs(s) /\ <<i, j>>[1] = i /\ <<i, j>>[2] = j
    BY DEF Pairs
  <2>2. QED
    BY <2>1 DEF ById
<1>2. \A i \in places : s[i].id \in Nat
  BY DEF Comparables
<1>3. \A i, j \in places : s[i].id = s[j].id => i = j
  BY DEF Comparables
<1>4. QED
  BY <1>1, <1>2, <1>3 DEF Orders

LEMMA PricesAreOrdered ==
  ASSUME NEW s, Comparables(s), NEW places \in SUBSET DOMAIN s
  PROVE  Orders(ByPrice(s), places)
<1>1. ASSUME NEW i \in places, NEW j \in places
      PROVE  <<i, j>> \in ByPrice(s)
               <=> s[i].price < s[j].price \/ (s[i].price = s[j].price /\ i < j)
  <2>1. <<i, j>> \in Pairs(s) /\ <<i, j>>[1] = i /\ <<i, j>>[2] = j
    BY DEF Pairs
  <2>2. QED
    BY <2>1 DEF ByPrice
<1>2. \A i \in places : s[i].price \in Nat /\ i \in Nat
  BY DomainOfASequence DEF Comparables
<1>3. QED
  BY <1>1, <1>2 DEF Orders

\* What At leaves, and in which order.
LEMMA AtHolds ==
  ASSUME NEW s, s \in Seq(Elements(s)), NEW places \in SUBSET DOMAIN s
  PROVE  /\ At(s, places) \in Seq(Elements(At(s, places)))
         /\ Len(At(s, places)) = Cardinality(places)
         /\ Elements(At(s, places)) = {s[i] : i \in places}
         /\ Comparables(s) => Comparables(At(s, places))
<1> DEFINE earlier == {p \in Pairs(s) : p[1] < p[2]}
<1>1. Orders(earlier, places)
  BY PlacesAreOrdered
<1>2. At(s, places) = Arranged(s, places, earlier)
  BY DEF At
<1> HIDE DEF earlier
<1>3. QED
  BY <1>1, <1>2, ArrangedHolds

----------------------------------------------------------------------------
(* What a list of comparables adds up to depends on its members only       *)

LEMMA SumOverPlaces ==
  ASSUME NEW s, Comparables(s), NEW places \in SUBSET DOMAIN s, NEW f, NEW g,
         \A i \in places : f[i] = g[s[i]] /\ f[i] \in Int
  PROVE  Sum(f, places) = Sum(g, {s[i] : i \in places})
<1> DEFINE held == {s[i] : i \in places}
           b == [i \in places |-> s[i]]
<1>1. IsFiniteSet(places)
  BY DomainOfASequence, FS_Subset DEF Comparables
<1>2. \A i, j \in places : s[i] = s[j] => i = j
  BY DEF Comparables
<1>3. b \in Bijection(places, held)
  BY <1>2 DEF Bijection, Injection, Surjection, IsInjective
<1>4. /\ \A y \in held : g[y] \in Int
      /\ \A i \in places : f[i] = g[b[i]]
  OBVIOUS
<1> HIDE DEF b, held
<1>5. Sum(f, places) = Sum(g, held)
  BY <1>1, <1>3, <1>4, SumReindexed
<1>6. QED
  BY <1>5 DEF held

Similarity(E) == [c \in E |-> c.similarity]
SquareOf(E) == [c \in E |-> c.similarity * c.similarity]

\* The members that cost at most p.
Cheaper(E, p) == {c \in E : c.price <= p}

LEMMA StatisticsOfMembers ==
  ASSUME NEW s, Comparables(s)
  PROVE  LET E == Elements(s)
         IN  /\ IsFiniteSet(E) /\ Cardinality(E) = Len(s)
             /\ Total(s) = Sum(Similarity(E), E)
             /\ Squares(s) = Sum(SquareOf(E), E)
             /\ Prices(s) = {c.price : c \in E}
             /\ \A p : Mass(s, p) = Sum(Similarity(E), Cheaper(E, p))
<1> DEFINE E == Elements(s)
<1>1. /\ IsFiniteSet(DOMAIN s) /\ Cardinality(DOMAIN s) = Len(s)
      /\ E = {s[i] : i \in DOMAIN s}
  BY DomainOfASequence DEF Comparables, Elements
<1>m. ASSUME NEW i \in DOMAIN s
      PROVE  /\ s[i] \in E /\ s[i].similarity \in Int
             /\ s[i].similarity * s[i].similarity \in Int
  <2>1. s[i].similarity \in 0..100
    BY DEF Comparables
  <2>2. \A x \in 0..100 : x \in Int /\ x * x \in Int
    OBVIOUS
  <2>3. QED
    BY <1>1, <2>1, <2>2
<1>2. IsFiniteSet(E) /\ Cardinality(E) = Len(s)
  <2>1. [i \in DOMAIN s |-> s[i]] \in Bijection(DOMAIN s, E)
    BY <1>1 DEF Bijection, Injection, Surjection, IsInjective, Comparables
  <2>2. ExistsBijection(DOMAIN s, E)
    BY <2>1 DEF ExistsBijection
  <2>3. QED
    BY <1>1, <2>2, FS_Bijection
<1>3. Total(s) = Sum(Similarity(E), E)
  <2> DEFINE f == [i \in DOMAIN s |-> s[i].similarity]
  <2>1. Total(s) = Sum(f, DOMAIN s)
    BY SumOfFunction DEF Total
  <2> HIDE DEF E
  <2>2. \A i \in DOMAIN s : f[i] = Similarity(E)[s[i]] /\ f[i] \in Int
    BY <1>m DEF Similarity
  <2> HIDE DEF f
  <2>3. Sum(f, DOMAIN s) = Sum(Similarity(E), {s[i] : i \in DOMAIN s})
    BY <2>2, SumOverPlaces
  <2>4. QED
    BY <1>1, <2>1, <2>3
<1>4. Squares(s) = Sum(SquareOf(E), E)
  <2> DEFINE f == [i \in DOMAIN s |-> s[i].similarity * s[i].similarity]
  <2>1. Squares(s) = Sum(f, DOMAIN s)
    BY SumOfFunction DEF Squares
  <2> HIDE DEF E
  <2>2. \A i \in DOMAIN s : f[i] = SquareOf(E)[s[i]] /\ f[i] \in Int
    BY <1>m DEF SquareOf
  <2> HIDE DEF f
  <2>3. Sum(f, DOMAIN s) = Sum(SquareOf(E), {s[i] : i \in DOMAIN s})
    BY <2>2, SumOverPlaces
  <2>4. QED
    BY <1>1, <2>1, <2>3
<1>5. Prices(s) = {c.price : c \in E}
  BY <1>1 DEF Prices
<1>6. ASSUME NEW p
      PROVE  Mass(s, p) = Sum(Similarity(E), Cheaper(E, p))
  <2> DEFINE those == {j \in DOMAIN s : s[j].price <= p}
             f == [i \in those |-> s[i].similarity]
  <2>1. Mass(s, p) = Sum(f, those)
    BY SumOfFunction DEF Mass
  <2>3. those \in SUBSET DOMAIN s
    OBVIOUS
  <2>4. {s[i] : i \in those} = Cheaper(E, p)
    BY <1>1 DEF Cheaper
  <2> HIDE DEF E, those
  <2>2. \A i \in those : f[i] = Similarity(E)[s[i]] /\ f[i] \in Int
    BY <1>m, <2>3 DEF Similarity
  <2> HIDE DEF f
  <2>5. Sum(f, those) = Sum(Similarity(E), {s[i] : i \in those})
    BY <2>2, <2>3, SumOverPlaces
  <2>6. QED
    BY <2>1, <2>4, <2>5
<1>7. QED
  BY <1>2, <1>3, <1>4, <1>5, <1>6

\* So a permutation changes none of the statistics.
LEMMA SameMembers ==
  ASSUME NEW s, Comparables(s), NEW t, Comparables(t), Elements(s) = Elements(t)
  PROVE  /\ Len(s) = Len(t) /\ Total(s) = Total(t) /\ Squares(s) = Squares(t)
         /\ \A percent : /\ LeftQuantile(s, percent) = LeftQuantile(t, percent)
                         /\ RightQuantile(s, percent) = RightQuantile(t, percent)
         /\ Gates(s) <=> Gates(t)
<1>1. /\ Len(s) = Len(t) /\ Total(s) = Total(t) /\ Squares(s) = Squares(t)
      /\ Prices(s) = Prices(t)
      /\ \A p : Mass(s, p) = Mass(t, p)
  BY StatisticsOfMembers
<1>2. ASSUME NEW percent
      PROVE  /\ LeftQuantile(s, percent) = LeftQuantile(t, percent)
             /\ RightQuantile(s, percent) = RightQuantile(t, percent)
  <2>1. {p \in Prices(s) : 100 * Mass(s, p) >= percent * Total(s)}
          = {p \in Prices(t) : 100 * Mass(t, p) >= percent * Total(t)}
    BY <1>1
  <2>2. {p \in Prices(s) : 100 * Mass(s, p) > percent * Total(s)}
          = {p \in Prices(t) : 100 * Mass(t, p) > percent * Total(t)}
    BY <1>1
  <2>3. QED
    BY <2>1, <2>2 DEF LeftQuantile, RightQuantile
<1>3. QED
  BY <1>1, <1>2 DEF Gates

----------------------------------------------------------------------------
(* Sums of the first weights, in the order of the prices                   *)

Accumulates(sum, pairs, kind, n) ==
  sum = [k \in 0..n |->
           IF k = 0 THEN 0 ELSE Calculated(kind, sum[k - 1] + pairs[k].weight, 1)]

LEMMA CumulativeExists ==
  ASSUME NEW pairs, NEW kind, NEW n \in Nat
  PROVE  \E sum : Accumulates(sum, pairs, kind, n)
<1> DEFINE Sums(sum, m) == Accumulates(sum, pairs, kind, m)
           Good == {m \in Nat : \E sum : Sums(sum, m)}
<1>1. 0 \in Good
  <2> DEFINE sum == [k \in 0..0 |-> 0]
  <2>1. Sums(sum, 0)
    BY DEF Accumulates
  <2>2. QED
    BY <2>1
<1>2. ASSUME NEW m \in 1..n, m - 1 \in Good
      PROVE  m \in Good
  <2>1. PICK sum : Sums(sum, m - 1)
    BY <1>2
  <2> DEFINE next(h, k) ==
               IF k = 0 THEN 0 ELSE Calculated(kind, h[k - 1] + pairs[k].weight, 1)
             more == [k \in 0..m |-> next(sum, k)]
  <2>2. ASSUME NEW k \in 0..(m - 1) PROVE more[k] = sum[k]
    <3>1. k \in 0..m
      OBVIOUS
    <3>2. sum[k] = next(sum, k)
      BY <2>1 DEF Accumulates
    <3> HIDE DEF next
    <3>3. QED
      BY <3>1, <3>2
  <2>3. ASSUME NEW k \in 0..m PROVE next(more, k) = next(sum, k)
    <3>1. CASE k = 0
      BY <3>1
    <3>2. CASE k # 0
      <4>1. k - 1 \in 0..(m - 1)
        BY <3>2
      <4>2. more[k - 1] = sum[k - 1]
        BY <2>2, <4>1
      <4> HIDE DEF more
      <4>3. QED
        BY <4>2
    <3>3. QED
      BY <3>1, <3>2
  <2>4. more = [k \in 0..m |-> next(more, k)]
    <3> HIDE DEF next
    <3>1. QED
      BY <2>3
  <2>5. Sums(more, m)
    BY <2>4, Zenon DEF Accumulates
  <2> HIDE DEF more
  <2>6. QED
    BY <2>5
<1> HIDE DEF Good
<1>3. \A k \in 0..n : k \in Good
  BY <1>1, <1>2, CountingUp
<1>4. n \in Good
  BY <1>3
<1>5. QED
  BY <1>4 DEF Good

LEMMA CumulativeSteps ==
  ASSUME NEW pairs, Len(pairs) \in Nat, NEW kind
  PROVE  LET sum == Cumulative(pairs, kind)
         IN  /\ sum[0] = 0
             /\ \A k \in 1..Len(pairs) :
                  sum[k] = Calculated(kind, sum[k - 1] + pairs[k].weight, 1)
<1> DEFINE n == Len(pairs)
           Sums(sum) == Accumulates(sum, pairs, kind, n)
<1>1. \E sum : Sums(sum)
  BY CumulativeExists
<1>2. Cumulative(pairs, kind) = CHOOSE sum : Sums(sum)
  BY DEF Cumulative, Accumulates
<1> HIDE DEF Sums
<1>3. Sums(Cumulative(pairs, kind))
  BY <1>1, <1>2, Zenon
<1>4. \A k \in 1..n : k \in 0..n /\ k # 0
  OBVIOUS
<1>5. QED
  BY <1>3, <1>4 DEF Sums, Accumulates

----------------------------------------------------------------------------
\* The places in the order of their prices, and the first k of them.
Order(s) == Places(DOMAIN s, ByPrice(s))
Foremost(s, k) == {Order(s)[j] : j \in 1..k}
FirstMass(s, k) == Sum([i \in DOMAIN s |-> s[i].similarity], Foremost(s, k))
PriceAt(s, k) == s[Order(s)[k]].price

LEMMA OrderIsByPrice ==
  ASSUME NEW s, Comparables(s)
  PROVE  /\ Len(s) \in Nat /\ DOMAIN s = 1..Len(s) /\ IsFiniteSet(DOMAIN s)
         /\ Order(s) \in Bijection(1..Len(s), DOMAIN s)
         /\ \A k \in 1..Len(s) : Order(s)[k] \in DOMAIN s /\ PriceAt(s, k) \in Nat
         /\ \A j, k \in 1..Len(s) : j <= k => PriceAt(s, j) <= PriceAt(s, k)
<1>1. /\ Len(s) \in Nat /\ DOMAIN s = 1..Len(s)
      /\ IsFiniteSet(DOMAIN s) /\ Cardinality(DOMAIN s) = Len(s)
  BY DomainOfASequence DEF Comparables
<1>2. Orders(ByPrice(s), DOMAIN s)
  BY PricesAreOrdered
<1>3. /\ Order(s) \in Bijection(1..Len(s), DOMAIN s)
      /\ \A j, k \in 1..Len(s) : j < k => <<Order(s)[j], Order(s)[k]>> \in ByPrice(s)
  BY <1>1, <1>2, PlacesAreInOrder DEF Order
<1>4. \A k \in 1..Len(s) : Order(s)[k] \in DOMAIN s /\ PriceAt(s, k) \in Nat
  BY <1>3 DEF Bijection, Injection, PriceAt, Comparables
<1>5. ASSUME NEW j \in 1..Len(s), NEW k \in 1..Len(s), j <= k
      PROVE  PriceAt(s, j) <= PriceAt(s, k)
  <2>1. CASE j = k
    BY <1>4, <2>1
  <2>2. CASE j # k
    <3>1. <<Order(s)[j], Order(s)[k]>> \in ByPrice(s)
      BY <1>1, <1>3, <1>5, <2>2
    <3>2. \/ s[Order(s)[j]].price < s[Order(s)[k]].price
          \/ s[Order(s)[j]].price = s[Order(s)[k]].price
      BY <3>1 DEF ByPrice
    <3>3. QED
      BY <1>4, <3>2 DEF PriceAt
  <2>3. QED
    BY <2>1, <2>2
<1>6. QED
  BY <1>1, <1>3, <1>4, <1>5

LEMMA FirstMassGrows ==
  ASSUME NEW s, Comparables(s)
  PROVE  /\ FirstMass(s, 0) = 0
         /\ \A k \in 0..Len(s) : FirstMass(s, k) \in Nat
         /\ \A k \in 1..Len(s) :
              FirstMass(s, k) = FirstMass(s, k - 1) + s[Order(s)[k]].similarity
         /\ FirstMass(s, Len(s)) = Total(s)
<1> DEFINE n == Len(s)
           f == [i \in DOMAIN s |-> s[i].similarity]
<1>1. /\ n \in Nat /\ DOMAIN s = 1..n /\ IsFiniteSet(DOMAIN s)
      /\ Order(s) \in Bijection(1..n, DOMAIN s)
      /\ \A k \in 1..n : Order(s)[k] \in DOMAIN s
  BY OrderIsByPrice
<1>2. ASSUME NEW i \in DOMAIN s PROVE f[i] \in Nat
  <2>1. s[i].similarity \in 0..100
    BY DEF Comparables
  <2>2. QED
    BY <2>1
<1>3. Foremost(s, 0) = {}
  BY DEF Foremost
<1>4. ASSUME NEW k \in 0..n
      PROVE  Foremost(s, k) \in SUBSET DOMAIN s /\ IsFiniteSet(Foremost(s, k))
  <2>1. \A j \in 1..k : j \in 1..n
    BY <1>1
  <2>2. Foremost(s, k) \in SUBSET DOMAIN s
    BY <1>1, <2>1 DEF Foremost
  <2>3. QED
    BY <1>1, <2>2, FS_Subset
<1>5. ASSUME NEW k \in 1..n
      PROVE  /\ Order(s)[k] \in Foremost(s, k)
             /\ Foremost(s, k) \ {Order(s)[k]} = Foremost(s, k - 1)
  <2>1. \A j \in 1..k : j \in 1..n /\ (j # k => j \in 1..(k - 1))
    BY <1>1
  <2>2. \A j \in 1..(k - 1) : j \in 1..k /\ j # k
    BY <1>1
  <2>3. \A i, j \in 1..n : Order(s)[i] = Order(s)[j] => i = j
    BY <1>1 DEF Bijection, Injection, IsInjective
  <2>4. k \in 1..k
    BY <1>1
  <2>5. QED
    BY <2>1, <2>2, <2>3, <2>4 DEF Foremost
<1>6. Foremost(s, n) = DOMAIN s
  BY <1>1 DEF Foremost, Bijection, Injection, Surjection
<1>7. Total(s) = Sum(f, DOMAIN s)
  BY SumOfFunction DEF Total
<1> HIDE DEF f
<1>8. ASSUME NEW k \in 1..n
      PROVE  FirstMass(s, k) = FirstMass(s, k - 1) + s[Order(s)[k]].similarity
  <2>1. k \in 0..n /\ k - 1 \in 0..n
    BY <1>1
  <2>2. \A j \in {k, k - 1} : /\ IsFiniteSet(Foremost(s, j))
                              /\ \A i \in Foremost(s, j) : f[i] \in Int
    BY <1>2, <1>4, <2>1
  <2>3. Sum(f, Foremost(s, k)) = f[Order(s)[k]] + Sum(f, Foremost(s, k) \ {Order(s)[k]})
    BY <1>5, <2>2, SumTake
  <2>4. Sum(f, Foremost(s, k - 1)) \in Int
    BY <2>2, SumInt
  <2>5. f[Order(s)[k]] \in Int
    BY <1>1, <1>2
  <2>6. FirstMass(s, k) = Sum(f, Foremost(s, k))
        /\ FirstMass(s, k - 1) = Sum(f, Foremost(s, k - 1))
    BY DEF FirstMass, f
  <2>7. f[Order(s)[k]] = s[Order(s)[k]].similarity
    BY <1>1 DEF f
  <2>8. Sum(f, Foremost(s, k) \ {Order(s)[k]}) = Sum(f, Foremost(s, k - 1))
    BY <1>5, Zenon
  <2>9. QED
    BY <2>3, <2>4, <2>5, <2>6, <2>7, <2>8
<1>9. ASSUME NEW k \in 0..n PROVE FirstMass(s, k) \in Nat
  BY <1>2, <1>4, SumNat DEF FirstMass, f
<1>10. FirstMass(s, 0) = 0 /\ FirstMass(s, n) = Total(s)
  BY <1>3, <1>6, <1>7, SumEmpty DEF FirstMass, f
<1>11. QED
  BY <1>8, <1>9, <1>10

\* What costs at most p weighs at least as much as the first places that do, and
\* no more than the places before the first that costs more.
LEMMA MassIsBetween ==
  ASSUME NEW s, Comparables(s)
  PROVE  /\ \A p : Mass(s, p) \in Nat
         /\ \A k \in 1..Len(s) : FirstMass(s, k) <= Mass(s, PriceAt(s, k))
         /\ \A k \in 1..Len(s) : \A p \in Int :
              p < PriceAt(s, k) => Mass(s, p) <= FirstMass(s, k - 1)
<1> DEFINE n == Len(s)
           f == [i \in DOMAIN s |-> s[i].similarity]
           those(p) == {j \in DOMAIN s : s[j].price <= p}
<1>1. /\ n \in Nat /\ DOMAIN s = 1..n /\ IsFiniteSet(DOMAIN s)
      /\ Order(s) \in Bijection(1..n, DOMAIN s)
      /\ \A k \in 1..n : Order(s)[k] \in DOMAIN s /\ PriceAt(s, k) \in Nat
      /\ \A j, k \in 1..n : j <= k => PriceAt(s, j) <= PriceAt(s, k)
  BY OrderIsByPrice
<1>2. ASSUME NEW i \in DOMAIN s PROVE f[i] \in Nat
  <2>1. s[i].similarity \in 0..100
    BY DEF Comparables
  <2>2. QED
    BY <2>1
<1>3. ASSUME NEW p
      PROVE  Mass(s, p) = Sum(f, those(p))
  <2> DEFINE g == [i \in those(p) |-> s[i].similarity]
  <2>1. Mass(s, p) = Sum(g, those(p))
    BY SumOfFunction DEF Mass
  <2>2. \A i \in those(p) : g[i] = f[i]
    OBVIOUS
  <2>3. IsFiniteSet(those(p))
    BY <1>1, FS_Subset
  <2> HIDE DEF f, g, those
  <2>4. Sum(g, those(p)) = Sum(f, those(p))
    BY <2>2, <2>3, SumAgree
  <2>5. QED
    BY <2>1, <2>4
<1>4. \A p : those(p) \in SUBSET DOMAIN s
  OBVIOUS
<1>5. ASSUME NEW k \in 0..n
      PROVE  /\ Foremost(s, k) \in SUBSET DOMAIN s
             /\ FirstMass(s, k) = Sum(f, Foremost(s, k))
  <2>1. \A j \in 1..k : j \in 1..n
    BY <1>1
  <2>2. QED
    BY <1>1, <2>1 DEF Foremost, FirstMass
<1>6. ASSUME NEW T \in SUBSET DOMAIN s
      PROVE  IsFiniteSet(T) /\ (\A i \in T : f[i] \in Nat) /\ Sum(f, T) \in Nat
  <2> HIDE DEF f
  <2>1. QED
    BY <1>1, <1>2, FS_Subset, SumNat
<1>7. ASSUME NEW k \in 1..n
      PROVE  FirstMass(s, k) <= Mass(s, PriceAt(s, k))
  <2>1. k \in 0..n
    OBVIOUS
  <2>2. Foremost(s, k) \in SUBSET those(PriceAt(s, k))
    <3>1. ASSUME NEW j \in 1..k
          PROVE  Order(s)[j] \in those(PriceAt(s, k))
      <4>1. j \in 1..n /\ j <= k
        BY <1>1
      <4>2. PriceAt(s, j) <= PriceAt(s, k) /\ Order(s)[j] \in DOMAIN s
        BY <1>1, <4>1
      <4>3. QED
        BY <4>2 DEF PriceAt
    <3> HIDE DEF those
    <3>2. QED
      BY <3>1 DEF Foremost
  <2> HIDE DEF f, those
  <2>3. Sum(f, Foremost(s, k)) <= Sum(f, those(PriceAt(s, k)))
    BY <1>4, <1>6, <2>2, SumSubset
  <2>4. QED
    BY <1>3, <1>5, <2>1, <2>3
<1>8. ASSUME NEW k \in 1..n, NEW p \in Int, p < PriceAt(s, k)
      PROVE  Mass(s, p) <= FirstMass(s, k - 1)
  <2>1. k - 1 \in 0..n
    BY <1>1
  <2>2. those(p) \in SUBSET Foremost(s, k - 1)
    <3>1. ASSUME NEW i \in those(p)
          PROVE  i \in Foremost(s, k - 1)
      <4>1. PICK j \in 1..n : Order(s)[j] = i
        BY <1>1 DEF Bijection, Surjection
      <4>2. PriceAt(s, j) <= p
        BY <4>1 DEF PriceAt
      <4>3. ~(k <= j)
        <5>1. SUFFICES ASSUME k <= j PROVE FALSE
          OBVIOUS
        <5>2. PriceAt(s, k) <= PriceAt(s, j)
          BY <1>1, <5>1
        <5>3. PriceAt(s, k) \in Int /\ PriceAt(s, j) \in Int
          BY <1>1
        <5>4. QED
          BY <1>8, <4>2, <5>2, <5>3
      <4>4. j \in 1..(k - 1)
        BY <1>1, <4>3
      <4>5. QED
        BY <4>1, <4>4 DEF Foremost
    <3>2. QED
      BY <3>1
  <2> HIDE DEF f, those
  <2>3. Sum(f, those(p)) <= Sum(f, Foremost(s, k - 1))
    BY <1>5, <1>6, <2>1, <2>2, SumSubset
  <2>4. QED
    BY <1>3, <1>5, <2>1, <2>3
<1>9. \A p : Mass(s, p) \in Nat
  BY <1>3, <1>4, <1>6
<1>10. QED
  BY <1>7, <1>8, <1>9

LEMMA PricesAreListed ==
  ASSUME NEW s, Comparables(s)
  PROVE  /\ Prices(s) \in SUBSET (Nat \ {0})
         /\ \A k \in 1..Len(s) : PriceAt(s, k) \in Prices(s)
         /\ \A p \in Prices(s) : \E k \in 1..Len(s) : PriceAt(s, k) = p
<1>1. /\ Order(s) \in Bijection(1..Len(s), DOMAIN s)
      /\ \A k \in 1..Len(s) : Order(s)[k] \in DOMAIN s
  BY OrderIsByPrice
<1>2. \A i \in DOMAIN s : s[i].price \in Nat \ {0}
  BY DEF Comparables
<1>3. \A i \in DOMAIN s : \E k \in 1..Len(s) : Order(s)[k] = i
  BY <1>1 DEF Bijection, Surjection
<1>4. QED
  BY <1>1, <1>2, <1>3 DEF Prices, PriceAt

\* The two weighted quantiles.
LEMMA LeftQuantileIsLeast ==
  ASSUME NEW s, Comparables(s), Len(s) >= 1, NEW percent \in 1..99
  PROVE  /\ LeftQuantile(s, percent) \in Prices(s)
         /\ 100 * Mass(s, LeftQuantile(s, percent)) >= percent * Total(s)
         /\ \A p \in Prices(s) :
              100 * Mass(s, p) >= percent * Total(s) => LeftQuantile(s, percent) <= p
<1> DEFINE n == Len(s)
           those == {p \in Prices(s) : 100 * Mass(s, p) >= percent * Total(s)}
<1>1. n \in Nat /\ n \in 1..n
  BY OrderIsByPrice
<1>2. /\ Total(s) \in Nat /\ Mass(s, PriceAt(s, n)) \in Nat
      /\ Total(s) <= Mass(s, PriceAt(s, n))
  <2>1. n \in 0..n
    BY <1>1
  <2>2. FirstMass(s, n) = Total(s) /\ FirstMass(s, n) \in Nat
    BY <2>1, FirstMassGrows
  <2>3. QED
    BY <1>1, <2>2, MassIsBetween
<1>3. 100 * Mass(s, PriceAt(s, n)) >= percent * Total(s)
  <2>1. \A t, m \in Nat : \A q \in 1..99 : t <= m => q * t <= 100 * m
    <3>1. ASSUME NEW t \in Nat, NEW m \in Nat, NEW q \in 1..99, t <= m
          PROVE  q * t <= 100 * m
      <4>1. (100 - q) * t \in Nat /\ 100 * t = q * t + (100 - q) * t
        OBVIOUS
      <4>2. q * t \in Nat
        OBVIOUS
      <4>3. QED
        BY <3>1, <4>1, <4>2
    <3>2. QED
      BY <3>1
  <2>2. QED
    BY <1>2, <2>1
<1>4. PriceAt(s, n) \in Prices(s) /\ Prices(s) \in SUBSET Nat
  BY <1>1, PricesAreListed
<1>5. those \in SUBSET Nat /\ those # {}
  BY <1>3, <1>4
<1>6. Min(those) \in those /\ \A p \in those : Min(those) <= p
  BY <1>5, MinIsLeast
<1>7. LeftQuantile(s, percent) = Min(those)
  BY DEF LeftQuantile
<1>8. QED
  BY <1>6, <1>7

LEMMA RightQuantileIsLeast ==
  ASSUME NEW s, Comparables(s), Len(s) >= 1, Total(s) >= 1, NEW percent \in 1..99
  PROVE  /\ RightQuantile(s, percent) \in Prices(s)
         /\ 100 * Mass(s, RightQuantile(s, percent)) > percent * Total(s)
<1> DEFINE n == Len(s)
           those == {p \in Prices(s) : 100 * Mass(s, p) > percent * Total(s)}
<1>1. n \in Nat /\ n \in 1..n
  BY OrderIsByPrice
<1>2. /\ Total(s) \in Nat /\ Mass(s, PriceAt(s, n)) \in Nat
      /\ Total(s) <= Mass(s, PriceAt(s, n))
  <2>1. n \in 0..n
    BY <1>1
  <2>2. FirstMass(s, n) = Total(s) /\ FirstMass(s, n) \in Nat
    BY <2>1, FirstMassGrows
  <2>3. QED
    BY <1>1, <2>2, MassIsBetween
<1>3. 100 * Mass(s, PriceAt(s, n)) > percent * Total(s)
  <2>1. \A t, m \in Nat : \A q \in 1..99 : 1 <= t /\ t <= m => q * t < 100 * m
    <3>1. ASSUME NEW t \in Nat, NEW m \in Nat, NEW q \in 1..99, 1 <= t, t <= m
          PROVE  q * t < 100 * m
      <4>1. 100 * t = q * t + (100 - q) * t /\ (100 - q) \in Nat \ {0}
        OBVIOUS
      <4>2. \A a \in Nat \ {0} : a * t >= t
        <5>1. ASSUME NEW a \in Nat \ {0} PROVE a * t >= t
          <6>1. a * t = (a - 1) * t + t /\ (a - 1) * t \in Nat
            OBVIOUS
          <6>2. QED
            BY <6>1
        <5>2. QED
          BY <5>1
      <4>3. (100 - q) * t >= 1
        BY <3>1, <4>1, <4>2
      <4>4. q * t \in Nat /\ (100 - q) * t \in Int
        OBVIOUS
      <4>5. QED
        BY <3>1, <4>1, <4>3, <4>4
    <3>2. QED
      BY <3>1
  <2>2. QED
    BY <1>2, <2>1
<1>4. PriceAt(s, n) \in Prices(s) /\ Prices(s) \in SUBSET Nat
  BY <1>1, PricesAreListed
<1>5. those \in SUBSET Nat /\ those # {}
  BY <1>3, <1>4
<1>6. Min(those) \in those
  BY <1>5, MinIsLeast
<1>7. RightQuantile(s, percent) = Min(those)
  BY DEF RightQuantile
<1>8. QED
  BY <1>6, <1>7

----------------------------------------------------------------------------
(* The weighted percentile: the price at the first place where the weights *)
(* reach the threshold                                                     *)

LEMMA SortedHolds ==
  ASSUME NEW s, Comparables(s), NEW weights
  PROVE  LET pairs == Sorted(s, weights)
         IN  /\ Len(pairs) = Len(s) /\ DOMAIN pairs = 1..Len(s)
             /\ \A k \in 1..Len(s) : /\ pairs[k].price = PriceAt(s, k)
                                     /\ pairs[k].weight = weights[Order(s)[k]]
<1> DEFINE priced == [i \in DOMAIN s |-> [price |-> s[i].price, weight |-> weights[i]]]
           pairs == Sorted(s, weights)
           n == Len(s)
<1>1. /\ n \in Nat /\ Cardinality(DOMAIN s) = n
      /\ \A k \in 1..n : Order(s)[k] \in DOMAIN s
  BY OrderIsByPrice, DomainOfASequence DEF Comparables
<1>2. pairs = [k \in 1..n |-> priced[PlaceOf(k, DOMAIN s, ByPrice(s))]]
  <2> HIDE DEF priced, n
  <2>1. Arranged(priced, DOMAIN s, ByPrice(s))
          = [k \in 1..Cardinality(DOMAIN s) |-> priced[PlaceOf(k, DOMAIN s, ByPrice(s))]]
    BY Zenon DEF Arranged, PlaceOf, Rank, Ahead
  <2>2. QED
    BY <1>1, <2>1 DEF Sorted, priced
<1>3. \A k \in 1..n : Order(s)[k] = PlaceOf(k, DOMAIN s, ByPrice(s))
  BY <1>1 DEF Order, Places
<1>4. DOMAIN pairs = 1..n /\ \A k \in 1..n : pairs[k] = priced[Order(s)[k]]
  BY <1>2, <1>3
<1>5. Len(pairs) = n
  <2>1. pairs \in [1..n -> {pairs[k] : k \in 1..n}]
    BY <1>2
  <2> HIDE DEF pairs
  <2>2. pairs \in Seq({pairs[k] : k \in 1..n})
    BY <1>1, <2>1, SMTT(30)
  <2>3. QED
    BY <1>1, <1>4, <2>2, LenProperties
<1>6. ASSUME NEW k \in 1..n
      PROVE  pairs[k].price = PriceAt(s, k) /\ pairs[k].weight = weights[Order(s)[k]]
  <2>1. pairs[k] = priced[Order(s)[k]] /\ Order(s)[k] \in DOMAIN s
    BY <1>1, <1>4
  <2>2. QED
    BY <2>1 DEF PriceAt
<1>7. QED
  BY <1>4, <1>5, <1>6

SumTo(s, weights, kind) == Cumulative(Sorted(s, weights), kind)
Threshold(s, weights, percent, kind) ==
  Calculated(kind, percent * SumTo(s, weights, kind)[Len(s)], 100)

\* The first place to reach the threshold.
Point(s, weights, percent, kind) ==
  Min({k \in 1..Len(s) :
         SumTo(s, weights, kind)[k] >= Threshold(s, weights, percent, kind)} \cup {Len(s)})

LEMMA SumsToPlaces ==
  ASSUME NEW s, Comparables(s), NEW weights, NEW kind
  PROVE  LET sum == SumTo(s, weights, kind)
         IN  /\ sum[0] = 0
             /\ \A k \in 1..Len(s) :
                  sum[k] = Calculated(kind, sum[k - 1] + weights[Order(s)[k]], 1)
<1> DEFINE pairs == Sorted(s, weights)
<1>1. /\ Len(pairs) = Len(s) /\ Len(s) \in Nat
      /\ \A k \in 1..Len(s) : pairs[k].weight = weights[Order(s)[k]]
  BY SortedHolds, OrderIsByPrice
<1> HIDE DEF pairs
<1>2. LET sum == Cumulative(pairs, kind)
      IN  /\ sum[0] = 0
          /\ \A k \in 1..Len(pairs) :
               sum[k] = Calculated(kind, sum[k - 1] + pairs[k].weight, 1)
  BY <1>1, CumulativeSteps
<1>3. SumTo(s, weights, kind) = Cumulative(pairs, kind)
  BY DEF SumTo, pairs
<1>4. QED
  BY <1>1, <1>2, <1>3

LEMMA PercentileIsAtPoint ==
  ASSUME NEW s, Comparables(s), Len(s) >= 1, NEW weights, NEW percent, NEW kind
  PROVE  LET k == Point(s, weights, percent, kind)
             sum == SumTo(s, weights, kind)
             threshold == Threshold(s, weights, percent, kind)
         IN  /\ k \in 1..Len(s)
             /\ WeightedPercentile(s, weights, percent, kind) = PriceAt(s, k)
             /\ k = Len(s) \/ sum[k] >= threshold
             /\ \A j \in 1..Len(s) : j < k => ~(sum[j] >= threshold)
<1> DEFINE n == Len(s)
           k == Point(s, weights, percent, kind)
           sum == SumTo(s, weights, kind)
           threshold == Threshold(s, weights, percent, kind)
           pairs == Sorted(s, weights)
           reaching == {j \in 1..n : sum[j] >= threshold}
<1>1. /\ n \in Nat /\ Len(pairs) = n /\ DOMAIN pairs = 1..n
      /\ \A j \in 1..n : pairs[j].price = PriceAt(s, j)
  BY SortedHolds, OrderIsByPrice
<1>2. k = Min(reaching \cup {n})
  BY DEF Point
<1>3. WeightedPercentile(s, weights, percent, kind) = pairs[k].price
  <2> HIDE DEF pairs
  <2>1. sum = Cumulative(pairs, kind)
    BY DEF SumTo, pairs
  <2>2. threshold = Calculated(kind, percent * Cumulative(pairs, kind)[Len(pairs)], 100)
    BY <1>1, <2>1 DEF Threshold
  <2>3. WeightedPercentile(s, weights, percent, kind)
          = pairs[Min({j \in DOMAIN pairs : sum[j] >= threshold} \cup {Len(pairs)})].price
    BY <2>1, <2>2 DEF WeightedPercentile, pairs
  <2>4. {j \in DOMAIN pairs : sum[j] >= threshold} = reaching
    BY <1>1
  <2>5. QED
    BY <1>1, <1>2, <2>3, <2>4
<1>4. k \in reaching \cup {n} /\ \A j \in reaching \cup {n} : k <= j
  <2>1. reaching \cup {n} \in SUBSET Nat /\ reaching \cup {n} # {}
    BY <1>1
  <2>2. QED
    BY <1>2, <2>1, MinIsLeast, ZenonT(30)
<1>5. k \in 1..n
  <2>1. n \in 1..n
    BY <1>1
  <2> HIDE DEF k
  <2>2. QED
    BY <1>4, <2>1
<1>6. k = n \/ sum[k] >= threshold
  BY <1>4
<1> HIDE DEF k, sum, threshold
<1>7. ASSUME NEW j \in 1..n, j < k PROVE ~(sum[j] >= threshold)
  <2>1. SUFFICES ASSUME sum[j] >= threshold PROVE FALSE
    OBVIOUS
  <2>2. k <= j
    BY <1>4, <2>1
  <2>3. QED
    BY <1>1, <1>5, <1>7, <2>2
<1>8. WeightedPercentile(s, weights, percent, kind) = PriceAt(s, k)
  BY <1>1, <1>3, <1>5
<1>9. QED
  BY <1>5, <1>6, <1>7, <1>8 DEF k, sum, threshold

\* Of the exact sums: the percentile is the left-continuous quantile.
LEMMA ExactPercentile ==
  ASSUME NEW s, Comparables(s), Len(s) >= 1, NEW percent \in 1..99
  PROVE  WeightedPercentile(s, RawWeights(s), percent, "exact") = LeftQuantile(s, percent)
<1> DEFINE n == Len(s)
           k == Point(s, RawWeights(s), percent, "exact")
           sum == SumTo(s, RawWeights(s), "exact")
           threshold == Threshold(s, RawWeights(s), percent, "exact")
           least == LeftQuantile(s, percent)
           price == PriceAt(s, k)
<1>1. n \in Nat /\ DOMAIN s = 1..n /\ \A j \in 1..n : Order(s)[j] \in DOMAIN s
  BY OrderIsByPrice
<1>2. /\ \A j \in 0..n : FirstMass(s, j) \in Nat
      /\ FirstMass(s, 0) = 0 /\ FirstMass(s, n) = Total(s)
      /\ \A j \in 1..n : FirstMass(s, j) = FirstMass(s, j - 1) + s[Order(s)[j]].similarity
  BY FirstMassGrows
<1>3. ASSUME NEW j \in 0..n PROVE sum[j] = 100 * FirstMass(s, j)
  <2> DEFINE Good == {i \in 0..n : sum[i] = 100 * FirstMass(s, i)}
  <2>1. /\ sum[0] = 0
        /\ \A i \in 1..n :
             sum[i] = Calculated("exact", sum[i - 1] + RawWeights(s)[Order(s)[i]], 1)
    BY SumsToPlaces
  <2> HIDE DEF sum
  <2>2. 0 \in Good
    BY <1>1, <1>2, <2>1
  <2>3. ASSUME NEW i \in 1..n, i - 1 \in Good PROVE i \in Good
    <3>1. RawWeights(s)[Order(s)[i]] = 100 * s[Order(s)[i]].similarity
      BY <1>1 DEF RawWeights
    <3>2. s[Order(s)[i]].similarity \in Nat
      <4>1. Order(s)[i] \in DOMAIN s
        BY <1>1
      <4>2. s[Order(s)[i]].similarity \in 0..100
        BY <4>1 DEF Comparables
      <4>3. \A a \in 0..100 : a \in Nat
        OBVIOUS
      <4>4. QED
        BY <4>2, <4>3
    <3>3. i - 1 \in 0..n /\ i \in 0..n
      BY <1>1
    <3>4. FirstMass(s, i - 1) \in Nat /\ sum[i - 1] = 100 * FirstMass(s, i - 1)
      BY <1>2, <2>3, <3>3
    <3>5. sum[i] = (100 * FirstMass(s, i - 1) + 100 * s[Order(s)[i]].similarity) \div 1
      BY <2>1, <3>1, <3>4 DEF Calculated
    <3>6. \A a, b \in Nat : (100 * a + 100 * b) \div 1 = 100 * (a + b)
      OBVIOUS
    <3>7. sum[i] = 100 * (FirstMass(s, i - 1) + s[Order(s)[i]].similarity)
      BY <3>2, <3>4, <3>5, <3>6, ZenonT(30)
    <3>8. FirstMass(s, i) = FirstMass(s, i - 1) + s[Order(s)[i]].similarity
      BY <1>2
    <3>9. QED
      BY <3>3, <3>7, <3>8
  <2> HIDE DEF Good
  <2>4. \A i \in 0..n : i \in Good
    BY <1>1, <2>2, <2>3, CountingUp
  <2>5. QED
    BY <2>4 DEF Good
<1>4. Total(s) \in Nat /\ threshold = percent * Total(s)
  <2>1. n \in 0..n
    BY <1>1
  <2>2. sum[n] = 100 * Total(s) /\ Total(s) \in Nat
    BY <1>2, <1>3, <2>1
  <2>3. threshold = (percent * (100 * Total(s))) \div 100
    BY <2>2 DEF Threshold, Calculated
  <2>4. \A t \in Nat : (percent * (100 * t)) \div 100 = percent * t
    <3>1. ASSUME NEW t \in Nat
          PROVE  (percent * (100 * t)) \div 100 = percent * t
      <4>1. percent * (100 * t) = 100 * (percent * t) /\ percent * t \in Int
        OBVIOUS
      <4>2. \A a \in Int : (100 * a) \div 100 = a
        OBVIOUS
      <4>3. QED
        BY <4>1, <4>2
    <3>2. QED
      BY <3>1
  <2>5. QED
    BY <2>2, <2>3, <2>4
<1>5. /\ k \in 1..n
      /\ WeightedPercentile(s, RawWeights(s), percent, "exact") = price
      /\ k = n \/ sum[k] >= threshold
      /\ \A j \in 1..n : j < k => ~(sum[j] >= threshold)
  BY PercentileIsAtPoint
<1>6. /\ least \in Prices(s)
      /\ 100 * Mass(s, least) >= percent * Total(s)
      /\ \A p \in Prices(s) : 100 * Mass(s, p) >= percent * Total(s) => least <= p
  BY LeftQuantileIsLeast
<1>7. /\ Prices(s) \in SUBSET (Nat \ {0})
      /\ price \in Prices(s)
      /\ \E i \in 1..n : PriceAt(s, i) = least
  BY <1>5, <1>6, PricesAreListed
<1>8. /\ \A p : Mass(s, p) \in Nat
      /\ FirstMass(s, k) <= Mass(s, price)
      /\ \A p \in Int : p < price => Mass(s, p) <= FirstMass(s, k - 1)
  BY <1>5, MassIsBetween
<1>9. \A i \in 1..n : k <= i => price <= PriceAt(s, i)
  BY <1>5, OrderIsByPrice
<1> HIDE DEF k, sum, threshold, least, price
<1>10. least <= price
  <2>1. 100 * FirstMass(s, k) >= percent * Total(s)
    <3>1. k \in 0..n
      BY <1>5
    <3>2. CASE k = n
      <4>1. FirstMass(s, k) = Total(s)
        BY <1>2, <3>2
      <4>2. \A t \in Nat : \A q \in 1..99 : 100 * t >= q * t
        <5>1. ASSUME NEW t \in Nat, NEW q \in 1..99 PROVE 100 * t >= q * t
          <6>1. (100 - q) * t \in Nat /\ 100 * t = q * t + (100 - q) * t /\ q * t \in Int
            OBVIOUS
          <6>2. QED
            BY <6>1
        <5>2. QED
          BY <5>1
      <4>3. QED
        BY <1>4, <4>1, <4>2
    <3>3. CASE k # n
      BY <1>3, <1>4, <1>5, <3>1, <3>3
    <3>4. QED
      BY <3>2, <3>3
  <2>2. FirstMass(s, k) \in Nat /\ Mass(s, price) \in Nat
    BY <1>2, <1>5, <1>8
  <2>3. percent * Total(s) \in Int
    BY <1>4
  <2>4. 100 * Mass(s, price) >= percent * Total(s)
    BY <1>8, <2>1, <2>2, <2>3
  <2>5. QED
    BY <1>6, <1>7, <2>4
<1>11. ~(least < price)
  <2>1. SUFFICES ASSUME least < price PROVE FALSE
    OBVIOUS
  <2>2. least \in Int /\ price \in Int
    BY <1>6, <1>7
  <2>3. k # 1
    <3>1. SUFFICES ASSUME k = 1 PROVE FALSE
      OBVIOUS
    <3>2. PICK i \in 1..n : PriceAt(s, i) = least
      BY <1>7
    <3>3. price <= least
      BY <1>9, <3>1, <3>2
    <3>4. QED
      BY <2>1, <2>2, <3>3
  <2>4. k - 1 \in 1..n /\ k - 1 < k /\ k - 1 \in 0..n
    <3>1. n \in Nat /\ k \in 1..n /\ k # 1
      BY <1>1, <1>5, <2>3
    <3> HIDE DEF n
    <3>2. QED
      BY <3>1
  <2>5. ~(sum[k - 1] >= threshold)
    BY <1>5, <2>4
  <2>6. sum[k - 1] = 100 * FirstMass(s, k - 1) /\ FirstMass(s, k - 1) \in Nat
    BY <1>2, <1>3, <2>4
  <2>7. Mass(s, least) <= FirstMass(s, k - 1) /\ Mass(s, least) \in Nat
    BY <1>8, <2>1, <2>2
  <2>8. percent * Total(s) \in Int
    BY <1>4
  <2>9. QED
    BY <1>4, <1>6, <2>5, <2>6, <2>7, <2>8
<1>12. QED
  BY <1>5, <1>6, <1>7, <1>10, <1>11 DEF k, sum, threshold, least, price

----------------------------------------------------------------------------
(* The rounded sums: each weight and each addition is off by half of the   *)
(* last digit at most, and so many digits are kept that all of it together *)
(* weighs less than the least difference of two exact sums.                *)

\* The decimal context: with 28 digits Unit is 10^30 and a request has no more
\* than 50 comparables.
PrecisionSuffices == Unit >= 30000 * (1000 * (MaximumComparables * MaximumComparables))

LEMMA TimesKeepsOrder ==
  ASSUME NEW a \in Nat, NEW b \in Int, NEW c \in Int, b <= c
  PROVE  a * b \in Int /\ a * c \in Int /\ a * b <= a * c
<1>1. a * (c - b) \in Nat /\ a * c = a * b + a * (c - b)
  OBVIOUS
<1>2. a * b \in Int /\ a * c \in Int
  OBVIOUS
<1>3. QED
  BY <1>1, <1>2

LEMMA RoundedIsClose ==
  ASSUME NEW n \in Nat, NEW d \in Nat \ {0}
  PROVE  /\ Rounded(n, d) \in Nat
         /\ d * Rounded(n, d) <= n + 500 * d
         /\ n <= d * Rounded(n, d) + 500 * d
<1>1. PICK digit \in {1, 10, 100, 1000} : Rounded(n, d) = HalfUp(n, d * digit) * digit
  BY DEF Rounded
<1> DEFINE D == d * digit
           N == 2 * n + D
           E == 2 * D
           q == N \div E
<1>2. D \in Nat \ {0} /\ 2 * D \in Nat \ {0} /\ D <= 1000 * d /\ 2 * n + D \in Nat
  OBVIOUS
<1>3. HalfUp(n, D) = q
  BY DEF HalfUp
<1>4. Rounded(n, d) = q * digit
  BY <1>1, <1>3
<1> HIDE DEF D, q
<1>5. q \in Int /\ (2 * D) * q <= 2 * n + D /\ 2 * n + D < (2 * D) * q + 2 * D
  <2>1. N \in Int /\ E \in Nat \ {0}
    BY <1>2
  <2> HIDE DEF N, E
  <2>2. q \in Int /\ E * q <= N /\ N < E * q + E
    BY <2>1, Division DEF q
  <2>3. QED
    BY <2>2 DEF N, E
<1>6. (2 * D) * q = 2 * (D * q) /\ D * q \in Int
  BY <1>2, <1>5
<1>7. q >= 0
  <2>1. SUFFICES ASSUME q + 1 <= 0 PROVE FALSE
    BY <1>5
  <2>2. D * (q + 1) <= D * 0
    BY <1>2, <1>5, <2>1, TimesKeepsOrder
  <2>3. D * (q + 1) = D * q + D /\ D * 0 = 0
    BY <1>2, <1>5
  <2>4. QED
    BY <1>2, <1>5, <1>6, <2>2, <2>3
<1>8. d * (q * digit) = D * q
  <2>1. CASE digit = 1
    BY <1>5, <2>1 DEF D
  <2>2. CASE digit = 10
    BY <1>5, <2>2 DEF D
  <2>3. CASE digit = 100
    BY <1>5, <2>3 DEF D
  <2>4. CASE digit = 1000
    BY <1>5, <2>4 DEF D
  <2>5. QED
    BY <2>1, <2>2, <2>3, <2>4
<1>9. q * digit \in Nat
  BY <1>5, <1>7
<1>10. D * q <= n + 500 * d /\ n <= D * q + 500 * d
  BY <1>2, <1>5, <1>6
<1>11. QED
  BY <1>4, <1>8, <1>9, <1>10

\* The limits of the error, as products.
LEMMA ErrorsAreSmall ==
  ASSUME NEW unit \in Nat, NEW n \in Nat \ {0}, NEW total \in 1..(100 * n),
         unit >= 30000 * (1000 * (n * n)), NEW q \in 1..99
  PROVE  /\ n * total \in Nat /\ q * (n * total) \in Nat
         /\ 100000 * (n * total) + 1000 * (q * (n * total)) + 50000 * total < unit
<1> DEFINE w == n * total
           v == n * n
<1>1. w \in Nat /\ v \in Nat /\ v >= 1
  <2>1. n * 1 <= n * n
    BY TimesKeepsOrder
  <2>2. QED
    BY <2>1
<1>2. w <= 100 * v
  <2>1. n * total <= n * (100 * n)
    BY TimesKeepsOrder
  <2>2. n * (100 * n) = 100 * (n * n)
    OBVIOUS
  <2>3. QED
    BY <2>1, <2>2
<1>3. total <= w
  <2>1. total * 1 <= total * n
    BY TimesKeepsOrder
  <2>2. total * n = n * total /\ total * 1 = total
    OBVIOUS
  <2>3. QED
    BY <2>1, <2>2
<1>4. q * w \in Nat /\ q * w <= 99 * w
  <2>1. w * q <= w * 99
    BY <1>1, TimesKeepsOrder
  <2>2. w * q = q * w /\ w * 99 = 99 * w /\ q * w \in Nat
    BY <1>1
  <2>3. QED
    BY <2>1, <2>2
<1> HIDE DEF w, v
<1>5. 100000 * w + 1000 * (q * w) + 50000 * total < unit
  BY <1>1, <1>2, <1>3, <1>4 DEF v
<1>6. QED
  BY <1>1, <1>4, <1>5 DEF w

\* The rounded sum of the first k weights, next to the similarities.
LEMMA SumsAreClose ==
  ASSUME NEW s, Comparables(s), Total(s) >= 1
  PROVE  LET sum == SumTo(s, NormalizedWeights(s), "rounded")
         IN  \A k \in 0..Len(s) :
               /\ sum[k] \in Nat
               /\ Total(s) * sum[k] <= Unit * FirstMass(s, k) + 1000 * (k * Total(s))
               /\ Unit * FirstMass(s, k) <= Total(s) * sum[k] + 1000 * (k * Total(s))
<1> DEFINE n == Len(s)
           T == Total(s)
           sum == SumTo(s, NormalizedWeights(s), "rounded")
           Close(k) == /\ sum[k] \in Nat
                       /\ T * sum[k] <= Unit * FirstMass(s, k) + 1000 * (k * T)
                       /\ Unit * FirstMass(s, k) <= T * sum[k] + 1000 * (k * T)
           Good == {k \in 0..n : Close(k)}
<1>1. n \in Nat /\ DOMAIN s = 1..n /\ \A j \in 1..n : Order(s)[j] \in DOMAIN s
  BY OrderIsByPrice
<1>2. /\ \A j \in 0..n : FirstMass(s, j) \in Nat
      /\ FirstMass(s, 0) = 0 /\ FirstMass(s, n) = T
      /\ \A j \in 1..n : FirstMass(s, j) = FirstMass(s, j - 1) + s[Order(s)[j]].similarity
  BY FirstMassGrows
<1>3. T \in Nat \ {0}
  <2>1. n \in 0..n
    BY <1>1
  <2>2. QED
    BY <1>2, <2>1
<1>4. Unit \in Nat \ {0}
  BY ProfileConstants DEF ProfileConstants
<1>5. /\ sum[0] = 0
      /\ \A k \in 1..n :
           sum[k] = Calculated("rounded", sum[k - 1] + NormalizedWeights(s)[Order(s)[k]], 1)
  BY SumsToPlaces
<1> HIDE DEF sum, T
<1>6. 0 \in Good
  <2>1. T * 0 = 0 /\ Unit * 0 = 0 /\ 0 * T = 0
    BY <1>3, <1>4
  <2>2. QED
    BY <1>1, <1>2, <1>5, <2>1
<1>7. ASSUME NEW k \in 1..n, k - 1 \in Good PROVE k \in Good
  <2> DEFINE sim == s[Order(s)[k]].similarity
             weight == Rounded(Unit * sim, T)
             before == sum[k - 1]
             mass == FirstMass(s, k - 1)
  <2>1. sim \in Nat
    <3>1. Order(s)[k] \in DOMAIN s
      BY <1>1
    <3>2. sim \in 0..100
      BY <3>1 DEF Comparables
    <3>3. \A a \in 0..100 : a \in Nat
      OBVIOUS
    <3>4. QED
      BY <3>2, <3>3
  <2>2. NormalizedWeights(s)[Order(s)[k]] = weight
    BY <1>1 DEF NormalizedWeights, T
  <2>3. sum[k] = Rounded(before + weight, 1)
    BY <1>5, <2>2 DEF Calculated
  <2>4. k - 1 \in 0..n /\ k \in 0..n /\ k \in Nat \ {0}
    BY <1>1
  <2>5. FirstMass(s, k) = mass + sim /\ mass \in Nat
    BY <1>2, <2>4
  <2>6. Close(k - 1)
    BY <1>7
  <2> HIDE DEF sim, weight, before, mass
  <2>7. /\ weight \in Nat
        /\ T * weight <= Unit * sim + 500 * T /\ Unit * sim <= T * weight + 500 * T
    <3> DEFINE share == Unit * sim
    <3>1. share \in Nat
      BY <1>4, <2>1
    <3>2. weight = Rounded(share, T)
      BY DEF weight
    <3> HIDE DEF share, T
    <3>3. /\ Rounded(share, T) \in Nat
          /\ T * Rounded(share, T) <= share + 500 * T
          /\ share <= T * Rounded(share, T) + 500 * T
      BY <1>3, <3>1, RoundedIsClose, ZenonT(30)
    <3>4. QED
      BY <3>2, <3>3 DEF share
  <2>8. before \in Nat
    BY <2>6 DEF before
  <2>9. /\ sum[k] \in Nat
        /\ sum[k] <= (before + weight) + 500 /\ before + weight <= sum[k] + 500
    <3>1. before + weight \in Nat
      BY <2>7, <2>8
    <3> DEFINE added == before + weight
               rounded == Rounded(added, 1)
    <3>2. added \in Nat /\ 1 \in Nat \ {0}
      BY <3>1
    <3> HIDE DEF added, rounded
    <3>3. rounded \in Nat /\ 1 * rounded <= added + 500 * 1 /\ added <= 1 * rounded + 500 * 1
      <4>1. /\ Rounded(added, 1) \in Nat
            /\ 1 * Rounded(added, 1) <= added + 500 * 1
            /\ added <= 1 * Rounded(added, 1) + 500 * 1
        BY <3>2, RoundedIsClose, ZenonT(30)
      <4>2. QED
        BY <4>1 DEF rounded
    <3>4. rounded <= added + 500 /\ added <= rounded + 500
      BY <3>2, <3>3
    <3>5. QED
      BY <2>3, <3>3, <3>4 DEF added, rounded
  <2>10. /\ T * sum[k] <= T * ((before + weight) + 500)
         /\ T * (before + weight) <= T * (sum[k] + 500)
    BY <1>3, <2>7, <2>8, <2>9, TimesKeepsOrder, SMTT(30)
  <2>11. /\ T * ((before + weight) + 500) = (T * before + T * weight) + 500 * T
         /\ T * (before + weight) = T * before + T * weight
         /\ T * (sum[k] + 500) = T * sum[k] + 500 * T
         /\ Unit * (mass + sim) = Unit * mass + Unit * sim
         /\ (k - 1) * T = k * T - T
    BY <1>3, <1>4, <2>1, <2>4, <2>5, <2>7, <2>8, <2>9
  <2>12. /\ T * before <= Unit * mass + 1000 * ((k - 1) * T)
         /\ Unit * mass <= T * before + 1000 * ((k - 1) * T)
    BY <2>6 DEF before, mass
  <2>13. /\ T * before \in Int /\ T * weight \in Int /\ T * sum[k] \in Int
         /\ Unit * mass \in Int /\ Unit * sim \in Int /\ k * T \in Int
    BY <1>3, <1>4, <2>1, <2>4, <2>5, <2>7, <2>8, <2>9
  <2>14. /\ T * sum[k] <= Unit * (mass + sim) + 1000 * (k * T)
         /\ Unit * (mass + sim) <= T * sum[k] + 1000 * (k * T)
    <3> DEFINE kT == k * T
               less == (k - 1) * T
               sums == T * sum[k]
               sumsBefore == T * before
               share == T * weight
               exact == Unit * mass
               exactShare == Unit * sim
    <3>1. /\ less = kT - T
          /\ sums <= (sumsBefore + share) + 500 * T /\ sumsBefore + share <= sums + 500 * T
          /\ sumsBefore <= exact + 1000 * less /\ exact <= sumsBefore + 1000 * less
          /\ share <= exactShare + 500 * T /\ exactShare <= share + 500 * T
      BY <2>7, <2>10, <2>11, <2>12
    <3>2. /\ kT \in Int /\ sums \in Int /\ sumsBefore \in Int /\ share \in Int
          /\ exact \in Int /\ exactShare \in Int /\ T \in Int
      BY <1>3, <2>13
    <3> HIDE DEF kT, less, sums, sumsBefore, share, exact, exactShare
    <3>3. sums <= (exact + exactShare) + 1000 * kT /\ exact + exactShare <= sums + 1000 * kT
      BY <3>1, <3>2
    <3>4. QED
      BY <2>11, <3>3 DEF kT, sums, exact, exactShare
  <2>15. Close(k)
    BY <2>5, <2>9, <2>14
  <2>16. QED
    BY <2>4, <2>15
<1> HIDE DEF Good
<1>8. \A k \in 0..n : k \in Good
  BY <1>1, <1>6, <1>7, CountingUp
<1>9. \A k \in 0..n : Close(k)
  BY <1>8 DEF Good
<1>10. QED
  BY <1>9 DEF sum, T

\* A sum of rounded weights stays below the rounded threshold, or reaches it,
\* and how far it may be from the exact one.
Calibrated(unit, n, total, q) ==
  /\ unit \in Nat /\ n \in Nat \ {0} /\ total \in 1..(100 * n)
  /\ unit >= 30000 * (1000 * (n * n)) /\ q \in 1..99

StaysBelow(unit, n, total, q, whole, part, threshold, mass) ==
  /\ Calibrated(unit, n, total, q)
  /\ whole \in Int /\ part \in Int /\ threshold \in Int /\ mass \in Int
  /\ total * whole <= unit * total + 1000 * (n * total)
  /\ unit * mass <= total * part + 1000 * (n * total)
  /\ 100 * threshold <= q * whole + 50000
  /\ part < threshold

Reaches(unit, n, total, q, whole, part, threshold, mass) ==
  /\ Calibrated(unit, n, total, q)
  /\ whole \in Int /\ part \in Int /\ threshold \in Int /\ mass \in Int
  /\ unit * total <= total * whole + 1000 * (n * total)
  /\ total * part <= unit * mass + 1000 * (n * total)
  /\ q * whole <= 100 * threshold + 50000
  /\ threshold <= part

\* No sum of rounded weights is on the wrong side of a rounded threshold by as
\* much as one exact similarity.
LEMMA BelowMeansBelow ==
  ASSUME NEW unit, NEW n, NEW total, NEW q, NEW whole, NEW part, NEW threshold, NEW mass,
         StaysBelow(unit, n, total, q, whole, part, threshold, mass)
  PROVE  100 * mass <= q * total
<1> USE DEF StaysBelow, Calibrated
<1> SUFFICES ASSUME q * total + 1 <= 100 * mass PROVE FALSE
  <2>1. q * total \in Int /\ 100 * mass \in Int
    OBVIOUS
  <2>2. QED
    BY <2>1
<1> DEFINE w == n * total
           qT == q * total
<1>1. w \in Nat /\ q * w \in Nat /\ 100000 * w + 1000 * (q * w) + 50000 * total < unit
  BY ErrorsAreSmall
<1>2. qT \in Nat /\ total \in Nat \ {0} /\ unit * qT \in Int
  OBVIOUS
<1>3. unit * qT + unit <= 100 * (unit * mass)
  <2>1. unit * (qT + 1) <= unit * (100 * mass)
    <3>1. qT + 1 \in Int /\ 100 * mass \in Int
      BY <1>2
    <3>2. QED
      BY <3>1, TimesKeepsOrder
  <2>2. unit * (qT + 1) = unit * qT + unit /\ unit * (100 * mass) = 100 * (unit * mass)
    BY <1>2
  <2>3. QED
    BY <2>1, <2>2
<1>4. 100 * (total * threshold) <= q * (total * whole) + 50000 * total
  <2>1. total * (100 * threshold) <= total * (q * whole + 50000)
    <3>1. 100 * threshold \in Int /\ q * whole + 50000 \in Int
      OBVIOUS
    <3>2. QED
      BY <1>2, <3>1, TimesKeepsOrder
  <2>2. /\ total * (100 * threshold) = 100 * (total * threshold)
        /\ total * (q * whole + 50000) = q * (total * whole) + 50000 * total
    OBVIOUS
  <2>3. QED
    BY <2>1, <2>2
<1>5. q * (total * whole) <= unit * qT + 1000 * (q * w)
  <2>1. q * (total * whole) <= q * (unit * total + 1000 * w)
    <3>1. q \in Nat /\ total * whole \in Int /\ unit * total + 1000 * w \in Int
      BY <1>1
    <3>2. QED
      BY <3>1, TimesKeepsOrder
  <2>2. q * (unit * total + 1000 * w) = unit * qT + 1000 * (q * w)
    BY <1>1
  <2>3. QED
    BY <2>1, <2>2
<1>6. total * part + total <= total * threshold
  <2>1. total * (part + 1) <= total * threshold
    BY <1>2, TimesKeepsOrder
  <2>2. total * (part + 1) = total * part + total
    OBVIOUS
  <2>3. QED
    BY <2>1, <2>2
<1>7. /\ unit * mass \in Int /\ total * part \in Int /\ total * threshold \in Int
      /\ q * (total * whole) \in Int
  OBVIOUS
<1> DEFINE a == unit * mass
           b == total * part
           c == total * threshold
           d == q * (total * whole)
           e == unit * qT
           f == q * w
<1>8. /\ a <= b + 1000 * w /\ e + unit <= 100 * a /\ 100 * c <= d + 50000 * total
      /\ d <= e + 1000 * f /\ b + total <= c
      /\ 100000 * w + 1000 * f + 50000 * total < unit
  BY <1>1, <1>3, <1>4, <1>5, <1>6
<1>9. /\ a \in Int /\ b \in Int /\ c \in Int /\ d \in Int /\ e \in Int /\ f \in Int
      /\ w \in Int /\ total \in Nat /\ unit \in Int
  BY <1>1, <1>2, <1>7
<1> HIDE DEF a, b, c, d, e, f, w
<1>10. QED
  BY <1>8, <1>9

LEMMA ReachesMeansReaches ==
  ASSUME NEW unit, NEW n, NEW total, NEW q, NEW whole, NEW part, NEW threshold, NEW mass,
         Reaches(unit, n, total, q, whole, part, threshold, mass)
  PROVE  q * total <= 100 * mass
<1> USE DEF Reaches, Calibrated
<1> SUFFICES ASSUME 100 * mass + 1 <= q * total PROVE FALSE
  <2>1. q * total \in Int /\ 100 * mass \in Int
    OBVIOUS
  <2>2. QED
    BY <2>1
<1> DEFINE w == n * total
           qT == q * total
<1>1. w \in Nat /\ q * w \in Nat /\ 100000 * w + 1000 * (q * w) + 50000 * total < unit
  BY ErrorsAreSmall
<1>2. qT \in Nat /\ total \in Nat \ {0} /\ unit * qT \in Int
  OBVIOUS
<1>3. 100 * (unit * mass) + unit <= unit * qT
  <2>1. unit * (100 * mass + 1) <= unit * qT
    <3>1. qT \in Int /\ 100 * mass + 1 \in Int
      BY <1>2
    <3>2. QED
      BY <3>1, TimesKeepsOrder
  <2>2. unit * (100 * mass + 1) = 100 * (unit * mass) + unit
    OBVIOUS
  <2>3. QED
    BY <2>1, <2>2
<1>4. q * (total * whole) <= 100 * (total * threshold) + 50000 * total
  <2>1. total * (q * whole) <= total * (100 * threshold + 50000)
    <3>1. 100 * threshold + 50000 \in Int /\ q * whole \in Int
      OBVIOUS
    <3>2. QED
      BY <1>2, <3>1, TimesKeepsOrder
  <2>2. /\ total * (100 * threshold + 50000) = 100 * (total * threshold) + 50000 * total
        /\ total * (q * whole) = q * (total * whole)
    OBVIOUS
  <2>3. QED
    BY <2>1, <2>2
<1>5. unit * qT <= q * (total * whole) + 1000 * (q * w)
  <2>1. q * (unit * total) <= q * (total * whole + 1000 * w)
    <3>1. q \in Nat /\ unit * total \in Int /\ total * whole + 1000 * w \in Int
      BY <1>1
    <3>2. QED
      BY <3>1, TimesKeepsOrder
  <2>2. /\ q * (total * whole + 1000 * w) = q * (total * whole) + 1000 * (q * w)
        /\ q * (unit * total) = unit * qT
    BY <1>1
  <2>3. QED
    BY <2>1, <2>2
<1>6. total * threshold <= total * part
  BY <1>2, TimesKeepsOrder
<1>7. /\ unit * mass \in Int /\ total * part \in Int /\ total * threshold \in Int
      /\ q * (total * whole) \in Int
  OBVIOUS
<1> DEFINE a == unit * mass
           b == total * part
           c == total * threshold
           d == q * (total * whole)
           e == unit * qT
           f == q * w
<1>8. /\ b <= a + 1000 * w /\ 100 * a + unit <= e /\ d <= 100 * c + 50000 * total
      /\ e <= d + 1000 * f /\ c <= b
      /\ 100000 * w + 1000 * f + 50000 * total < unit
  BY <1>1, <1>3, <1>4, <1>5, <1>6
<1>9. /\ a \in Int /\ b \in Int /\ c \in Int /\ d \in Int /\ e \in Int /\ f \in Int
      /\ w \in Int /\ total \in Nat /\ unit \in Int
  BY <1>1, <1>2, <1>7
<1> HIDE DEF a, b, c, d, e, f, w
<1>10. QED
  BY <1>8, <1>9

LEMMA TotalIsBounded ==
  ASSUME NEW s, Comparables(s)
  PROVE  Total(s) \in Nat /\ Total(s) <= 100 * Len(s)
<1> DEFINE n == Len(s)
           f == [i \in DOMAIN s |-> s[i].similarity]
           h == [i \in DOMAIN s |-> 100]
<1>1. n \in Nat /\ IsFiniteSet(DOMAIN s) /\ Cardinality(DOMAIN s) = n
  BY DomainOfASequence DEF Comparables
<1>2. Total(s) = Sum(f, DOMAIN s)
  BY SumOfFunction DEF Total
<1>3. ASSUME NEW i \in DOMAIN s
      PROVE  f[i] \in Nat /\ f[i] \in Int /\ h[i] \in Int /\ h[i] = 100 /\ f[i] <= h[i]
  <2>1. s[i].similarity \in 0..100
    BY DEF Comparables
  <2>2. \A a \in 0..100 : a \in Nat /\ a \in Int /\ a <= 100
    OBVIOUS
  <2>3. s[i].similarity \in Nat /\ s[i].similarity \in Int /\ s[i].similarity <= 100
    BY <2>1, <2>2
  <2>4. QED
    BY <2>3
<1> HIDE DEF f, h
<1>4. Sum(f, DOMAIN s) \in Nat /\ Sum(f, DOMAIN s) <= Sum(h, DOMAIN s)
  BY <1>1, <1>3, SumNat, SumAtMost
<1>5. Sum(h, DOMAIN s) = 100 * Cardinality(DOMAIN s)
  <2> DEFINE hundred == 100
  <2>1. hundred \in Int /\ \A i \in DOMAIN s : h[i] = hundred
    BY DEF h
  <2> HIDE DEF hundred
  <2>2. Sum(h, DOMAIN s) = hundred * Cardinality(DOMAIN s)
    BY <1>1, <2>1, SumConstant
  <2>3. QED
    BY <2>2 DEF hundred
<1>6. QED
  BY <1>1, <1>2, <1>4, <1>5

\* The premises of the lemmas on rounded sums.
Weighable(s) ==
  /\ Comparables(s) /\ Len(s) \in 1..MaximumComparables /\ Total(s) >= 1

LEMMA WeighableIsTyped ==
  ASSUME NEW s, Weighable(s), PrecisionSuffices
  PROVE  /\ Len(s) \in Nat \ {0} /\ Unit \in Nat \ {0}
         /\ Total(s) \in 1..(100 * Len(s))
         /\ Unit >= 30000 * (1000 * (Len(s) * Len(s)))
<1> DEFINE n == Len(s)
           M == MaximumComparables
<1>1. M \in Nat /\ Unit \in Nat \ {0} /\ n \in 1..M
  BY ProfileConstants DEF ProfileConstants, Weighable
<1>2. n * n <= M * M
  <2>1. n * n <= n * M /\ M * n <= M * M
    BY <1>1, TimesKeepsOrder
  <2>2. n * M = M * n /\ n * n \in Int /\ n * M \in Int /\ M * M \in Int
    BY <1>1
  <2>3. QED
    BY <2>1, <2>2
<1>3. Total(s) \in Nat /\ Total(s) <= 100 * n /\ Total(s) >= 1
  BY TotalIsBounded DEF Weighable
<1>4. Unit >= 30000 * (1000 * (M * M)) /\ n * n \in Int /\ M * M \in Int
  BY <1>1 DEF PrecisionSuffices
<1> HIDE DEF n, M
<1>5. Unit >= 30000 * (1000 * (n * n))
  BY <1>1, <1>2, <1>4
<1>6. n \in Nat \ {0} /\ Total(s) \in 1..(100 * n)
  <2>1. n \in Nat \ {0}
    BY <1>1
  <2>2. QED
    BY <1>3, <2>1
<1>7. QED
  BY <1>1, <1>5, <1>6 DEF n

\* The sums and the threshold of a rounded percentile.
RoundedSum(s) == SumTo(s, NormalizedWeights(s), "rounded")
RoundedThreshold(s, percent) == Threshold(s, NormalizedWeights(s), percent, "rounded")
RoundedPercentile(s, percent) ==
  WeightedPercentile(s, NormalizedWeights(s), percent, "rounded")
RoundedPoint(s, percent) == Point(s, NormalizedWeights(s), percent, "rounded")

ThresholdClose(whole, threshold, percent) ==
  /\ whole \in Nat /\ threshold \in Nat
  /\ 100 * threshold <= percent * whole + 50000
  /\ percent * whole <= 100 * threshold + 50000

LEMMA ThresholdIsClose ==
  ASSUME NEW s, Weighable(s), NEW percent \in 1..99
  PROVE  ThresholdClose(RoundedSum(s)[Len(s)], RoundedThreshold(s, percent), percent)
<1> DEFINE whole == RoundedSum(s)[Len(s)]
           threshold == RoundedThreshold(s, percent)
           exact == percent * whole
<1>1. whole \in Nat
  <2>1. Len(s) \in 0..Len(s)
    BY OrderIsByPrice DEF Weighable
  <2>2. QED
    BY <2>1, SumsAreClose DEF Weighable, RoundedSum
<1>2. threshold = Rounded(exact, 100)
  BY DEF RoundedThreshold, RoundedSum, Threshold, Calculated
<1>3. exact \in Nat /\ 100 \in Nat \ {0}
  BY <1>1
<1> HIDE DEF whole, threshold, exact
<1>4. /\ threshold \in Nat
      /\ 100 * threshold <= exact + 500 * 100 /\ exact <= 100 * threshold + 500 * 100
  BY <1>2, <1>3, RoundedIsClose
<1>5. 100 * threshold <= exact + 50000 /\ exact <= 100 * threshold + 50000
  BY <1>3, <1>4
<1>6. QED
  BY <1>1, <1>4, <1>5 DEF ThresholdClose, whole, threshold, exact

LEMMA SumsAreCloseEnough ==
  ASSUME NEW s, Weighable(s), PrecisionSuffices, NEW k \in 0..Len(s)
  PROVE  /\ RoundedSum(s)[k] \in Nat /\ FirstMass(s, k) \in Nat
         /\ Total(s) * RoundedSum(s)[k]
              <= Unit * FirstMass(s, k) + 1000 * (Len(s) * Total(s))
         /\ Unit * FirstMass(s, k)
              <= Total(s) * RoundedSum(s)[k] + 1000 * (Len(s) * Total(s))
<1> DEFINE n == Len(s)
           T == Total(s)
           sum == RoundedSum(s)[k]
           mass == FirstMass(s, k)
<1>1. n \in Nat /\ T \in Nat /\ Unit \in Nat
  BY WeighableIsTyped
<1>2. /\ sum \in Nat
      /\ T * sum <= Unit * mass + 1000 * (k * T)
      /\ Unit * mass <= T * sum + 1000 * (k * T)
  BY SumsAreClose DEF Weighable, RoundedSum
<1>3. mass \in Nat
  BY FirstMassGrows DEF Weighable
<1>4. k * T <= n * T
  <2>1. T * k <= T * n
    BY <1>1, TimesKeepsOrder
  <2>2. T * k = k * T /\ T * n = n * T
    BY <1>1
  <2>3. QED
    BY <2>1, <2>2
<1> HIDE DEF n, T, sum, mass
<1>5. /\ k * T \in Int /\ n * T \in Int
      /\ T * sum \in Int /\ Unit * mass \in Int
  <2>1. k * T \in Int /\ n * T \in Int
    BY <1>1
  <2>2. T * sum \in Int
    BY <1>1, <1>2
  <2>3. Unit * mass \in Int
    BY <1>1, <1>3
  <2>4. QED
    BY <2>1, <2>2, <2>3
<1>6. T * sum <= Unit * mass + 1000 * (n * T) /\ Unit * mass <= T * sum + 1000 * (n * T)
  BY <1>2, <1>4, <1>5
<1>7. QED
  BY <1>2, <1>3, <1>6 DEF n, T, sum, mass

LEMMA RoundedIsBetween ==
  ASSUME NEW s, Weighable(s), PrecisionSuffices, NEW percent \in 1..99
  PROVE  LET price == RoundedPercentile(s, percent)
         IN  /\ price \in Prices(s)
             /\ LeftQuantile(s, percent) <= price
             /\ price <= RightQuantile(s, percent)
<1> DEFINE n == Len(s)
           k == RoundedPoint(s, percent)
           sum == RoundedSum(s)
           threshold == RoundedThreshold(s, percent)
           price == RoundedPercentile(s, percent)
           right == RightQuantile(s, percent)
           total == Total(s)
<1>c. Comparables(s) /\ n >= 1 /\ total >= 1
  BY WeighableIsTyped DEF Weighable
<1>1. /\ n \in Nat \ {0} /\ Unit \in Nat /\ total \in 1..(100 * n)
      /\ Unit >= 30000 * (1000 * (n * n))
  BY WeighableIsTyped
<1>2. /\ k \in 1..n /\ price = PriceAt(s, k)
      /\ k = n \/ sum[k] >= threshold
      /\ \A j \in 1..n : j < k => ~(sum[j] >= threshold)
  BY <1>c, PercentileIsAtPoint DEF RoundedPoint, RoundedSum, RoundedThreshold, RoundedPercentile
<1>3. /\ right \in Prices(s) /\ 100 * Mass(s, right) > percent * total
  BY <1>c, RightQuantileIsLeast
<1>4. /\ Prices(s) \in SUBSET (Nat \ {0}) /\ price \in Prices(s)
      /\ \E i \in 1..n : PriceAt(s, i) = right
  BY <1>c, <1>2, <1>3, PricesAreListed
<1>5. /\ \A p : Mass(s, p) \in Nat
      /\ FirstMass(s, k) <= Mass(s, price)
      /\ \A p \in Int : p < price => Mass(s, p) <= FirstMass(s, k - 1)
  BY <1>c, <1>2, MassIsBetween
<1>6. \A i \in 1..n : k <= i => price <= PriceAt(s, i)
  BY <1>c, <1>2, OrderIsByPrice
<1>7. FirstMass(s, n) = total /\ FirstMass(s, 0) = 0
  BY <1>c, FirstMassGrows
<1>8. /\ sum[n] \in Nat /\ threshold \in Nat
      /\ 100 * threshold <= percent * sum[n] + 50000
      /\ percent * sum[n] <= 100 * threshold + 50000
  <2>1. ThresholdClose(sum[n], threshold, percent)
    BY ThresholdIsClose
  <2>2. QED
    BY <2>1 DEF ThresholdClose
<1>9. ASSUME NEW j \in 0..n
      PROVE  /\ sum[j] \in Nat /\ FirstMass(s, j) \in Nat
             /\ total * sum[j] <= Unit * FirstMass(s, j) + 1000 * (n * total)
             /\ Unit * FirstMass(s, j) <= total * sum[j] + 1000 * (n * total)
  BY SumsAreCloseEnough
<1> HIDE DEF n, k, sum, threshold, price, right, total
<1>10. n \in 0..n
  BY <1>1
<1>11. /\ total * sum[n] <= Unit * total + 1000 * (n * total)
       /\ Unit * total <= total * sum[n] + 1000 * (n * total)
  BY <1>7, <1>9, <1>10
<1>12. LeftQuantile(s, percent) <= price
  <2>1. percent * total <= 100 * Mass(s, price)
    <3>1. Mass(s, price) \in Nat /\ k \in 0..n
      BY <1>2, <1>5
    <3>2. FirstMass(s, k) \in Nat /\ sum[k] \in Nat
      BY <1>9, <3>1
    <3>3. CASE k = n
      <4>1. total <= Mass(s, price)
        BY <1>5, <1>7, <3>3
      <4>2. total \in Nat
        BY <1>1
      <4>3. percent * total <= 100 * total
        <5>1. total * percent <= total * 100
          BY <4>2, TimesKeepsOrder
        <5>2. total * percent = percent * total /\ total * 100 = 100 * total
          BY <4>2
        <5>3. QED
          BY <5>1, <5>2
      <4>4. percent * total \in Int
        BY <4>2
      <4>5. QED
        BY <3>1, <4>1, <4>2, <4>3, <4>4
    <3>4. CASE k # n
      <4> DEFINE mass == FirstMass(s, k)
                 part == sum[k]
                 whole == sum[n]
      <4>1. threshold <= part
        BY <1>2, <1>8, <3>2, <3>4
      <4>2. total * part <= Unit * mass + 1000 * (n * total)
        BY <1>9, <3>1
      <4>3. mass \in Int /\ part \in Int /\ whole \in Int /\ threshold \in Int
        BY <1>8, <3>2
      <4>4. /\ Unit * total <= total * whole + 1000 * (n * total)
            /\ percent * whole <= 100 * threshold + 50000
        BY <1>8, <1>11
      <4>5. mass <= Mass(s, price)
        BY <1>5
      <4> HIDE DEF mass, part, whole
      <4>6. percent * total <= 100 * mass
        <5>1. Reaches(Unit, n, total, percent, whole, part, threshold, mass)
          BY <1>1, <4>1, <4>2, <4>3, <4>4 DEF Reaches, Calibrated
        <5>2. QED
          BY <5>1, ReachesMeansReaches
      <4>7. percent * total \in Int
        BY <1>1
      <4>8. QED
        BY <3>1, <4>3, <4>5, <4>6, <4>7
    <3>5. QED
      BY <3>3, <3>4
  <2>2. 100 * Mass(s, price) >= percent * total
    <3>1. Mass(s, price) \in Nat /\ percent * total \in Int
      BY <1>1, <1>5
    <3>2. QED
      BY <2>1, <3>1
  <2>3. \A p \in Prices(s) :
          100 * Mass(s, p) >= percent * total => LeftQuantile(s, percent) <= p
    BY <1>c, LeftQuantileIsLeast DEF n, total
  <2>4. QED
    BY <1>4, <2>2, <2>3
<1>13. ~(right < price)
  <2>1. SUFFICES ASSUME right < price PROVE FALSE
    OBVIOUS
  <2>2. right \in Int /\ price \in Int
    BY <1>3, <1>4
  <2>3. k # 1
    <3>1. SUFFICES ASSUME k = 1 PROVE FALSE
      OBVIOUS
    <3>2. PICK i \in 1..n : PriceAt(s, i) = right
      BY <1>4
    <3>3. price <= right
      BY <1>6, <3>1, <3>2
    <3>4. QED
      BY <2>1, <2>2, <3>3
  <2>4. k - 1 \in 1..n /\ k - 1 < k /\ k - 1 \in 0..n
    BY <1>1, <1>2, <2>3
  <2> DEFINE mass == FirstMass(s, k - 1)
             part == sum[k - 1]
             whole == sum[n]
  <2>5. ~(part >= threshold)
    BY <1>2, <2>4
  <2>6. mass \in Nat /\ part \in Nat /\ Unit * mass <= total * part + 1000 * (n * total)
    BY <1>9, <2>4
  <2>7. /\ total * whole <= Unit * total + 1000 * (n * total)
        /\ 100 * threshold <= percent * whole + 50000
        /\ whole \in Int /\ threshold \in Int
    BY <1>8, <1>11
  <2>8. Mass(s, right) <= mass /\ Mass(s, right) \in Nat
    BY <1>5, <2>1, <2>2
  <2> HIDE DEF mass, part, whole
  <2>9. part < threshold /\ part \in Int /\ mass \in Int
    BY <2>5, <2>6, <2>7
  <2>10. 100 * mass <= percent * total
    <3>1. StaysBelow(Unit, n, total, percent, whole, part, threshold, mass)
      BY <1>1, <2>6, <2>7, <2>9 DEF StaysBelow, Calibrated
    <3>2. QED
      BY <3>1, BelowMeansBelow
  <2>11. percent * total \in Int
    BY <1>1
  <2>12. QED
    BY <1>3, <2>6, <2>8, <2>10, <2>11
<1>14. price <= right
  BY <1>3, <1>4, <1>13
<1>15. QED
  BY <1>4, <1>12, <1>14 DEF price, right

LEMMA RoundedAreOrdered ==
  ASSUME NEW s, Weighable(s), PrecisionSuffices,
         NEW low \in 1..99, NEW high \in 1..99, low + 25 <= high
  PROVE  RoundedPercentile(s, low) <= RoundedPercentile(s, high)
<1> DEFINE n == Len(s)
           i == RoundedPoint(s, low)
           j == RoundedPoint(s, high)
           sum == RoundedSum(s)
           T == Total(s)
           first == RoundedThreshold(s, low)
           second == RoundedThreshold(s, high)
           whole == sum[n]
<1>c. Comparables(s) /\ n >= 1
  BY WeighableIsTyped DEF Weighable
<1>1. /\ n \in Nat \ {0} /\ Unit \in Nat /\ T \in 1..(100 * n)
      /\ Unit >= 30000 * (1000 * (n * n))
  BY WeighableIsTyped
<1>2. /\ i \in 1..n /\ RoundedPercentile(s, low) = PriceAt(s, i)
      /\ \A k \in 1..n : k < i => ~(sum[k] >= first)
  BY <1>c, PercentileIsAtPoint DEF RoundedPoint, RoundedSum, RoundedThreshold, RoundedPercentile
<1>3. /\ j \in 1..n /\ RoundedPercentile(s, high) = PriceAt(s, j)
      /\ j = n \/ sum[j] >= second
  BY <1>c, PercentileIsAtPoint DEF RoundedPoint, RoundedSum, RoundedThreshold, RoundedPercentile
<1>4. /\ whole \in Nat /\ first \in Nat
      /\ 100 * first <= low * whole + 50000
  <2>1. ThresholdClose(whole, first, low)
    BY ThresholdIsClose
  <2>2. QED
    BY <2>1 DEF ThresholdClose
<1>5. /\ second \in Nat
      /\ high * whole <= 100 * second + 50000
  <2>1. ThresholdClose(whole, second, high)
    BY ThresholdIsClose
  <2>2. QED
    BY <2>1 DEF ThresholdClose
<1>6. \A k \in 0..n :
        /\ sum[k] \in Nat
        /\ Unit * FirstMass(s, k) <= T * sum[k] + 1000 * (n * T)
  BY SumsAreCloseEnough
<1>7. FirstMass(s, n) = T
  BY <1>c, FirstMassGrows
<1>8. \A k, l \in 1..n : k <= l => PriceAt(s, k) <= PriceAt(s, l)
  BY <1>c, OrderIsByPrice
<1> HIDE DEF n, i, j, sum, T, first, second
<1>9. Unit * T <= T * whole + 1000 * (n * T)
  <2>1. n \in 0..n
    BY <1>1
  <2>2. QED
    BY <1>6, <1>7, <2>1
<1>10. whole >= 4000
  <2>1. SUFFICES ASSUME whole + 1000 * n + 1 <= Unit PROVE FALSE
    <3>1. n * 1 <= n * n
      BY <1>1, TimesKeepsOrder
    <3>2. n * n \in Nat
      BY <1>1
    <3> DEFINE square == n * n
    <3> HIDE DEF square
    <3>3. n <= square /\ square \in Nat /\ Unit >= 30000 * (1000 * square)
      BY <1>1, <3>1, <3>2 DEF square
    <3>4. Unit >= 30000 * (1000 * n)
      BY <1>1, <3>3
    <3> HIDE DEF whole
    <3>5. QED
      BY <1>1, <1>4, <3>4
  <2> HIDE DEF whole
  <2>2. T * (whole + 1000 * n + 1) <= T * Unit
    BY <1>1, <1>4, <2>1, TimesKeepsOrder
  <2>3. T * (whole + 1000 * n + 1) = T * whole + 1000 * (n * T) + T /\ T * Unit = Unit * T
    BY <1>1, <1>4
  <2>4. T * whole \in Int /\ n * T \in Int /\ Unit * T \in Int /\ T \in Nat \ {0}
    BY <1>1, <1>4
  <2>5. QED
    BY <1>9, <2>2, <2>3, <2>4
<1> HIDE DEF whole
<1>11. first <= second
  <2>1. whole * (low + 25) <= whole * high
    BY <1>4, TimesKeepsOrder
  <2>2. /\ whole * (low + 25) = low * whole + 25 * whole
        /\ whole * high = high * whole
        /\ low * whole \in Int /\ high * whole \in Int
    BY <1>4
  <2>3. low * whole + 25 * whole <= high * whole
    BY <2>1, <2>2
  <2>4. QED
    BY <1>4, <1>5, <1>10, <2>2, <2>3
<1>12. ~(j < i)
  <2>1. SUFFICES ASSUME j < i PROVE FALSE
    OBVIOUS
  <2>2. j # n
    BY <1>1, <1>2, <1>3, <2>1
  <2>3. j \in 0..n
    BY <1>3
  <2>4. sum[j] >= second /\ ~(sum[j] >= first) /\ sum[j] \in Nat
    BY <1>2, <1>3, <1>6, <2>1, <2>2, <2>3
  <2>5. QED
    BY <1>4, <1>5, <1>11, <2>4
<1>13. i <= j
  BY <1>2, <1>3, <1>12
<1>14. QED
  BY <1>2, <1>3, <1>8, <1>13

----------------------------------------------------------------------------
(* What holds at each stage of the evaluation. Up to rounding, all of it   *)
(* is a function of the request.                                           *)

Screened(r) == At(Ordered(r), DOMAIN Ordered(r) \ FaultyPlaces(Ordered(r)))

\* The ids that the screening excludes, and why.
ScreenedOut(s) ==
  [id \in {s[i].id : i \in FaultyPlaces(s)} |->
     UNION {Faults(s[i]) : i \in {j \in FaultyPlaces(s) : s[j].id = id}}]

Trimmed(s) == At(s, {i \in DOMAIN s : s[i].id \notin Outliers(s)})

AllOut(excluded, ids) ==
  [id \in DOMAIN excluded \cup ids |->
     IF id \in ids THEN {"OUTLIER_EXCLUDED_BY_WEIGHTED_TUKEY_V1"} ELSE excluded[id]]

Untouched == evidence = <<>> /\ exclusions = <<>> /\ outliers = {}

AfterScreen ==
  /\ request.profile = "statistical" /\ ContractHolds(request)
  /\ evidence = Screened(request)
  /\ exclusions = ScreenedOut(Ordered(request))
  /\ outliers = {}

AfterTrim ==
  /\ request.profile = "statistical" /\ ContractHolds(request)
  /\ Screened(request) # <<>>
  /\ evidence = Trimmed(Screened(request))
  /\ outliers = Outliers(Screened(request))
  /\ exclusions = AllOut(ScreenedOut(Ordered(request)), outliers)

Abstained ==
  answer.status = "abstained" /\ answer.band = <<>> /\ answer.quality = "INSUFFICIENT"

BandOf(s) == <<Money(RoundedPercentile(s, 25)), Money(RoundedPercentile(s, 50)),
               Money(RoundedPercentile(s, 75))>>

Recommended ==
  /\ answer.status = "recommended" /\ answer.band = BandOf(evidence)
  /\ answer.quality \in {"HIGH", "MODERATE", "LOW"}

\* A gate did not let this evidence through.
TurnedDown(s) ==
  \/ ~Gates(s)
  \/ 2 * Total(s) * Total(s) = 5 * Squares(s)
  \/ ~(100 * (RoundedPercentile(s, 75) - RoundedPercentile(s, 25))
         <= 100 * RoundedPercentile(s, 50))

Ended ==
  \/ Untouched /\ answer = [NoAnswer EXCEPT !.status = "contract error"]
  \/ /\ request.profile # "statistical" /\ evidence = <<>> /\ outliers = {}
     /\ exclusions = [id \in Ids(request.comparables) |-> {"UNSUPPORTED_PROFILE"}]
     /\ Abstained
  \/ AfterScreen /\ evidence = <<>> /\ Abstained
  \/ AfterTrim /\ TurnedDown(evidence) /\ Abstained
  \/ AfterTrim /\ Gates(evidence) /\ Recommended

StageFacts ==
  /\ phase \in {"received", "screened", "trimmed", "weighed", "done"}
  /\ phase = "received" => Untouched /\ answer = NoAnswer
  /\ phase = "screened" => AfterScreen /\ evidence # <<>> /\ answer = NoAnswer
  /\ phase = "trimmed" => AfterTrim /\ Len(evidence) >= 3 /\ answer = NoAnswer
  /\ phase = "weighed" => AfterTrim /\ Gates(evidence) /\ answer = NoAnswer
  /\ phase = "done" => Ended

ProfileInv ==
  /\ phase = "not called" => Untouched /\ answer = NoAnswer
  /\ phase # "not called" =>
       request \in Requests /\ RequestAccepted(request) /\ StageFacts

LEMMA InitProfileInv == Init => ProfileInv
  BY DEF Init, ProfileIdle, ProfileInv, Untouched

LEMMA ProfileKept ==
  ASSUME ProfileInv, UNCHANGED profileVars
  PROVE  ProfileInv'
  BY DEF profileVars, ProfileInv, StageFacts, Untouched, AfterScreen, AfterTrim, Ended,
         Abstained, Recommended, TurnedDown

\* The payload of an authorized call satisfies the schema.
LEMMA ReceiveStep ==
  ASSUME ProfileInv, PolicyInv, decision = "authorized", call.kind = "statistical",
         Receive(call.payload)
  PROVE  ProfileInv'
<1>1. call.payload \in Requests
  <2>1. scenario \in {t \in Scenarios : t.call.kind = "statistical"}
    BY DEF PolicyInv, call
  <2>2. scenario.call.payload
          \in {s.call.payload : s \in {t \in Scenarios : t.call.kind = "statistical"}}
    BY <2>1
  <2>3. QED
    BY <2>2, RequestConstants DEF RequestConstants, call
<1>2. RequestAccepted(call.payload)
  BY DEF PolicyInv, ParsedInv, PayloadAccepted
<1>3. /\ request' = call.payload /\ phase' = "received" /\ phase = "not called"
      /\ UNCHANGED <<evidence, exclusions, outliers, answer>>
  BY DEF Receive
<1>4. Untouched' /\ answer' = NoAnswer
  BY <1>3 DEF ProfileInv, Untouched
<1>5. StageFacts'
  BY <1>3, <1>4 DEF StageFacts
<1>6. request' \in Requests /\ RequestAccepted(request')
  BY <1>1, <1>2, <1>3
<1>7. QED
  BY <1>3, <1>5, <1>6 DEF ProfileInv

\* The facts of the end, from those of the stage before it.
LEMMA EndsWith ==
  ASSUME request' = request, request \in Requests, RequestAccepted(request),
         phase' = "done", Ended'
  PROVE  ProfileInv'
  BY DEF ProfileInv, StageFacts

LEMMA ReceivedSteps ==
  ASSUME ProfileInv, RejectContract \/ AbstainFromProfile \/ Screen
  PROVE  ProfileInv'
<1>1. /\ phase = "received" /\ request' = request
      /\ request \in Requests /\ RequestAccepted(request)
      /\ Untouched /\ answer = NoAnswer
  BY DEF RejectContract, AbstainFromProfile, Screen, ProfileInv, StageFacts
<1>2. CASE RejectContract
  <2>1. phase' = "done" /\ Ended'
    BY <1>1, <1>2 DEF RejectContract, Ended, Untouched
  <2>2. QED
    BY <1>1, <2>1, EndsWith
<1>3. CASE AbstainFromProfile
  <2>1. phase' = "done" /\ Abstained'
    BY <1>3 DEF AbstainFromProfile, Abstain, Abstained, NoAnswer
  <2>2. Ended'
    BY <1>1, <1>3, <2>1 DEF AbstainFromProfile, Ended, Untouched
  <2>3. QED
    BY <1>1, <2>1, <2>2, EndsWith
<1>4. CASE Screen
  <2>1. AfterScreen'
    <3>1. evidence' = Screened(request) /\ exclusions' = ScreenedOut(Ordered(request))
      BY <1>4, Zenon DEF Screen, Screened, ScreenedOut
    <3>2. request.profile = "statistical" /\ ContractHolds(request) /\ UNCHANGED outliers
      BY <1>4 DEF Screen
    <3>3. QED
      BY <1>1, <3>1, <3>2 DEF AfterScreen, Untouched
  <2>2. \/ evidence' # <<>> /\ phase' = "screened" /\ UNCHANGED answer
        \/ evidence' = <<>> /\ \E reason : Abstain(reason)
    BY <1>4 DEF Screen
  <2>3. CASE evidence' # <<>> /\ phase' = "screened" /\ UNCHANGED answer
    BY <1>1, <2>1, <2>3 DEF ProfileInv, StageFacts
  <2>4. CASE evidence' = <<>> /\ \E reason : Abstain(reason)
    <3>1. phase' = "done" /\ Abstained'
      BY <2>4 DEF Abstain, Abstained, NoAnswer
    <3>2. Ended'
      BY <2>1, <2>4, <3>1 DEF Ended
    <3>3. QED
      BY <1>1, <3>1, <3>2, EndsWith
  <2>5. QED
    BY <2>2, <2>3, <2>4
<1>5. QED
  BY <1>2, <1>3, <1>4

LEMMA TrimStep ==
  ASSUME ProfileInv, ExcludeOutliers
  PROVE  ProfileInv'
<1>1. /\ phase = "screened" /\ request' = request
      /\ request \in Requests /\ RequestAccepted(request)
      /\ AfterScreen /\ evidence # <<>> /\ answer = NoAnswer
  BY DEF ExcludeOutliers, ProfileInv, StageFacts
<1>2. /\ outliers' = Outliers(evidence)
      /\ exclusions' = AllOut(exclusions, outliers')
      /\ evidence' = Trimmed(evidence)
  BY Zenon DEF ExcludeOutliers, WithOutliers, AllOut, Trimmed
<1>3. AfterTrim'
  BY <1>1, <1>2 DEF AfterScreen, AfterTrim
<1>4. CASE Len(evidence') < 3 /\ Abstain("INSUFFICIENT_COMPARABLES")
  <2>1. phase' = "done" /\ Abstained'
    BY <1>4 DEF Abstain, Abstained, NoAnswer
  <2>2. ~Gates(evidence')
    BY <1>4 DEF Gates
  <2>3. Ended'
    BY <1>3, <2>1, <2>2 DEF Ended, TurnedDown
  <2>4. QED
    BY <1>1, <2>1, <2>3, EndsWith
<1>5. CASE Len(evidence') >= 3 /\ phase' = "trimmed" /\ UNCHANGED answer
  BY <1>1, <1>3, <1>5 DEF ProfileInv, StageFacts
<1>6. QED
  BY <1>4, <1>5 DEF ExcludeOutliers

----------------------------------------------------------------------------
(* What the evidence is, as a set of comparables                           *)

\* A request that passed the schema and the contract.
Valid(r) == r \in Requests /\ RequestAccepted(r) /\ ContractHolds(r)

LEMMA RequestHolds ==
  ASSUME NEW r, Valid(r)
  PROVE  /\ Comparables(r.comparables)
         /\ Len(r.comparables) \in 1..MaximumComparables
<1> DEFINE s == r.comparables
<1>1. s \in Seq(Elements(s)) /\ Ids(s) \in SUBSET Nat
  BY ProfileConstants DEF ProfileConstants, Valid
<1>2. /\ Len(s) \in 1..MaximumComparables
      /\ \A i \in DOMAIN s : ComparableAccepted(s[i])
  BY DEF Valid, RequestAccepted
<1>3. \A i, j \in DOMAIN s : s[i].id = s[j].id => i = j
  <2>1. IsInjective([i \in DOMAIN s |-> s[i].id])
    BY DEF Valid, ContractHolds
  <2>2. QED
    BY <2>1 DEF IsInjective
<1>4. \A i \in DOMAIN s : s[i].id \in Nat
  BY <1>1 DEF Ids
<1>5. \A i \in DOMAIN s : s[i].price \in Nat \ {0} /\ s[i].similarity \in 0..100
  BY <1>2 DEF ComparableAccepted
<1>6. QED
  BY <1>1, <1>2, <1>3, <1>4, <1>5 DEF Comparables

LEMMA OrderedHolds ==
  ASSUME NEW r, Comparables(r.comparables)
  PROVE  /\ Comparables(Ordered(r))
         /\ Elements(Ordered(r)) = Elements(r.comparables)
<1> DEFINE s == r.comparables
           places == DOMAIN s
           precedes == ById(s)
<1>1. s \in Seq(Elements(s)) /\ places \in SUBSET DOMAIN s
  BY DEF Comparables
<1>2. Orders(precedes, places)
  BY IdsAreOrdered
<1>3. Ordered(r) = Arranged(s, places, precedes)
  BY DEF Ordered
<1> HIDE DEF places, precedes
<1>4. /\ Elements(Ordered(r)) = {s[i] : i \in places}
      /\ Comparables(s) => Comparables(Ordered(r))
  BY <1>1, <1>2, <1>3, ArrangedHolds
<1>5. QED
  BY <1>4 DEF Elements, places

LEMMA ScreenedHolds ==
  ASSUME NEW r, Comparables(r.comparables)
  PROVE  /\ Comparables(Screened(r))
         /\ Elements(Screened(r)) = {c \in Elements(r.comparables) : Faults(c) = {}}
<1> DEFINE s == Ordered(r)
           places == DOMAIN s \ FaultyPlaces(s)
<1>1. Comparables(s) /\ Elements(s) = Elements(r.comparables)
  BY OrderedHolds
<1>2. Screened(r) = At(s, places)
  BY DEF Screened
<1> HIDE DEF s
<1>3. s \in Seq(Elements(s)) /\ places \in SUBSET DOMAIN s
  BY <1>1 DEF Comparables
<1>4. {s[i] : i \in places} = {c \in Elements(s) : Faults(c) = {}}
  BY DEF FaultyPlaces, Elements
<1> HIDE DEF places
<1>5. Elements(At(s, places)) = {s[i] : i \in places} /\ Comparables(At(s, places))
  BY <1>1, <1>3, AtHolds
<1>6. QED
  BY <1>1, <1>2, <1>4, <1>5

LEMMA TrimmedHolds ==
  ASSUME NEW s, Comparables(s)
  PROVE  /\ Comparables(Trimmed(s))
         /\ Elements(Trimmed(s)) = {c \in Elements(s) : c.id \notin Outliers(s)}
<1> DEFINE places == {i \in DOMAIN s : s[i].id \notin Outliers(s)}
<1>1. Trimmed(s) = At(s, places)
  BY DEF Trimmed
<1>2. s \in Seq(Elements(s)) /\ places \in SUBSET DOMAIN s
  BY DEF Comparables
<1>3. {s[i] : i \in places} = {c \in Elements(s) : c.id \notin Outliers(s)}
  BY DEF Elements
<1> HIDE DEF places
<1>4. Elements(At(s, places)) = {s[i] : i \in places} /\ Comparables(At(s, places))
  BY <1>2, AtHolds
<1>5. QED
  BY <1>1, <1>3, <1>4

LEMMA FewerElements ==
  ASSUME NEW s, Comparables(s), NEW t, Comparables(t), Elements(t) \in SUBSET Elements(s)
  PROVE  Len(t) \in Nat /\ Len(s) \in Nat /\ Len(t) <= Len(s)
<1>1. /\ IsFiniteSet(Elements(s)) /\ Cardinality(Elements(s)) = Len(s)
      /\ Cardinality(Elements(t)) = Len(t)
  BY StatisticsOfMembers
<1>2. Cardinality(Elements(t)) <= Cardinality(Elements(s))
  BY <1>1, FS_Subset
<1>3. Len(s) \in Nat /\ Len(t) \in Nat
  BY DomainOfASequence DEF Comparables
<1>4. QED
  BY <1>1, <1>2, <1>3

LEMMA SquaresTyped ==
  ASSUME NEW s, Comparables(s)
  PROVE  Squares(s) \in Nat
<1> DEFINE f == [i \in DOMAIN s |-> s[i].similarity * s[i].similarity]
<1>1. Squares(s) = Sum(f, DOMAIN s) /\ IsFiniteSet(DOMAIN s)
  BY SumOfFunction, DomainOfASequence DEF Squares, Comparables
<1>2. \A i \in DOMAIN s : f[i] \in Nat
  <2>1. ASSUME NEW i \in DOMAIN s PROVE f[i] \in Nat
    <3>1. s[i].similarity \in 0..100
      BY DEF Comparables
    <3>2. \A x \in 0..100 : x * x \in Nat
      OBVIOUS
    <3>3. s[i].similarity * s[i].similarity \in Nat
      BY <3>1, <3>2
    <3>4. QED
      BY <3>3
  <2>2. QED
    BY <2>1
<1> HIDE DEF f
<1>3. QED
  BY <1>1, <1>2, SumNat

\* What no gate of the screening holds back weighs something.
LEMMA SimilarWeigh ==
  ASSUME NEW s, Comparables(s), \A c \in Elements(s) : c.similarity >= 40
  PROVE  Total(s) >= 40 * Len(s)
<1> DEFINE n == Len(s)
           f == [i \in DOMAIN s |-> s[i].similarity]
           forty == 40
           h == [i \in DOMAIN s |-> forty]
<1>1. n \in Nat /\ IsFiniteSet(DOMAIN s) /\ Cardinality(DOMAIN s) = n
  BY DomainOfASequence DEF Comparables
<1>2. Total(s) = Sum(f, DOMAIN s)
  BY SumOfFunction DEF Total
<1>3. ASSUME NEW i \in DOMAIN s
      PROVE  f[i] \in Int /\ h[i] \in Int /\ h[i] <= f[i]
  <2>1. s[i].similarity \in 0..100 /\ s[i].similarity >= 40
    BY DEF Comparables, Elements
  <2>2. \A a \in 0..100 : a \in Int /\ (a >= 40 => 40 <= a)
    OBVIOUS
  <2>3. s[i].similarity \in Int /\ 40 <= s[i].similarity
    BY <2>1, <2>2
  <2>4. QED
    BY <2>3
<1>4. forty \in Int /\ \A i \in DOMAIN s : h[i] = forty
  OBVIOUS
<1> HIDE DEF f, h, forty
<1>5. Sum(h, DOMAIN s) <= Sum(f, DOMAIN s) /\ Sum(f, DOMAIN s) \in Int
  BY <1>1, <1>3, SumAtMost, SumInt
<1>6. Sum(h, DOMAIN s) = forty * Cardinality(DOMAIN s)
  BY <1>1, <1>4, SumConstant
<1>7. QED
  BY <1>1, <1>2, <1>5, <1>6 DEF forty

\* The evidence behind the outlier step.
LEMMA EvidenceHolds ==
  ASSUME NEW r, Valid(r)
  PROVE  LET s == Trimmed(Screened(r))
         IN  /\ Comparables(s)
             /\ Len(s) \in 0..MaximumComparables
             /\ Total(s) \in Nat /\ Squares(s) \in Nat
             /\ Len(s) >= 1 => Weighable(s)
<1> DEFINE s == Trimmed(Screened(r))
<1>1. Comparables(r.comparables) /\ Len(r.comparables) \in 1..MaximumComparables
  BY RequestHolds
<1>2. /\ Comparables(Screened(r))
      /\ Elements(Screened(r)) = {c \in Elements(r.comparables) : Faults(c) = {}}
  BY <1>1, ScreenedHolds
<1>3. /\ Comparables(s)
      /\ Elements(s) = {c \in Elements(Screened(r)) : c.id \notin Outliers(Screened(r))}
  BY <1>2, TrimmedHolds
<1>4. /\ Elements(s) \in SUBSET Elements(r.comparables)
      /\ \A c \in Elements(s) : Faults(c) = {}
  BY <1>2, <1>3
<1> HIDE DEF s
<1>5. Len(s) \in Nat /\ Len(s) <= Len(r.comparables) /\ Len(r.comparables) \in Nat
  BY <1>1, <1>3, <1>4, FewerElements
<1>6. Len(s) \in 0..MaximumComparables
  <2>1. MaximumComparables \in Nat
    BY ProfileConstants DEF ProfileConstants
  <2>2. QED
    BY <1>1, <1>5, <2>1
<1>7. \A c \in Elements(s) : c.similarity >= 40
  <2>1. ASSUME NEW c \in Elements(s) PROVE c.similarity >= 40
    <3>1. "LOW_SIMILARITY" \notin Faults(c)
      BY <1>4
    <3>2. ~(c.similarity < 40)
      BY <3>1 DEF Faults
    <3>3. c.similarity \in 0..100
      BY <1>3 DEF Comparables, Elements
    <3>4. QED
      BY <3>2, <3>3
  <2>2. QED
    BY <2>1
<1>8. Total(s) >= 40 * Len(s) /\ Total(s) \in Nat /\ Squares(s) \in Nat
  BY <1>3, <1>7, SimilarWeigh, TotalIsBounded, SquaresTyped
<1>9. Len(s) >= 1 => Weighable(s)
  BY <1>3, <1>5, <1>6, <1>8 DEF Weighable
<1>10. QED
  BY <1>3, <1>6, <1>8, <1>9 DEF s

----------------------------------------------------------------------------
LEMMA TrimKept ==
  ASSUME UNCHANGED <<request, evidence, exclusions, outliers>>, AfterTrim
  PROVE  AfterTrim'
  BY DEF AfterTrim

LEMMA WeighStep ==
  ASSUME ProfileInv, WeighEvidence
  PROVE  ProfileInv'
<1> DEFINE T == Total(evidence)
           n == Len(evidence)
           squares == Squares(evidence)
<1>1. /\ phase = "trimmed" /\ UNCHANGED <<request, evidence, exclusions, outliers>>
      /\ request \in Requests /\ RequestAccepted(request)
      /\ AfterTrim /\ n >= 3 /\ answer = NoAnswer
  BY DEF WeighEvidence, ProfileInv, StageFacts
<1>2. AfterTrim'
  BY <1>1, TrimKept
<1>3. T \in Nat /\ squares \in Nat /\ n \in Nat
  <2>1. Valid(request) /\ evidence = Trimmed(Screened(request))
    BY <1>1 DEF Valid, AfterTrim
  <2>2. QED
    BY <2>1, EvidenceHolds
<1>4. PICK effective \in AtLeast(2 * T * T, 5 * squares) :
        \/ ~effective /\ Abstain("LOW_EFFECTIVE_SAMPLE_SIZE")
        \/ effective /\ T < 55 * n /\ Abstain("LOW_SIMILARITY")
        \/ effective /\ T >= 55 * n /\ phase' = "weighed" /\ UNCHANGED answer
  BY DEF WeighEvidence, EffectiveSampleSize
<1>5. /\ effective => 2 * T * T >= 5 * squares
      /\ ~effective => 2 * T * T = 5 * squares \/ ~(2 * T * T >= 5 * squares)
  <2> DEFINE left == 2 * T * T
             right == 5 * squares
  <2>1. left \in Int /\ right \in Int
    BY <1>3
  <2> HIDE DEF left, right
  <2>2. effective \in AtLeast(left, right)
    BY <1>4 DEF left, right
  <2>2a. AtLeast(left, right) = IF left = right THEN BOOLEAN ELSE {left > right}
    BY DEF AtLeast
  <2>3. CASE left = right
    BY <2>1, <2>3 DEF left, right
  <2>4. CASE left # right
    <3>1. effective = (left > right)
      BY <2>2, <2>2a, <2>4
    <3>2. (left > right) => left >= right
      BY <2>1
    <3>3. ~(left > right) => ~(left >= right)
      BY <2>1, <2>4
    <3>4. QED
      BY <3>1, <3>2, <3>3 DEF left, right
  <2>5. QED
    BY <2>3, <2>4
<1>6. ASSUME phase' = "done", Abstained', TurnedDown(evidence)
      PROVE  ProfileInv'
  <2>1. TurnedDown(evidence')
    BY <1>1, <1>6
  <2>2. Ended'
    BY <1>2, <1>6, <2>1 DEF Ended
  <2>3. QED
    BY <1>1, <1>6, <2>2, EndsWith
<1>7. CASE ~effective /\ Abstain("LOW_EFFECTIVE_SAMPLE_SIZE")
  <2>1. phase' = "done" /\ Abstained'
    BY <1>7 DEF Abstain, Abstained, NoAnswer
  <2>2. TurnedDown(evidence)
    BY <1>5, <1>7 DEF TurnedDown, Gates
  <2>3. QED
    BY <1>6, <2>1, <2>2
<1>8. CASE effective /\ T < 55 * n /\ Abstain("LOW_SIMILARITY")
  <2>1. phase' = "done" /\ Abstained'
    BY <1>8 DEF Abstain, Abstained, NoAnswer
  <2>2. ~(T >= 55 * n)
    BY <1>3, <1>8
  <2>3. TurnedDown(evidence)
    BY <2>2 DEF TurnedDown, Gates
  <2>4. QED
    BY <1>6, <2>1, <2>3
<1>9. CASE effective /\ T >= 55 * n /\ phase' = "weighed" /\ UNCHANGED answer
  <2>1. Gates(evidence)
    BY <1>1, <1>5, <1>9 DEF Gates
  <2>2. Gates(evidence')
    BY <1>1, <2>1
  <2>3. QED
    BY <1>1, <1>2, <1>9, <2>2 DEF ProfileInv, StageFacts
<1>10. QED
  BY <1>4, <1>7, <1>8, <1>9

LEMMA RecommendStep ==
  ASSUME ProfileInv, Recommend
  PROVE  ProfileInv'
<1>1. /\ phase = "weighed" /\ UNCHANGED <<request, evidence, exclusions, outliers>>
      /\ request \in Requests /\ RequestAccepted(request)
      /\ AfterTrim /\ Gates(evidence) /\ answer = NoAnswer
  BY DEF Recommend, ProfileInv, StageFacts
<1>2. AfterTrim'
  BY <1>1, TrimKept
<1>3. CASE ~DispersionWithin(100) /\ Abstain("EXCESSIVE_DISPERSION")
  <2>1. phase' = "done" /\ Abstained'
    BY <1>3 DEF Abstain, Abstained, NoAnswer
  <2>2. TurnedDown(evidence)
    BY <1>3 DEF TurnedDown, DispersionWithin, Percentile, RoundedPercentile
  <2>3. TurnedDown(evidence')
    BY <1>1, <2>2
  <2>4. Ended'
    BY <1>2, <2>1, <2>3 DEF Ended
  <2>5. QED
    BY <1>1, <2>1, <2>4, EndsWith
<1>4. ASSUME NEW quality \in Qualities, phase' = "done",
             answer' = [status |-> "recommended", reason |-> "none", band |-> Band,
                        recommendation |-> Band[StrategyPoint[request.strategy]],
                        quality |-> quality]
      PROVE  ProfileInv'
  <2>1. quality \in {"HIGH", "MODERATE", "LOW"}
    BY DEF Qualities
  <2>2. Band = BandOf(evidence)
    BY DEF Band, BandOf, Percentile, RoundedPercentile
  <2>3. Recommended'
    BY <1>1, <1>4, <2>1, <2>2 DEF Recommended
  <2>4. Gates(evidence')
    BY <1>1
  <2>5. Ended'
    BY <1>2, <2>3, <2>4 DEF Ended
  <2>6. QED
    BY <1>1, <1>4, <2>5, EndsWith
<1>5. QED
  BY <1>3, <1>4 DEF Recommend

LEMMA StepProfileInv == PolicyInv /\ ProfileInv /\ [Next]_vars => ProfileInv'
<1> SUFFICES ASSUME PolicyInv, ProfileInv, [Next]_vars PROVE ProfileInv'
  OBVIOUS
<1>1. CASE UNCHANGED profileVars
  BY <1>1, ProfileKept
<1>2. CASE ExecuteRecommendation
  BY <1>1, <1>2, ReceiveStep DEF ExecuteRecommendation
<1>3. CASE ProfileNext
  BY <1>3, ReceivedSteps, TrimStep, WeighStep, RecommendStep DEF ProfileNext
<1>4. QED
  BY <1>1, <1>2, <1>3 DEF Next, vars, ParsePayload

LEMMA AlwaysProfileInv == Spec => []ProfileInv
  BY InitProfileInv, StepProfileInv, AlwaysPolicyInv, PTL DEF Spec

----------------------------------------------------------------------------
(* The stages leave what the policy says                                   *)

LEMMA FaultlessIsEligible ==
  ASSUME NEW r, Valid(r), NEW c \in Elements(r.comparables)
  PROVE  Faults(c) = {} <=> AgeDays(c) <= 90 /\ c.similarity >= 40
<1>1. PICK i \in DOMAIN r.comparables : c = r.comparables[i]
  BY DEF Elements
<1>2. c.similarity \in 0..100 /\ c.observed \in Nat
  BY <1>1 DEF Valid, RequestAccepted, ComparableAccepted
<1>3. AgeDays(c) \in Int
  <2>1. DayTicks \in Nat \ {0} /\ AsOf \in Nat /\ Offset \in Nat
    BY ProfileConstants DEF ProfileConstants
  <2>2. ASSUME NEW tick \in Nat PROVE MarketDay(tick) \in Int
    <3>1. tick + Offset \in Int
      BY <2>1
    <3>2. QED
      BY <2>1, <3>1, Division DEF MarketDay
  <2>3. QED
    BY <1>2, <2>1, <2>2 DEF AgeDays
<1>4. /\ "STALE_EVIDENCE" \in Faults(c) <=> AgeDays(c) > 90
      /\ "LOW_SIMILARITY" \in Faults(c) <=> c.similarity < 40
      /\ Faults(c) \in SUBSET {"STALE_EVIDENCE", "LOW_SIMILARITY"}
  BY DEF Faults
<1>5. /\ ~(AgeDays(c) > 90) <=> AgeDays(c) <= 90
      /\ ~(c.similarity < 40) <=> c.similarity >= 40
  <2>1. \A a \in 0..100 : ~(a < 40) <=> a >= 40
    OBVIOUS
  <2>2. \A a \in Int : ~(a > 90) <=> a <= 90
    OBVIOUS
  <2>3. QED
    BY <1>2, <1>3, <2>1, <2>2
<1>6. QED
  BY <1>4, <1>5

LEMMA EligibleHolds ==
  ASSUME NEW r, Valid(r)
  PROVE  /\ Comparables(Eligible(r)) /\ Comparables(Screened(r))
         /\ Elements(Eligible(r)) = Elements(Screened(r))
<1> DEFINE s == r.comparables
           places == {i \in DOMAIN s : AgeDays(s[i]) <= 90 /\ s[i].similarity >= 40}
<1>1. Comparables(s)
  BY RequestHolds
<1>2. /\ Comparables(Screened(r))
      /\ Elements(Screened(r)) = {c \in Elements(s) : Faults(c) = {}}
  BY <1>1, ScreenedHolds
<1>3. Eligible(r) = At(s, places)
  BY DEF Eligible
<1>4. s \in Seq(Elements(s)) /\ places \in SUBSET DOMAIN s
  BY <1>1 DEF Comparables
<1>5. {s[i] : i \in places} = {c \in Elements(s) : Faults(c) = {}}
  <2>1. \A i \in DOMAIN s : s[i] \in Elements(s)
    BY DEF Elements
  <2>2. \A i \in DOMAIN s : i \in places <=> Faults(s[i]) = {}
    BY <2>1, FaultlessIsEligible
  <2> HIDE DEF places
  <2>3. places \in SUBSET DOMAIN s
    BY <1>4
  <2>4. QED
    BY <2>2, <2>3 DEF Elements
<1> HIDE DEF places
<1>6. Elements(At(s, places)) = {s[i] : i \in places} /\ Comparables(At(s, places))
  BY <1>1, <1>4, AtHolds
<1>7. QED
  BY <1>2, <1>3, <1>5, <1>6

\* A comparable between Tukey's fences.
Inside(c, q25, q75) ==
  /\ 2 * c.price >= 2 * q25 - 3 * (q75 - q25)
  /\ 2 * c.price <= 2 * q75 + 3 * (q75 - q25)

LEMMA OutliersAreOutside ==
  ASSUME NEW s, Comparables(s), Len(s) >= 4, NEW c \in Elements(s)
  PROVE  c.id \notin Outliers(s) <=> Inside(c, LeftQuantile(s, 25), LeftQuantile(s, 75))
<1> DEFINE q25 == LeftQuantile(s, 25)
           q75 == LeftQuantile(s, 75)
           outside == {j \in DOMAIN s : \/ 2 * s[j].price < 2 * q25 - 3 * (q75 - q25)
                                        \/ 2 * s[j].price > 2 * q75 + 3 * (q75 - q25)}
<1>1. Len(s) \in Nat /\ Len(s) >= 1 /\ ~(Len(s) < 4)
  <2>1. Len(s) \in Nat
    BY OrderIsByPrice
  <2>2. QED
    BY <2>1
<1>2. /\ WeightedPercentile(s, RawWeights(s), 25, "exact") = q25
      /\ WeightedPercentile(s, RawWeights(s), 75, "exact") = q75
  BY <1>1, ExactPercentile
<1>3. Outliers(s) = {s[i].id : i \in outside}
  BY <1>1, <1>2 DEF Outliers
<1>4. q25 \in Nat /\ q75 \in Nat
  <2>1. q25 \in Prices(s) /\ q75 \in Prices(s)
    BY <1>1, LeftQuantileIsLeast
  <2>2. Prices(s) \in SUBSET (Nat \ {0})
    BY PricesAreListed
  <2>3. QED
    BY <2>1, <2>2
<1> HIDE DEF q25, q75
<1>5. PICK i \in DOMAIN s : c = s[i]
  BY DEF Elements
<1>6. c.price \in Nat
  BY <1>5 DEF Comparables
<1>7. Inside(c, q25, q75) <=> i \notin outside
  <2>1. \A x, y \in Int : (x >= y <=> ~(x < y)) /\ (x <= y <=> ~(x > y))
    OBVIOUS
  <2>2. /\ 2 * c.price \in Int /\ 2 * q25 - 3 * (q75 - q25) \in Int
        /\ 2 * q75 + 3 * (q75 - q25) \in Int
    BY <1>4, <1>6
  <2>3. QED
    BY <1>5, <2>1, <2>2 DEF Inside
<1>8. \A j \in outside : s[j].id = c.id => j = i
  BY <1>5 DEF Comparables
<1>9. c.id \in Outliers(s) <=> i \in outside
  <2>1. outside \in SUBSET DOMAIN s
    OBVIOUS
  <2> HIDE DEF outside
  <2>2. QED
    BY <1>3, <1>5, <1>8
<1>10. QED
  BY <1>7, <1>9 DEF q25, q75

LEMMA TrimmedIsKept ==
  ASSUME NEW r, Valid(r)
  PROVE  /\ Comparables(Kept(r)) /\ Comparables(Trimmed(Screened(r)))
         /\ Elements(Kept(r)) = Elements(Trimmed(Screened(r)))
<1> DEFINE u == Screened(r)
           t == Eligible(r)
<1>1. Comparables(t) /\ Comparables(u) /\ Elements(t) = Elements(u)
  BY EligibleHolds
<1>2. /\ Len(t) = Len(u)
      /\ LeftQuantile(t, 25) = LeftQuantile(u, 25) /\ LeftQuantile(t, 75) = LeftQuantile(u, 75)
  BY <1>1, SameMembers
<1>3. /\ Comparables(Trimmed(u))
      /\ Elements(Trimmed(u)) = {c \in Elements(u) : c.id \notin Outliers(u)}
  BY <1>1, TrimmedHolds
<1>4. Kept(r) = IF Len(t) < 4 THEN t ELSE InsideFences(t)
  BY DEF Kept
<1>5. Len(u) \in Nat
  BY <1>1, OrderIsByPrice
<1> HIDE DEF u, t
<1>6. CASE Len(u) < 4
  <2>1. Outliers(u) = {}
    BY <1>6 DEF Outliers
  <2>2. Elements(Trimmed(u)) = Elements(u)
    BY <1>3, <2>1
  <2>3. Kept(r) = t
    BY <1>2, <1>4, <1>6
  <2>4. QED
    BY <1>1, <1>3, <2>2, <2>3 DEF u
<1>7. CASE Len(u) >= 4
  <2> DEFINE q25 == LeftQuantile(t, 25)
             q75 == LeftQuantile(t, 75)
             places == {i \in DOMAIN t : Inside(t[i], q25, q75)}
  <2>1. InsideFences(t) = At(t, places)
    BY DEF InsideFences, Inside
  <2>2. t \in Seq(Elements(t)) /\ places \in SUBSET DOMAIN t
    BY <1>1 DEF Comparables
  <2>3. {t[i] : i \in places} = {c \in Elements(t) : Inside(c, q25, q75)}
    BY DEF Elements
  <2> HIDE DEF places, q25, q75
  <2>4. Elements(At(t, places)) = {t[i] : i \in places} /\ Comparables(At(t, places))
    BY <1>1, <2>2, AtHolds
  <2>5. \A c \in Elements(u) : c.id \notin Outliers(u) <=> Inside(c, q25, q75)
    BY <1>1, <1>2, <1>7, OutliersAreOutside DEF q25, q75
  <2>6. Elements(Trimmed(u)) = {c \in Elements(t) : Inside(c, q25, q75)}
    BY <1>1, <1>3, <2>5
  <2>7. Kept(r) = At(t, places)
    BY <1>2, <1>4, <1>5, <1>7, <2>1
  <2>8. QED
    BY <1>3, <2>3, <2>4, <2>6, <2>7 DEF u
<1>8. QED
  BY <1>5, <1>6, <1>7

----------------------------------------------------------------------------
(* The properties                                                          *)

LEMMA RecommendedMeans ==
  ASSUME ProfileInv, answer.status = "recommended"
  PROVE  /\ Valid(request) /\ request.profile = "statistical"
         /\ AfterTrim /\ Gates(evidence) /\ Recommended
<1>1. NoAnswer.status = "none"
      /\ [NoAnswer EXCEPT !.status = "contract error"].status = "contract error"
  BY DEF NoAnswer
<1>2. answer # NoAnswer
  BY <1>1
<1>3. phase = "done" /\ Ended /\ request \in Requests /\ RequestAccepted(request)
  BY <1>2 DEF ProfileInv, StageFacts
<1>4. AfterTrim /\ Gates(evidence) /\ Recommended
  BY <1>1, <1>3 DEF Ended, Abstained
<1>5. QED
  BY <1>3, <1>4 DEF Valid, AfterTrim

LEMMA AbstainedMeans ==
  ASSUME ProfileInv, answer.status = "abstained"
  PROVE  /\ request \in Requests /\ RequestAccepted(request)
         /\ \/ /\ request.profile # "statistical" /\ evidence = <<>> /\ outliers = {}
               /\ exclusions = [id \in Ids(request.comparables) |-> {"UNSUPPORTED_PROFILE"}]
            \/ AfterScreen /\ evidence = <<>>
            \/ AfterTrim /\ TurnedDown(evidence)
<1>1. NoAnswer.status = "none"
      /\ [NoAnswer EXCEPT !.status = "contract error"].status = "contract error"
  BY DEF NoAnswer
<1>2. answer # NoAnswer
  BY <1>1
<1>3. phase = "done" /\ Ended /\ request \in Requests /\ RequestAccepted(request)
  BY <1>2 DEF ProfileInv, StageFacts
<1>4. QED
  BY <1>1, <1>3 DEF Ended, Recommended

LEMMA MoneyKeepsOrder ==
  ASSUME NEW a \in Nat, NEW b \in Nat, a <= b
  PROVE  Money(a) <= Money(b)
<1> DEFINE n == 2 * a + 100
           m == 2 * b + 100
           d == 2 * 100
<1>1. n \in Int /\ m \in Int /\ n <= m /\ d \in Nat \ {0} /\ d = 200
  OBVIOUS
<1>2. Money(a) = 100 * (n \div d) /\ Money(b) = 100 * (m \div d)
  BY DEF Money, HalfUp
<1> HIDE DEF n, m, d
<1>3. /\ n \div d \in Int /\ d * (n \div d) <= n
      /\ m \div d \in Int /\ m < d * (m \div d) + d
  BY <1>1, Division
<1> DEFINE p == n \div d
           q == m \div d
<1> HIDE DEF p, q
<1>4. p \in Int /\ q \in Int /\ 200 * p < 200 * q + 200
  BY <1>1, <1>3 DEF p, q
<1>5. p <= q
  BY <1>4
<1>6. Money(a) = 100 * p /\ Money(b) = 100 * q
  BY <1>2 DEF p, q
<1>7. QED
  BY <1>4, <1>5, <1>6

\* The rounded percentiles of evidence that passed the gates.
LEMMA BandHolds ==
  ASSUME NEW s, Weighable(s), PrecisionSuffices, NEW percent \in {25, 50, 75}
  PROVE  /\ RoundedPercentile(s, percent) \in Nat
         /\ LeftQuantile(s, percent) \in Nat /\ RightQuantile(s, percent) \in Nat
         /\ LeftQuantile(s, percent) <= RoundedPercentile(s, percent)
         /\ RoundedPercentile(s, percent) <= RightQuantile(s, percent)
<1>1. percent \in 1..99
  OBVIOUS
<1>2. Comparables(s) /\ Len(s) >= 1 /\ Total(s) >= 1
  BY WeighableIsTyped DEF Weighable
<1>3. Prices(s) \in SUBSET (Nat \ {0})
  BY <1>2, PricesAreListed
<1>4. LeftQuantile(s, percent) \in Prices(s) /\ RightQuantile(s, percent) \in Prices(s)
  BY <1>1, <1>2, LeftQuantileIsLeast, RightQuantileIsLeast
<1>5. /\ RoundedPercentile(s, percent) \in Prices(s)
      /\ LeftQuantile(s, percent) <= RoundedPercentile(s, percent)
      /\ RoundedPercentile(s, percent) <= RightQuantile(s, percent)
  BY <1>1, RoundedIsBetween
<1>6. QED
  BY <1>3, <1>4, <1>5

LEMMA GatedIsWeighable ==
  ASSUME NEW r, Valid(r), NEW s, s = Trimmed(Screened(r)), Gates(s)
  PROVE  Weighable(s)
<1>1. Len(s) \in 0..MaximumComparables /\ Len(s) >= 3
  BY EvidenceHolds DEF Gates
<1>2. \A a \in 0..MaximumComparables : a >= 3 => a >= 1
  BY ProfileConstants DEF ProfileConstants
<1>3. QED
  BY <1>1, <1>2, EvidenceHolds

\* With enough digits, for any requests: the points of a band are in order, and
\* each lies between the two weighted quantiles of the similarities as sent.
THEOREM BandStaysBetweenQuantiles ==
  ASSUME PrecisionSuffices
  PROVE  Spec => []BandBetweenQuantiles
<1>1. ProfileInv => BandBetweenQuantiles
  <2> SUFFICES ASSUME ProfileInv, answer.status = "recommended"
               PROVE  BandBetweenQuantiles
    BY DEF BandBetweenQuantiles
  <2> DEFINE s == evidence
             point(i) == RoundedPercentile(s, 25 * i)
  <2>1. /\ Valid(request) /\ s = Trimmed(Screened(request)) /\ Gates(s)
        /\ answer.band = BandOf(s)
    BY RecommendedMeans DEF AfterTrim, Recommended
  <2>2. Weighable(s)
    BY <2>1, GatedIsWeighable
  <2>3. /\ answer.band[1] = Money(RoundedPercentile(s, 25))
        /\ answer.band[2] = Money(RoundedPercentile(s, 50))
        /\ answer.band[3] = Money(RoundedPercentile(s, 75))
    BY <2>1 DEF BandOf
  <2> HIDE DEF s
  <2>4. /\ RoundedPercentile(s, 25) <= RoundedPercentile(s, 50)
        /\ RoundedPercentile(s, 50) <= RoundedPercentile(s, 75)
    <3>1. /\ 25 \in 1..99 /\ 50 \in 1..99 /\ 75 \in 1..99
          /\ 25 + 25 <= 50 /\ 50 + 25 <= 75
      OBVIOUS
    <3>2. QED
      BY <2>2, <3>1, RoundedAreOrdered
  <2>5. /\ RoundedPercentile(s, 25) \in Nat /\ RoundedPercentile(s, 50) \in Nat
        /\ RoundedPercentile(s, 75) \in Nat
    BY <2>2, BandHolds
  <2>6. answer.band[1] <= answer.band[2] /\ answer.band[2] <= answer.band[3]
    BY <2>3, <2>4, <2>5, MoneyKeepsOrder
  <2>7. ASSUME NEW percent \in {25, 50, 75}
        PROVE  /\ Money(LeftQuantile(s, percent)) <= Money(RoundedPercentile(s, percent))
               /\ Money(RoundedPercentile(s, percent)) <= Money(RightQuantile(s, percent))
    BY <2>2, BandHolds, MoneyKeepsOrder
  <2>8. ASSUME NEW i \in 1..3
        PROVE  /\ Money(LeftQuantile(s, 25 * i)) <= answer.band[i]
               /\ answer.band[i] <= Money(RightQuantile(s, 25 * i))
    <3>1. CASE i = 1
      BY <2>3, <2>7, <3>1
    <3>2. CASE i = 2
      BY <2>3, <2>7, <3>2
    <3>3. CASE i = 3
      BY <2>3, <2>7, <3>3
    <3>4. QED
      BY <3>1, <3>2, <3>3
  <2>9. QED
    BY <2>6, <2>8 DEF BandBetweenQuantiles, s
<1>2. QED
  BY <1>1, AlwaysProfileInv, PTL

\* With enough digits, for any requests: a recommendation rests on exactly what
\* the policy leaves, and what passes every gate with room to spare gets one.
THEOREM GatesAlwaysDecide ==
  ASSUME PrecisionSuffices
  PROVE  Spec => []GatesDecide
<1>1. ProfileInv => GatesDecide
  <2> SUFFICES ASSUME ProfileInv PROVE GatesDecide
    OBVIOUS
  <2>1. ASSUME answer.status = "recommended"
        PROVE  Elements(evidence) = Elements(Kept(request)) /\ Gates(evidence)
    <3>1. Valid(request) /\ evidence = Trimmed(Screened(request)) /\ Gates(evidence)
      BY <2>1, RecommendedMeans DEF AfterTrim
    <3>2. QED
      BY <3>1, TrimmedIsKept
  <2>2. ASSUME answer.status = "abstained", request.profile = "statistical"
        PROVE  LET kept == Kept(request)
               IN  \/ ~Gates(kept)
                   \/ 2 * Total(kept) * Total(kept) = 5 * Squares(kept)
                   \/ RightQuantile(kept, 75) - LeftQuantile(kept, 25) > LeftQuantile(kept, 50)
    <3> DEFINE kept == Kept(request)
               s == Trimmed(Screened(request))
    <3>1. /\ Valid(request)
          /\ \/ AfterScreen /\ evidence = <<>>
             \/ AfterTrim /\ TurnedDown(evidence)
      BY <2>2, AbstainedMeans DEF Valid, AfterScreen, AfterTrim
    <3>2. Comparables(kept) /\ Comparables(s) /\ Elements(kept) = Elements(s)
      BY <3>1, TrimmedIsKept
    <3>3. /\ Total(kept) = Total(s) /\ Squares(kept) = Squares(s)
          /\ RightQuantile(kept, 75) = RightQuantile(s, 75)
          /\ LeftQuantile(kept, 25) = LeftQuantile(s, 25)
          /\ LeftQuantile(kept, 50) = LeftQuantile(s, 50)
          /\ Gates(kept) <=> Gates(s)
      BY <3>2, SameMembers
    <3>4. CASE AfterScreen /\ evidence = <<>>
      <4>1. Screened(request) = <<>>
        BY <3>4 DEF AfterScreen
      <4>2. Len(Screened(request)) = 0 /\ DOMAIN Screened(request) = {}
        <5>1. Comparables(Screened(request))
          BY <3>1, EligibleHolds
        <5>2. Len(Screened(request)) = 0
          BY <4>1
        <5>3. QED
          BY <5>1, <5>2, OrderIsByPrice
      <4>3. Elements(s) = {}
        BY <3>1, <4>2, TrimmedHolds, EligibleHolds DEF Elements
      <4>4. Len(s) = 0
        BY <3>2, <4>3, StatisticsOfMembers, FS_EmptySet
      <4>5. ~Gates(s)
        BY <4>4 DEF Gates
      <4>6. QED
        BY <3>3, <4>5
    <3>5. CASE AfterTrim /\ TurnedDown(evidence) /\ Gates(s)
      <4>1. evidence = s
        BY <3>5 DEF AfterTrim
      <4>2. Weighable(s)
        BY <3>1, <3>5, GatedIsWeighable
      <4>3. TurnedDown(s)
        BY <3>5, <4>1
      <4> HIDE DEF s, kept
      <4>4. CASE 2 * Total(s) * Total(s) = 5 * Squares(s)
        BY <3>3, <4>4 DEF kept
      <4>5. CASE ~(100 * (RoundedPercentile(s, 75) - RoundedPercentile(s, 25))
                     <= 100 * RoundedPercentile(s, 50))
        <5>1. /\ RoundedPercentile(s, 75) \in Nat /\ RoundedPercentile(s, 25) \in Nat
              /\ RoundedPercentile(s, 50) \in Nat
              /\ LeftQuantile(s, 25) \in Nat /\ LeftQuantile(s, 50) \in Nat
              /\ RightQuantile(s, 75) \in Nat
              /\ RoundedPercentile(s, 75) <= RightQuantile(s, 75)
              /\ LeftQuantile(s, 25) <= RoundedPercentile(s, 25)
              /\ LeftQuantile(s, 50) <= RoundedPercentile(s, 50)
          BY <4>2, BandHolds
        <5> DEFINE a == RoundedPercentile(s, 25)
                   b == RoundedPercentile(s, 50)
                   c == RoundedPercentile(s, 75)
                   d == LeftQuantile(s, 25)
                   e == LeftQuantile(s, 50)
                   f == RightQuantile(s, 75)
        <5>1a. /\ a \in Nat /\ b \in Nat /\ c \in Nat /\ d \in Nat /\ e \in Nat /\ f \in Nat
               /\ c <= f /\ d <= a /\ e <= b /\ ~(100 * (c - a) <= 100 * b)
          BY <4>5, <5>1
        <5> HIDE DEF a, b, c, d, e, f
        <5>1b. f - d > e
          BY <5>1a
        <5>2. RightQuantile(s, 75) - LeftQuantile(s, 25) > LeftQuantile(s, 50)
          BY <5>1b DEF d, e, f
        <5>3. QED
          BY <3>3, <5>2 DEF kept
      <4>6. QED
        BY <3>5, <4>3, <4>4, <4>5 DEF TurnedDown
    <3>6. QED
      BY <3>1, <3>3, <3>4, <3>5
  <2>3. QED
    BY <2>1, <2>2 DEF GatesDecide
<1>2. QED
  BY <1>1, AlwaysProfileInv, PTL

----------------------------------------------------------------------------
(* The lineage: as many entries as comparables, and one for each source    *)

Sources(s) == {s[i].source : i \in DOMAIN s}

LEMMA LineageFits ==
  ASSUME NEW r, Valid(r)
  PROVE  /\ Len(r.lineage) = Len(r.comparables)
         /\ \A c \in Elements(r.comparables) :
              Cardinality({j \in DOMAIN r.lineage : r.lineage[j].source = c.source}) = 1
<1> DEFINE L == r.lineage
           C == r.comparables
           l == [j \in DOMAIN L |-> L[j].source]
           k == [i \in DOMAIN C |-> C[i].source]
<1>1. L \in Seq(Elements(L)) /\ C \in Seq(Elements(C))
  BY ProfileConstants DEF ProfileConstants, Valid
<1>2. /\ IsFiniteSet(DOMAIN L) /\ Cardinality(DOMAIN L) = Len(L)
      /\ IsFiniteSet(DOMAIN C) /\ Cardinality(DOMAIN C) = Len(C)
  BY <1>1, DomainOfASequence
<1>3. /\ IsInjective(l)
      /\ IsInjective([i \in DOMAIN C |-> C[i].source.observation])
      /\ Sources(C) = Sources(L)
  BY DEF Valid, ContractHolds, LineageMatches, Sources
<1>4. /\ \A i, j \in DOMAIN L : L[i].source = L[j].source => i = j
      /\ \A i, j \in DOMAIN C : C[i].source.observation = C[j].source.observation => i = j
  BY <1>3 DEF IsInjective
<1>5. l \in Bijection(DOMAIN L, Sources(L)) /\ k \in Bijection(DOMAIN C, Sources(C))
  BY <1>4 DEF Bijection, Injection, Surjection, IsInjective, Sources
<1>6. ExistsBijection(DOMAIN L, Sources(L)) /\ ExistsBijection(DOMAIN C, Sources(C))
  BY <1>5 DEF ExistsBijection
<1>7. Cardinality(Sources(L)) = Len(L) /\ Cardinality(Sources(C)) = Len(C)
  BY <1>2, <1>6, FS_Bijection
<1>8. ASSUME NEW c \in Elements(C)
      PROVE  Cardinality({j \in DOMAIN L : L[j].source = c.source}) = 1
  <2>1. c.source \in Sources(L)
    BY <1>3 DEF Elements, Sources
  <2>2. PICK j \in DOMAIN L : L[j].source = c.source
    BY <2>1 DEF Sources
  <2>3. {i \in DOMAIN L : L[i].source = c.source} = {j}
    BY <1>4, <2>2
  <2>4. QED
    BY <2>3, FS_Singleton
<1>9. QED
  BY <1>3, <1>7, <1>8

\* Whatever the requests are: a price rests on evidence that holds what the
\* schema and the contract ask for, and on a lineage that fits it.
THEOREM EvidenceIsSound == Spec => []SoundEvidence
<1>1. ProfileInv => SoundEvidence
  <2> SUFFICES ASSUME ProfileInv, answer.status = "recommended"
               PROVE  SoundEvidence
    BY DEF SoundEvidence
  <2>1. Valid(request) /\ evidence = Trimmed(Screened(request))
    BY RecommendedMeans DEF AfterTrim
  <2>2. Comparables(Screened(request)) /\ Comparables(request.comparables)
    BY <2>1, EligibleHolds, RequestHolds
  <2>3. Elements(evidence) \in SUBSET Elements(request.comparables)
    BY <2>1, <2>2, ScreenedHolds, TrimmedHolds
  <2>4. ASSUME NEW i \in DOMAIN evidence
        PROVE  /\ evidence[i].observed <= evidence[i].known /\ evidence[i].known <= AsOf
               /\ evidence[i].usable /\ evidence[i].agrees /\ evidence[i].staysMatch
               /\ Cardinality({j \in DOMAIN request.lineage :
                                 request.lineage[j].source = evidence[i].source}) = 1
    <3> DEFINE c == evidence[i]
    <3>1. c \in Elements(request.comparables)
      BY <2>3 DEF Elements
    <3> HIDE DEF c
    <3>2. PICK k \in DOMAIN request.comparables : c = request.comparables[k]
      BY <3>1 DEF Elements
    <3>3. ComparableAccepted(c) /\ ComparableHolds(c)
      BY <2>1, <3>2 DEF Valid, RequestAccepted, ContractHolds
    <3>4. Cardinality({j \in DOMAIN request.lineage :
                         request.lineage[j].source = c.source}) = 1
      BY <2>1, <3>1, LineageFits
    <3>5. QED
      BY <3>3, <3>4 DEF ComparableAccepted, ComparableHolds, c
  <2>5. Len(request.lineage) = Len(request.comparables)
    BY <2>1, LineageFits
  <2>6. QED
    BY <2>4, <2>5 DEF SoundEvidence
<1>2. QED
  BY <1>1, AlwaysProfileInv, PTL

----------------------------------------------------------------------------
(* Every exclusion has its reason                                          *)

IdsOf(E) == {c.id : c \in E}

LEMMA IdsOfElements ==
  ASSUME NEW s
  PROVE  Ids(s) = IdsOf(Elements(s))
  BY DEF Ids, IdsOf, Elements

LEMMA ScreeningExplains ==
  ASSUME NEW r, Valid(r)
  PROVE  LET out == ScreenedOut(Ordered(r))
         IN  /\ DOMAIN out = Ids(r.comparables) \ Ids(Screened(r))
             /\ \A id \in DOMAIN out :
                  out[id] # {} /\ out[id] \in SUBSET {"STALE_EVIDENCE", "LOW_SIMILARITY"}
<1> DEFINE s == Ordered(r)
           out == ScreenedOut(s)
<1>1. Comparables(r.comparables)
  BY RequestHolds
<1>2. Comparables(s) /\ Elements(s) = Elements(r.comparables)
  BY <1>1, OrderedHolds
<1>3. Elements(Screened(r)) = {c \in Elements(s) : Faults(c) = {}}
  BY <1>1, <1>2, ScreenedHolds
<1> HIDE DEF s
<1>4. \A i, j \in DOMAIN s : s[i].id = s[j].id => i = j
  BY <1>2 DEF Comparables
<1>5. DOMAIN out = {s[i].id : i \in FaultyPlaces(s)}
  BY DEF ScreenedOut
<1>6. Ids(r.comparables) = IdsOf(Elements(s)) /\ Ids(Screened(r)) = IdsOf(Elements(Screened(r)))
  BY <1>2, IdsOfElements
<1>7. {s[i].id : i \in FaultyPlaces(s)} = IdsOf(Elements(s)) \ IdsOf(Elements(Screened(r)))
  <2>1. IdsOf(Elements(s)) = {s[i].id : i \in DOMAIN s}
    BY DEF IdsOf, Elements
  <2>2. IdsOf(Elements(Screened(r))) = {s[i].id : i \in DOMAIN s \ FaultyPlaces(s)}
    BY <1>3 DEF IdsOf, Elements, FaultyPlaces
  <2>3. FaultyPlaces(s) \in SUBSET DOMAIN s
    BY DEF FaultyPlaces
  <2>4. QED
    BY <1>4, <2>1, <2>2, <2>3
<1>8. ASSUME NEW id \in DOMAIN out
      PROVE  out[id] # {} /\ out[id] \in SUBSET {"STALE_EVIDENCE", "LOW_SIMILARITY"}
  <2>1. PICK i \in FaultyPlaces(s) : id = s[i].id
    BY <1>5
  <2>2. out[id] = UNION {Faults(s[j]) : j \in {m \in FaultyPlaces(s) : s[m].id = id}}
    BY <1>5 DEF ScreenedOut
  <2>3. Faults(s[i]) # {} /\ Faults(s[i]) \in SUBSET out[id]
    BY <2>1, <2>2 DEF FaultyPlaces
  <2>4. \A c : Faults(c) \in SUBSET {"STALE_EVIDENCE", "LOW_SIMILARITY"}
    BY DEF Faults
  <2>5. QED
    BY <2>2, <2>3, <2>4
<1>9. QED
  BY <1>5, <1>6, <1>7, <1>8 DEF s

LEMMA TrimmingExplains ==
  ASSUME NEW r, Valid(r)
  PROVE  LET u == Screened(r)
         IN  /\ Ids(u) \in SUBSET Ids(r.comparables)
             /\ Outliers(u) \in SUBSET Ids(u)
             /\ Ids(Trimmed(u)) = Ids(u) \ Outliers(u)
<1> DEFINE u == Screened(r)
<1>1. Comparables(r.comparables) /\ Comparables(u)
  BY RequestHolds, EligibleHolds
<1>2. /\ Elements(u) \in SUBSET Elements(r.comparables)
      /\ Elements(Trimmed(u)) = {c \in Elements(u) : c.id \notin Outliers(u)}
  BY <1>1, ScreenedHolds, TrimmedHolds
<1> HIDE DEF u
<1>3. Ids(u) = IdsOf(Elements(u)) /\ Ids(r.comparables) = IdsOf(Elements(r.comparables))
      /\ Ids(Trimmed(u)) = IdsOf(Elements(Trimmed(u)))
  BY IdsOfElements
<1>4. Outliers(u) \in SUBSET Ids(u)
  BY DEF Outliers, Ids
<1>5. QED
  BY <1>2, <1>3, <1>4 DEF IdsOf, u

\* Whatever the requests are: a comparable is used or excluded for a reason.
THEOREM ExclusionsAreExplained == Spec => []ExclusionsExplained
<1>1. ProfileInv => ExclusionsExplained
  <2> SUFFICES ASSUME ProfileInv, answer.status \in {"abstained", "recommended"}
               PROVE  ExclusionsExplained
    BY DEF ExclusionsExplained
  <2> DEFINE all == Ids(request.comparables)
             out == ScreenedOut(Ordered(request))
             u == Screened(request)
  <2>1. /\ request \in Requests /\ RequestAccepted(request)
        /\ \/ /\ evidence = <<>> /\ outliers = {}
              /\ exclusions = [id \in all |-> {"UNSUPPORTED_PROFILE"}]
           \/ AfterScreen
           \/ AfterTrim
    BY RecommendedMeans, AbstainedMeans DEF Valid
  <2> HIDE DEF all, u, out
  <2>2. CASE /\ evidence = <<>> /\ outliers = {}
             /\ exclusions = [id \in all |-> {"UNSUPPORTED_PROFILE"}]
    <3>1. Ids(evidence) = {}
      BY <2>2 DEF Ids
    <3>2. DOMAIN exclusions = all /\ \A id \in all : exclusions[id] = {"UNSUPPORTED_PROFILE"}
      BY <2>2
    <3>3. QED
      BY <2>2, <3>1, <3>2 DEF ExclusionsExplained, all
  <2>3. ASSUME AfterScreen \/ AfterTrim
        PROVE  /\ DOMAIN out = all \ Ids(u) /\ \A id \in DOMAIN out : out[id] # {}
               /\ Ids(u) \in SUBSET all /\ Outliers(u) \in SUBSET Ids(u)
               /\ Ids(Trimmed(u)) = Ids(u) \ Outliers(u)
    <3>1. Valid(request)
      BY <2>1, <2>3 DEF Valid, AfterScreen, AfterTrim
    <3>2. QED
      BY <3>1, ScreeningExplains, TrimmingExplains DEF all, out, u
  <2>4. CASE AfterScreen
    <3>1. evidence = u /\ exclusions = out /\ outliers = {}
      BY <2>4 DEF AfterScreen, u, out
    <3>2. QED
      BY <2>3, <2>4, <3>1 DEF ExclusionsExplained, all
  <2>5. CASE AfterTrim
    <3>1. evidence = Trimmed(u) /\ outliers = Outliers(u) /\ exclusions = AllOut(out, outliers)
      BY <2>5 DEF AfterTrim, u, out
    <3>2. /\ DOMAIN exclusions = DOMAIN out \cup outliers
          /\ \A id \in DOMAIN exclusions :
               exclusions[id] = IF id \in outliers
                                THEN {"OUTLIER_EXCLUDED_BY_WEIGHTED_TUKEY_V1"} ELSE out[id]
      BY <3>1 DEF AllOut
    <3>3. \A id \in DOMAIN exclusions : exclusions[id] # {}
      BY <2>3, <2>5, <3>2
    <3>4. DOMAIN exclusions = all \ Ids(evidence) /\ outliers \in SUBSET DOMAIN exclusions
      BY <2>3, <2>5, <3>1, <3>2
    <3>5. QED
      BY <3>3, <3>4 DEF ExclusionsExplained, all
  <2>6. QED
    BY <2>1, <2>2, <2>4, <2>5 DEF all
<1>2. QED
  BY <1>1, AlwaysProfileInv, PTL

----------------------------------------------------------------------------
(* Types                                                                   *)

\* What the policy has not computed yet is as it was before the call.
PolicyTypeInv ==
  /\ progress \in Steps \cup {"not called"}
  /\ progress \notin PastGrid => prices = {}
  /\ progress \notin PastSelection => selected = 0

TypeInv == scenario \in Scenarios /\ AccessTypeOK /\ PolicyTypeInv

LEMMA InitTypeInv == Init => TypeInv
<1> SUFFICES ASSUME Init PROVE TypeInv
  OBVIOUS
<1>1. /\ scenario \in Scenarios /\ stage = "configuring" /\ decision = "pending"
      /\ container = Cleared("NOT_CONFIGURED", "none") /\ authorized = NoTenant
  BY DEF Init, AccessInit
<1>2. AccessTypeOK
  BY <1>1 DEF AccessTypeOK, Cleared
<1>3. progress = "not called" /\ prices = {} /\ selected = 0
  BY DEF Init, PolicyIdle
<1>4. PolicyTypeInv
  BY <1>3 DEF PolicyTypeInv
<1>5. QED
  BY <1>1, <1>2, <1>4 DEF TypeInv

LEMMA AccessStepTypes ==
  ASSUME TypeInv, AccessNext
  PROVE  scenario' = scenario /\ AccessTypeOK'
<1> USE DEF TypeInv, AccessTypeOK
<1>1. /\ source \in Predictors \cup {NoModel}
      /\ settings.keyTenant \in Tenants \cup {NoTenant}
  BY AccessConstants DEF AccessConstants, source, settings
<1>2. CASE AcceptSettings \/ RefuseSettings \/ LoadPredictor \/ ValidateContract \/ WarmUp
  BY <1>2 DEF AcceptSettings, RefuseSettings, LoadPredictor, ValidateContract, WarmUp
<1>3. CASE NotConfigured \/ Publish \/ InitializationFails
  BY <1>1, <1>3 DEF NotConfigured, Publish, InitializationFails, Cleared
<1>4. CASE RejectKey \/ RejectIdentity \/ RejectRoute \/ Authorize \/ RejectTenant
  BY <1>4 DEF RejectKey, RejectIdentity, RejectRoute, Authorize, RejectTenant, Decide
<1>5. CASE ResolveTenant
  BY <1>1, <1>5 DEF ResolveTenant
<1>6. QED
  BY <1>2, <1>3, <1>4, <1>5 DEF AccessNext

LEMMA PolicyStepTypes ==
  ASSUME PolicyTypeInv, PolicyNext
  PROVE  PolicyTypeInv'
<1> USE DEF PolicyTypeInv, PastGrid, PastPrediction, PastSelection, Steps
<1>1. CASE RefuseContext \/ RefuseScope \/ RefuseGrid \/ RefuseDemand \/ PredictionFails
  BY <1>1 DEF RefuseContext, RefuseScope, RefuseGrid, RefuseDemand, PredictionFails, End
<1>2. CASE CheckScope \/ FeasiblePrices \/ Predict
  BY <1>2 DEF CheckScope, FeasiblePrices, Predict
<1>3. CASE Select \/ Explain \/ ExplanationFails
  BY <1>3 DEF Select, Explain, ExplanationFails, End
<1>4. QED
  BY <1>1, <1>2, <1>3 DEF PolicyNext

LEMMA StepTypeInv == TypeInv /\ [Next]_vars => TypeInv'
<1> SUFFICES ASSUME TypeInv, [Next]_vars PROVE TypeInv'
  OBVIOUS
<1>1. ASSUME UNCHANGED accessVars PROVE scenario' = scenario /\ AccessTypeOK'
  BY <1>1 DEF accessVars, TypeInv, AccessTypeOK
<1>2. ASSUME UNCHANGED policyVars PROVE PolicyTypeInv'
  BY <1>2 DEF policyVars, TypeInv, PolicyTypeInv
<1>3. CASE AccessNext /\ UNCHANGED <<policyVars, profileVars>>
  BY <1>2, <1>3, AccessStepTypes DEF TypeInv
<1>4. CASE ParsePayload
  BY <1>2, <1>4 DEF ParsePayload, Decide, TypeInv, AccessTypeOK
<1>5. CASE ExecuteRecommendation
  <2>1. scenario' = scenario /\ AccessTypeOK'
    BY <1>5 DEF ExecuteRecommendation, TypeInv, AccessTypeOK
  <2>2. CASE UNCHANGED policyVars
    BY <1>2, <2>1, <2>2 DEF TypeInv
  <2>3. CASE Execute(call.payload, container.predictor)
    BY <2>1, <2>3 DEF Execute, TypeInv, PolicyTypeInv, PastGrid, PastPrediction,
                        PastSelection, Steps
  <2>4. QED
    BY <1>5, <2>2, <2>3 DEF ExecuteRecommendation
<1>6. CASE PolicyNext /\ UNCHANGED <<accessVars, profileVars>>
  BY <1>1, <1>6, PolicyStepTypes DEF TypeInv
<1>7. CASE ProfileNext /\ UNCHANGED <<accessVars, policyVars>>
  BY <1>1, <1>2, <1>7 DEF TypeInv
<1>8. CASE UNCHANGED vars
  BY <1>1, <1>2, <1>8 DEF vars, TypeInv
<1>9. QED
  BY <1>3, <1>4, <1>5, <1>6, <1>7, <1>8 DEF Next

LEMMA PositiveUpTo ==
  ASSUME NEW m \in Nat
  PROVE  1..m \subseteq Nat \ {0}
<1> SUFFICES ASSUME NEW p \in 1..m PROVE p \in Nat \ {0}
  OBVIOUS
<1>1. p \in Int /\ 1 <= p
  OBVIOUS
<1>2. QED
  BY <1>1

LEMMA PolicyTyped ==
  ASSUME TypeInv, ServingInv, PolicyInv, progress # "not called"
  PROVE  PolicyTypeOK
<1>1. context \in Contexts /\ GridInv /\ DemandInv
  BY DEF PolicyInv, ScopeInv
<1>2. {context.current, context.minimum, context.maximum} \subseteq Nat \ {0}
  BY <1>1, ContextTyped
<1>3. predictor \in Predictors \cup {NoModel}
  BY DEF ServingInv, DispatchInv, TypeInv, AccessTypeOK
<1>4. progress \in Steps
  BY DEF TypeInv, PolicyTypeInv
<1>5. prices \subseteq Nat \ {0}
  <2>1. CASE progress \in PastGrid
    <3>1. prices \subseteq 1..context.maximum
      BY <1>1, <2>1, GridIsPositive DEF GridInv
    <3>2. context.maximum \in Nat
      BY <1>1, ContextTyped
    <3>3. QED
      BY <3>1, <3>2, PositiveUpTo
  <2>2. CASE progress \notin PastGrid
    BY <2>2 DEF TypeInv, PolicyTypeInv
  <2>3. QED
    BY <2>1, <2>2
<1>6. progress \in PastPrediction => demand \in [prices -> 0..100]
  <2>1. Occupancies \subseteq 0..100
    BY PolicyConstants DEF PolicyConstants
  <2>2. progress \in PastPrediction => demand \in [prices -> Occupancies]
    BY <1>1 DEF DemandInv
  <2>3. QED
    BY <2>1, <2>2
<1>7. selected \in Nat
  <2>1. CASE progress \in PastSelection
    <3>1. selected \in Feasible
      BY <1>1, <2>1 DEF DemandInv
    <3>2. selected \in prices
      BY <3>1 DEF Feasible
    <3>3. QED
      BY <1>5, <3>2
  <2>2. CASE progress \notin PastSelection
    <3>1. selected = 0
      BY <2>2 DEF TypeInv, PolicyTypeInv
    <3>2. QED
      BY <3>1
  <2>3. QED
    BY <2>1, <2>2
<1>8. QED
  BY <1>2, <1>3, <1>4, <1>5, <1>6, <1>7 DEF PolicyTypeOK, PastPrediction, PastSelection

\* How the answer looks before the end and at it.
LEMMA AnswerTyped ==
  ASSUME ProfileInv, phase # "not called"
  PROVE  /\ answer.status \in {"none", "contract error", "abstained", "recommended"}
         /\ answer.status = "none" <=> phase # "done"
         /\ Len(answer.band) = (IF answer.status = "recommended" THEN 3 ELSE 0)
         /\ answer.quality = "INSUFFICIENT" <=> answer.status = "abstained"
<1>1. /\ NoAnswer.status = "none" /\ NoAnswer.band = <<>> /\ NoAnswer.quality = "none"
      /\ [NoAnswer EXCEPT !.status = "contract error"].status = "contract error"
      /\ [NoAnswer EXCEPT !.status = "contract error"].band = <<>>
      /\ [NoAnswer EXCEPT !.status = "contract error"].quality = "none"
  BY DEF NoAnswer
<1>2. Len(<<>>) = 0
  OBVIOUS
<1>3. CASE phase # "done"
  <2>1. answer = NoAnswer
    BY <1>3 DEF ProfileInv, StageFacts
  <2>2. answer.status = "none" /\ answer.band = <<>> /\ answer.quality = "none"
    BY <1>1, <2>1
  <2>3. Len(answer.band) = 0
    BY <1>2, <2>2
  <2>4. answer.status # "recommended"
    BY <2>2
  <2>5. answer.status = "none" <=> phase # "done"
    BY <1>3, <2>2
  <2>6. answer.quality = "INSUFFICIENT" <=> answer.status = "abstained"
    BY <2>2
  <2>7. Len(answer.band) = IF answer.status = "recommended" THEN 3 ELSE 0
    BY <2>3, <2>4
  <2>8. QED
    BY <2>2, <2>5, <2>6, <2>7
<1>4. CASE phase = "done"
  <2>1. \/ answer = [NoAnswer EXCEPT !.status = "contract error"]
        \/ Abstained
        \/ Recommended
    BY <1>4 DEF ProfileInv, StageFacts, Ended
  <2>2. CASE answer = [NoAnswer EXCEPT !.status = "contract error"]
    <3>1. /\ answer.status = "contract error" /\ answer.band = <<>>
          /\ answer.quality = "none"
      BY <1>1, <2>2
    <3>2. Len(answer.band) = 0
      BY <1>2, <3>1
    <3>3. answer.status # "recommended" /\ answer.status # "none"
      BY <3>1
    <3>4. answer.status = "none" <=> phase # "done"
      BY <1>4, <3>3
    <3>5. answer.quality = "INSUFFICIENT" <=> answer.status = "abstained"
      BY <3>1
    <3>6. Len(answer.band) = IF answer.status = "recommended" THEN 3 ELSE 0
      BY <3>2, <3>3
    <3>7. QED
      BY <3>1, <3>4, <3>5, <3>6
  <2>3. CASE Abstained
    BY <1>2, <1>4, <2>3 DEF Abstained
  <2>4. CASE Recommended
    <3>1. Len(BandOf(evidence)) = 3
      BY DEF BandOf
    <3>2. QED
      BY <1>4, <2>4, <3>1 DEF Recommended
  <2>5. QED
    BY <2>1, <2>2, <2>3, <2>4
<1>5. QED
  BY <1>3, <1>4

LEMMA NothingHolds ==
  /\ Elements(<<>>) = {}
  /\ \A S : <<>> \in [DOMAIN <<>> -> S]
<1> DEFINE nothing == <<>>
<1>1. nothing \in Seq({}) /\ Len(nothing) = 0
  OBVIOUS
<1>2. DOMAIN nothing = 1..0
  BY <1>1, LenProperties
<1>3. 1..0 = {}
  OBVIOUS
<1>4. nothing \in [1..0 -> {}]
  BY <1>1, LenProperties
<1> HIDE DEF nothing
<1>5. DOMAIN nothing = {}
  BY <1>2, <1>3
<1>6. \A S : nothing \in [DOMAIN nothing -> S]
  BY <1>4, <1>5
<1>7. Elements(nothing) = {}
  BY <1>5 DEF Elements
<1>8. QED
  BY <1>6, <1>7 DEF nothing

\* The reasons of any exclusion are among those that have a name.
LEMMA ReasonsTyped ==
  ASSUME ProfileInv, phase # "not called"
  PROVE  /\ Elements(evidence) \subseteq Elements(request.comparables)
         /\ exclusions \in [DOMAIN exclusions -> SUBSET Reasons]
         /\ outliers \subseteq Ids(request.comparables)
<1> DEFINE all == Ids(request.comparables)
           out == ScreenedOut(Ordered(request))
           u == Screened(request)
<1>1. /\ request \in Requests /\ RequestAccepted(request)
      /\ \/ Untouched
         \/ /\ evidence = <<>> /\ outliers = {}
            /\ exclusions = [id \in all |-> {"UNSUPPORTED_PROFILE"}]
         \/ AfterScreen
         \/ AfterTrim
  BY DEF ProfileInv, StageFacts, Ended
<1> HIDE DEF all, out, u
<1>2. CASE Untouched
  <2>1. Elements(evidence) = {} /\ outliers = {}
    BY <1>2, NothingHolds DEF Untouched
  <2>2. exclusions = <<>>
    BY <1>2 DEF Untouched
  <2>3. exclusions \in [DOMAIN exclusions -> SUBSET Reasons]
    BY <2>2, NothingHolds
  <2>4. QED
    BY <2>1, <2>3
<1>3. CASE /\ evidence = <<>> /\ outliers = {}
           /\ exclusions = [id \in all |-> {"UNSUPPORTED_PROFILE"}]
  <2>1. Elements(evidence) = {}
    BY <1>3, NothingHolds
  <2>2. exclusions \in [DOMAIN exclusions -> SUBSET Reasons]
    BY <1>3 DEF Reasons
  <2>3. QED
    BY <1>3, <2>1, <2>2
<1>4. ASSUME AfterScreen \/ AfterTrim
      PROVE  /\ \A id \in DOMAIN out : out[id] \in SUBSET Reasons
             /\ out = [id \in DOMAIN out |-> out[id]]
             /\ Outliers(u) \in SUBSET all
             /\ Elements(u) \in SUBSET Elements(request.comparables)
             /\ Elements(Trimmed(u)) \in SUBSET Elements(request.comparables)
  <2>1. Valid(request)
    BY <1>1, <1>4 DEF Valid, AfterScreen, AfterTrim
  <2>2. \A id \in DOMAIN out : out[id] \in SUBSET Reasons
    BY <2>1, ScreeningExplains DEF out, Reasons
  <2>3. out = [id \in DOMAIN out |-> out[id]]
    BY DEF out, ScreenedOut
  <2>4. Outliers(u) \in SUBSET all
    BY <2>1, TrimmingExplains DEF u, all
  <2>5. Comparables(request.comparables) /\ Comparables(u)
    BY <2>1, RequestHolds, EligibleHolds DEF u
  <2>6. /\ Elements(u) \in SUBSET Elements(request.comparables)
        /\ Elements(Trimmed(u)) \in SUBSET Elements(u)
    BY <2>5, ScreenedHolds, TrimmedHolds DEF u
  <2>7. QED
    BY <2>2, <2>3, <2>4, <2>6
<1>5. CASE AfterScreen
  <2>1. evidence = u /\ exclusions = out /\ outliers = {}
    BY <1>5 DEF AfterScreen, u, out
  <2>2. exclusions \in [DOMAIN exclusions -> SUBSET Reasons]
    BY <1>4, <1>5, <2>1
  <2>3. QED
    BY <1>4, <1>5, <2>1, <2>2
<1>6. CASE AfterTrim
  <2>1. evidence = Trimmed(u) /\ outliers = Outliers(u) /\ exclusions = AllOut(out, outliers)
    BY <1>6 DEF AfterTrim, u, out
  <2>2. /\ DOMAIN exclusions = DOMAIN out \cup outliers
        /\ exclusions = [id \in DOMAIN out \cup outliers |->
                           IF id \in outliers
                           THEN {"OUTLIER_EXCLUDED_BY_WEIGHTED_TUKEY_V1"} ELSE out[id]]
    BY <2>1 DEF AllOut
  <2>3. \A id \in DOMAIN exclusions : exclusions[id] \in SUBSET Reasons
    <3>1. {"OUTLIER_EXCLUDED_BY_WEIGHTED_TUKEY_V1"} \in SUBSET Reasons
      BY DEF Reasons
    <3>2. QED
      BY <1>4, <1>6, <2>2, <3>1
  <2>4. exclusions \in [DOMAIN exclusions -> SUBSET Reasons]
    BY <2>2, <2>3
  <2>5. QED
    BY <1>4, <1>6, <2>1, <2>4 DEF all
<1>7. QED
  BY <1>1, <1>2, <1>3, <1>5, <1>6

LEMMA ProfileTyped ==
  ASSUME ProfileInv, phase # "not called"
  PROVE  ProfileTypeOK
<1>1. request \in Requests
  BY DEF ProfileInv
<1>2. request.profile \in {"statistical", "experimental"}
  BY <1>1, ProfileConstants DEF ProfileConstants
<1>3. phase \in {"received", "screened", "trimmed", "weighed", "done"}
  BY DEF ProfileInv, StageFacts
<1>4. QED
  BY <1>2, <1>3, AnswerTyped, ReasonsTyped DEF ProfileTypeOK

\* Whatever the settings, models and calls: every variable of a profile that
\* answers has its type.
THEOREM RequestsAreTyped == Spec => []TypeOK
<1>1. Spec => []TypeInv
  BY InitTypeInv, StepTypeInv, PTL DEF Spec
<1>2. TypeInv /\ ServingInv /\ PolicyInv /\ ProfileInv => TypeOK
  BY PolicyTyped, ProfileTyped DEF TypeOK, TypeInv
<1>3. QED
  BY <1>1, <1>2, AlwaysServing, AlwaysPolicyInv, AlwaysProfileInv, PTL
============================================================================
