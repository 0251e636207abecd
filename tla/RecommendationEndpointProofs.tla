-------------------- MODULE RecommendationEndpointProofs --------------------
(***************************************************************************)
(* Theorems about RecommendationEndpoint, for any number of clients,       *)
(* permits and threads, and proofs the TLA+ proof system checks.           *)
(*                                                                         *)
(* The sections go from the wake-up rule of the semaphore, a fact about    *)
(* sequences, over the queue and the thread pool to the permits.           *)
(***************************************************************************)
EXTENDS RecommendationEndpoint, FiniteSetTheorems, SequenceTheorems, TLAPS

----------------------------------------------------------------------------
(* The wake-up rule. A sleeping waiter is ranked by the sleepers up to it;  *)
(* the budget wakes the ranks it covers, and ranks have no gaps.           *)

SleepingIndices(ws, wk) == {i \in 1..Len(ws) : ws[i] \notin wk}

Rank(ws, wk, i) == Cardinality({j \in 1..i : ws[j] \notin wk})

Chosen(budget, ws, wk) ==
  {i \in SleepingIndices(ws, wk) : Rank(ws, wk, i) <= budget}

Distinct(s) == \A i, j \in 1..Len(s) : s[i] = s[j] => i = j

LEMMA RanksAreABijection ==
  ASSUME NEW S, NEW ws \in Seq(S), NEW wk
  PROVE  LET I == SleepingIndices(ws, wk)
             f == [i \in I |-> Rank(ws, wk, i)]
         IN  /\ IsFiniteSet(I)
             /\ Cardinality(I) \in Nat
             /\ f \in Injection(I, 1..Cardinality(I))
             /\ f \in Surjection(I, 1..Cardinality(I))
<1> DEFINE I == SleepingIndices(ws, wk)
           Upto(i) == {j \in 1..i : ws[j] \notin wk}
           f == [i \in I |-> Rank(ws, wk, i)]
<1>1. Len(ws) \in Nat
  BY LenProperties
<1>2. IsFiniteSet(I) /\ Cardinality(I) \in Nat
  <2>1. IsFiniteSet(1..Len(ws))
    BY <1>1, FS_Interval
  <2>2. I \in SUBSET (1..Len(ws))
    BY DEF SleepingIndices
  <2>3. QED
    BY <2>1, <2>2, FS_Subset, FS_CardinalityType
<1>3. ASSUME NEW i \in I
      PROVE  /\ Upto(i) \in SUBSET I
             /\ i \in Upto(i)
             /\ IsFiniteSet(Upto(i))
             /\ Rank(ws, wk, i) = Cardinality(Upto(i))
             /\ Rank(ws, wk, i) \in 1..Cardinality(I)
  <2>1. Upto(i) \in SUBSET I /\ i \in Upto(i)
    BY <1>1 DEF SleepingIndices
  <2>2. IsFiniteSet(Upto(i)) /\ Cardinality(Upto(i)) <= Cardinality(I)
    BY <2>1, <1>2, FS_Subset
  <2>3. Cardinality(Upto(i)) \in Nat /\ Cardinality(Upto(i)) # 0
    BY <2>1, <2>2, FS_CardinalityType, FS_EmptySet
  <2>4. QED
    BY <1>2, <2>1, <2>2, <2>3 DEF Rank
<1>4. ASSUME NEW i \in I, NEW k \in I, i < k
      PROVE  Rank(ws, wk, i) # Rank(ws, wk, k)
  <2>1. i \in Int /\ k \in Int
    BY <1>1 DEF SleepingIndices
  <2>2. Upto(i) \in SUBSET Upto(k)
    BY <1>4, <2>1
  <2>3. k \in Upto(k) /\ k \notin Upto(i)
    <3>1. k \in Upto(k)
      BY <1>3
    <3>2. k \notin 1..i
      BY <1>4, <2>1
    <3>3. QED
      BY <3>1, <3>2
  <2>4. Cardinality(Upto(i)) # Cardinality(Upto(k))
    BY <1>3, <2>2, <2>3, FS_Subset
  <2>5. QED
    BY <1>3, <2>4
<1>5. f \in Injection(I, 1..Cardinality(I))
  <2>1. f \in [I -> 1..Cardinality(I)]
    BY <1>3
  <2>2. ASSUME NEW i \in I, NEW k \in I, f[i] = f[k]
        PROVE  i = k
    <3>1. i \in Int /\ k \in Int
      BY <1>1 DEF SleepingIndices
    <3>2. ~(i < k) /\ ~(k < i)
      BY <1>4, <2>2
    <3>3. QED
      BY <3>1, <3>2
  <2>3. QED
    BY <2>1, <2>2 DEF Injection, IsInjective
<1>6. f \in Surjection(I, 1..Cardinality(I))
  <2>1. /\ IsFiniteSet(1..Cardinality(I))
        /\ Cardinality(1..Cardinality(I)) = Cardinality(I)
    BY <1>2, FS_Interval
  <2>2. QED
    BY <1>5, <2>1, FS_Injection
<1>7. QED
  BY <1>2, <1>5, <1>6

LEMMA WokenAreChosen ==
  ASSUME NEW ws, NEW wk, NEW budget
  PROVE  FirstSleeping(budget, ws, wk) = {ws[i] : i \in Chosen(budget, ws, wk)}
  BY DEF FirstSleeping, Chosen, SleepingIndices, Rank

\* At most budget waiters are woken, all of them from the queue and asleep.
LEMMA BudgetIsKept ==
  ASSUME NEW S, NEW ws \in Seq(S), NEW wk, NEW budget \in Nat
  PROVE  LET next == FirstSleeping(budget, ws, wk)
         IN  /\ next \subseteq Image(ws) \ wk
             /\ next \subseteq S
             /\ IsFiniteSet(next)
             /\ Cardinality(next) \in 0..budget
<1> DEFINE I == SleepingIndices(ws, wk)
           C == Chosen(budget, ws, wk)
           next == FirstSleeping(budget, ws, wk)
           f == [i \in I |-> Rank(ws, wk, i)]
           g == [i \in C |-> Rank(ws, wk, i)]
           h == [i \in C |-> ws[i]]
<1>1. /\ IsFiniteSet(I)
      /\ Cardinality(I) \in Nat
      /\ f \in Injection(I, 1..Cardinality(I))
  BY RanksAreABijection
<1>2. g \in Injection(C, 1..budget)
  <2>1. /\ \A i \in I : Rank(ws, wk, i) \in 1..Cardinality(I)
        /\ \A i, k \in I : Rank(ws, wk, i) = Rank(ws, wk, k) => i = k
    BY <1>1 DEF Injection, IsInjective
  <2>2. C \subseteq I /\ \A i \in C : Rank(ws, wk, i) <= budget
    BY DEF Chosen
  <2>3. \A i \in C : Rank(ws, wk, i) \in 1..budget
    BY <1>1, <2>1, <2>2
  <2>4. QED
    BY <2>1, <2>2, <2>3 DEF Injection, IsInjective
<1>3. IsFiniteSet(C) /\ Cardinality(C) <= budget
  <2>1. IsFiniteSet(1..budget) /\ Cardinality(1..budget) = budget
    BY FS_Interval
  <2>2. QED
    BY <1>2, <2>1, FS_Injection
<1>4. h \in Surjection(C, next)
  BY WokenAreChosen DEF Surjection
<1>5. IsFiniteSet(next) /\ Cardinality(next) <= Cardinality(C)
  BY <1>3, <1>4, FS_Surjection
<1>6. Cardinality(C) \in Nat /\ Cardinality(next) \in Nat
  BY <1>3, <1>5, FS_CardinalityType
<1>7. next \subseteq Image(ws) \ wk
  BY WokenAreChosen DEF Chosen, SleepingIndices, Image
<1>8. Image(ws) \subseteq S
  BY ElementOfSeq DEF Image
<1>9. QED
  BY <1>3, <1>5, <1>6, <1>7, <1>8

\* Somebody is woken when somebody sleeps.
LEMMA BudgetIsUsed ==
  ASSUME NEW S, NEW ws \in Seq(S), NEW wk, NEW budget \in Nat,
         budget > 0, Image(ws) \ wk # {}
  PROVE  FirstSleeping(budget, ws, wk) # {}
<1> DEFINE I == SleepingIndices(ws, wk)
           f == [i \in I |-> Rank(ws, wk, i)]
<1>1. /\ IsFiniteSet(I)
      /\ Cardinality(I) \in Nat
      /\ f \in Surjection(I, 1..Cardinality(I))
  BY RanksAreABijection
<1>2. I # {}
  BY DEF SleepingIndices, Image
<1>3. 1 \in 1..Cardinality(I)
  BY <1>1, <1>2, FS_EmptySet
<1>4. PICK i \in I : Rank(ws, wk, i) = 1
  BY <1>1, <1>3 DEF Surjection
<1>5. i \in Chosen(budget, ws, wk)
  BY <1>4 DEF Chosen
<1>6. QED
  BY <1>5, WokenAreChosen

\* Nobody is left asleep when some of the budget is left.
LEMMA SpareBudgetLeavesNobodyAsleep ==
  ASSUME NEW S, NEW ws \in Seq(S), Distinct(ws), NEW wk, NEW budget \in Nat,
         Cardinality(FirstSleeping(budget, ws, wk)) < budget
  PROVE  Image(ws) \ wk \subseteq FirstSleeping(budget, ws, wk)
<1> DEFINE I == SleepingIndices(ws, wk)
           C == Chosen(budget, ws, wk)
           next == FirstSleeping(budget, ws, wk)
           f == [i \in I |-> Rank(ws, wk, i)]
           g == [i \in C |-> Rank(ws, wk, i)]
           h == [i \in C |-> ws[i]]
<1>1. /\ IsFiniteSet(I)
      /\ Cardinality(I) \in Nat
      /\ f \in [I -> 1..Cardinality(I)]
      /\ f \in Surjection(I, 1..Cardinality(I))
  BY RanksAreABijection DEF Surjection
<1>2. C \in SUBSET I /\ C \subseteq 1..Len(ws) /\ IsFiniteSet(C)
  BY <1>1, FS_Subset DEF Chosen, SleepingIndices
<1>3. Cardinality(C) = Cardinality(next)
  <2>1. h \in Surjection(C, next)
    BY WokenAreChosen DEF Surjection
  <2>2. h \in Injection(C, next)
    BY <1>2, <2>1 DEF Injection, IsInjective, Surjection, Distinct
  <2>3. QED
    BY <1>2, <2>1, <2>2, FS_Surjection
<1>4. ASSUME NEW i \in I, Rank(ws, wk, i) > budget
      PROVE  FALSE
  <2>1. budget < Cardinality(I)
    BY <1>1, <1>4
  <2>2. g \in Surjection(C, 1..budget)
    <3>1. g \in [C -> 1..budget]
      BY <1>1, <1>2 DEF Chosen
    <3>2. ASSUME NEW n \in 1..budget
          PROVE  \E i_1 \in C : g[i_1] = n
      <4>1. n \in 1..Cardinality(I)
        BY <1>1, <2>1
      <4>2. PICK k \in I : Rank(ws, wk, k) = n
        BY <1>1, <4>1 DEF Surjection
      <4>3. k \in C
        BY <4>2 DEF Chosen
      <4>4. QED
        BY <4>2, <4>3
    <3>3. QED
      BY <3>1, <3>2 DEF Surjection
  <2>3. Cardinality(1..budget) = budget
    BY FS_Interval
  <2>4. budget <= Cardinality(C)
    BY <1>2, <2>2, <2>3, FS_Surjection
  <2>5. Cardinality(C) \in Nat
    BY <1>2, FS_CardinalityType
  <2>6. QED
    BY <1>3, <2>4, <2>5
<1>5. I \subseteq C
  BY <1>1, <1>4 DEF Chosen
<1>6. QED
  BY <1>5, WokenAreChosen DEF SleepingIndices, Image

----------------------------------------------------------------------------
(* The queue: a waiter leaves it once and for all, and a wake-up hands     *)
(* permits over without making or losing one.                              *)

LEMMA RemovedOnce ==
  ASSUME waiters \in Seq(Requests), Distinct(waiters),
         NEW r \in Image(waiters)
  PROVE  /\ RemoveWaiter(r) \in Seq(Requests)
         /\ Distinct(RemoveWaiter(r))
         /\ Image(RemoveWaiter(r)) = Image(waiters) \ {r}
<1> DEFINE n == Len(waiters)
           i == CHOOSE i \in 1..n : waiters[i] = r
           front == SubSeq(waiters, 1, i - 1)
           back == SubSeq(waiters, i + 1, n)
           rest == front \o back
           old(k) == IF k <= i - 1 THEN k ELSE k + 1
<1>1. n \in Nat /\ \A k \in 1..n : waiters[k] \in Requests
  BY LenProperties
<1>2. i \in 1..n /\ waiters[i] = r
  BY DEF Image
<1> HIDE DEF i
<1>3. /\ front \in Seq(Requests)
      /\ Len(front) = i - 1
      /\ \A k \in 1..(i - 1) : front[k] = waiters[k]
  <2>1. \A k \in 1..(i - 1) : waiters[k] \in Requests
    BY <1>1, <1>2
  <2>2. 1 \in Int /\ i - 1 \in Int
    BY <1>1, <1>2
  <2>3. /\ front \in Seq(Requests)
        /\ Len(front) = IF 1 <= i - 1 THEN i - 1 - 1 + 1 ELSE 0
        /\ \A k \in 1..(i - 1 - 1 + 1) : front[k] = waiters[1 + k - 1]
    BY <2>1, <2>2, SubSeqProperties
  <2>4. i \in Int /\ i >= 1
    BY <1>1, <1>2
  <2>5. QED
    BY <2>3, <2>4
<1>4. /\ back \in Seq(Requests)
      /\ Len(back) = n - i
      /\ \A k \in 1..(n - i) : back[k] = waiters[i + k]
  <2>1. \A k \in (i + 1)..n : waiters[k] \in Requests
    BY <1>1, <1>2
  <2>2. i + 1 \in Int /\ n \in Int
    BY <1>1, <1>2
  <2>3. /\ back \in Seq(Requests)
        /\ Len(back) = IF i + 1 <= n THEN n - (i + 1) + 1 ELSE 0
        /\ \A k \in 1..(n - (i + 1) + 1) : back[k] = waiters[i + 1 + k - 1]
    BY <2>1, <2>2, SubSeqProperties
  <2>4. i \in Int /\ i >= 1 /\ i <= n
    BY <1>1, <1>2
  <2>5. QED
    BY <1>1, <2>3, <2>4
<1>5. /\ rest \in Seq(Requests)
      /\ Len(rest) = n - 1
      /\ \A k \in 1..(n - 1) : rest[k] = waiters[old(k)]
  <2>1. /\ rest \in Seq(Requests)
        /\ Len(rest) = i - 1 + (n - i)
        /\ \A k \in 1..(i - 1 + (n - i)) :
             rest[k] = IF k <= i - 1 THEN front[k] ELSE back[k - (i - 1)]
    BY <1>3, <1>4, ConcatProperties
  <2>2. i - 1 + (n - i) = n - 1
    BY <1>1, <1>2
  <2>3. ASSUME NEW k \in 1..(n - 1)
        PROVE  rest[k] = waiters[old(k)]
    <3>1. CASE k <= i - 1
      <4>1. k \in 1..(i - 1)
        BY <1>1, <1>2, <3>1
      <4>2. QED
        BY <1>3, <2>1, <2>2, <3>1, <4>1
    <3>2. CASE ~(k <= i - 1)
      <4>1. k - (i - 1) \in 1..(n - i) /\ i + (k - (i - 1)) = k + 1
        BY <1>1, <1>2, <3>2
      <4>2. QED
        BY <1>4, <2>1, <2>2, <3>2, <4>1
    <3>3. QED
      BY <3>1, <3>2
  <2>4. QED
    BY <2>1, <2>2, <2>3
<1> HIDE DEF rest
<1>6. Distinct(rest)
  <2>1. ASSUME NEW k \in 1..(n - 1), NEW m \in 1..(n - 1), old(k) = old(m)
        PROVE  k = m
    BY <1>1, <1>2, <2>1
  <2>2. \A k \in 1..(n - 1) : old(k) \in 1..n
    BY <1>1, <1>2
  <2>3. ASSUME NEW k \in 1..(n - 1), NEW m \in 1..(n - 1), rest[k] = rest[m]
        PROVE  old(k) = old(m)
    <3>1. waiters[old(k)] = waiters[old(m)]
      BY <1>5, <2>3
    <3>2. old(k) \in 1..n /\ old(m) \in 1..n
      BY <2>2
    <3> HIDE DEF old
    <3>3. QED
      BY <3>1, <3>2 DEF Distinct
  <2>4. QED
    BY <1>5, <2>1, <2>3 DEF Distinct
<1>7. Image(rest) = Image(waiters) \ {r}
  <2>1. ASSUME NEW k \in 1..(n - 1)
        PROVE  rest[k] \in Image(waiters) /\ rest[k] # r
    <3>1. old(k) \in 1..n \ {i}
      BY <1>1, <1>2
    <3>2. QED
      BY <1>2, <1>5, <3>1 DEF Image, Distinct
  <2>2. ASSUME NEW k \in 1..n, waiters[k] # r
        PROVE  \E m \in 1..(n - 1) : rest[m] = waiters[k]
    <3>1. k # i
      BY <1>2, <2>2
    <3>2. CASE k <= i - 1
      <4>1. k \in 1..(n - 1)
        BY <1>1, <1>2, <3>2
      <4>2. QED
        BY <1>5, <3>2, <4>1
    <3>3. CASE ~(k <= i - 1)
      <4>1. k - 1 \in 1..(n - 1) /\ ~(k - 1 <= i - 1) /\ (k - 1) + 1 = k
        BY <1>1, <1>2, <3>1, <3>3
      <4>2. QED
        BY <1>5, <4>1
    <3>4. QED
      BY <3>2, <3>3
  <2>3. Image(rest) \subseteq Image(waiters) \ {r}
    BY <1>5, <2>1 DEF Image
  <2>4. ASSUME NEW x \in Image(waiters) \ {r}
        PROVE  x \in Image(rest)
    BY <1>5, <2>2 DEF Image
  <2>5. QED
    BY <2>3, <2>4
<1>8. RemoveWaiter(r) = rest
  BY DEF RemoveWaiter, i, rest
<1>9. QED
  BY <1>5, <1>6, <1>7, <1>8

LEMMA AppendedOnce ==
  ASSUME NEW S, NEW s \in Seq(S), Distinct(s), NEW e \in S \ Image(s)
  PROVE  /\ Append(s, e) \in Seq(S)
         /\ Distinct(Append(s, e))
         /\ Image(Append(s, e)) = Image(s) \cup {e}
<1>1. /\ Append(s, e) \in Seq(S)
      /\ Len(Append(s, e)) = Len(s) + 1
      /\ \A i \in 1..Len(s) : Append(s, e)[i] = s[i]
      /\ Append(s, e)[Len(s) + 1] = e
      /\ Len(s) \in Nat
  BY AppendProperties, LenProperties
<1>2. ASSUME NEW i \in 1..(Len(s) + 1), i \notin 1..Len(s)
      PROVE  i = Len(s) + 1
  BY <1>1, <1>2
<1>3. Len(s) + 1 \in 1..(Len(s) + 1) /\ 1..Len(s) \subseteq 1..(Len(s) + 1)
  BY <1>1
<1>4. Image(Append(s, e)) = Image(s) \cup {e}
  BY <1>1, <1>2, <1>3 DEF Image
<1>5. \A i \in 1..Len(s) : s[i] # e
  BY DEF Image
<1>6. Distinct(Append(s, e))
  BY <1>1, <1>2, <1>5 DEF Distinct
<1>7. QED
  BY <1>1, <1>4, <1>6

LEMMA TakenOnce ==
  ASSUME NEW S, NEW s \in Seq(S), Distinct(s), s # <<>>
  PROVE  /\ Head(s) \in S
         /\ Tail(s) \in Seq(S)
         /\ Distinct(Tail(s))
         /\ Head(s) \in Image(s)
         /\ Image(Tail(s)) = Image(s) \ {Head(s)}
<1>1. /\ Head(s) \in S
      /\ Tail(s) \in Seq(S)
      /\ Len(Tail(s)) = Len(s) - 1
      /\ \A i \in 1..Len(Tail(s)) : Tail(s)[i] = s[i + 1]
      /\ Len(s) \in Nat
      /\ Len(s) # 0
  BY HeadTailProperties, LenProperties, EmptySeq
<1>2. Head(s) = s[1] /\ 1 \in 1..Len(s)
  BY <1>1
<1>3. \A i \in 1..(Len(s) - 1) : i + 1 \in 1..Len(s) \ {1}
  BY <1>1
<1>4. \A i \in 1..Len(s) \ {1} : i - 1 \in 1..(Len(s) - 1) /\ (i - 1) + 1 = i
  BY <1>1
<1>5. Distinct(Tail(s))
  BY <1>1, <1>3 DEF Distinct
<1>6. Image(Tail(s)) = Image(s) \ {Head(s)}
  <2>1. ASSUME NEW i \in 1..(Len(s) - 1)
        PROVE  Tail(s)[i] \in Image(s) \ {Head(s)}
    BY <1>1, <1>2, <1>3 DEF Image, Distinct
  <2>2. ASSUME NEW i \in 1..Len(s), s[i] # Head(s)
        PROVE  \E k \in 1..(Len(s) - 1) : Tail(s)[k] = s[i]
    BY <1>1, <1>2, <1>4, <2>2
  <2>3. QED
    BY <1>1, <2>1, <2>2, SMTT(30) DEF Image
<1>7. QED
  BY <1>1, <1>2, <1>5, <1>6 DEF Image

\* What is handed over was free before, or the budget of a release.
LEMMA HandedOver ==
  ASSUME NEW free \in Nat, NEW budget \in 0..free,
         NEW ws \in Seq(Requests), NEW wk \in SUBSET Requests,
         WakeUp(budget, free, ws, wk)
  PROVE  /\ value' \in Nat
         /\ woken' \subseteq Requests
         /\ value' + Cardinality(woken') = free + Cardinality(wk)
<1> DEFINE next == FirstSleeping(budget, ws, wk)
<1>1. budget \in Nat /\ budget <= free
  OBVIOUS
<1>2. /\ next \subseteq Image(ws) \ wk
      /\ next \subseteq Requests
      /\ IsFiniteSet(next)
      /\ Cardinality(next) \in 0..budget
  BY <1>1, BudgetIsKept
<1>3. IsFiniteSet(wk) /\ Cardinality(wk) \in Nat
  BY EndpointConstants, FS_Subset, FS_CardinalityType DEF EndpointConstants
<1>4. Cardinality(wk \cup next) = Cardinality(wk) + Cardinality(next)
  <2>1. wk \cap next = {}
    BY <1>2
  <2>2. Cardinality(wk \cap next) = 0
    BY <2>1, FS_EmptySet
  <2>3. Cardinality(wk \cup next)
          = Cardinality(wk) + Cardinality(next) - Cardinality(wk \cap next)
    BY <1>2, <1>3, FS_Union
  <2>4. QED
    BY <1>2, <1>3, <2>2, <2>3
<1>5. value' = free - Cardinality(next) /\ woken' = wk \cup next
  BY DEF WakeUp
<1>6. QED
  BY <1>1, <1>2, <1>3, <1>4, <1>5

----------------------------------------------------------------------------
(* The invariant. The permits add up only because no handler starts a      *)
(* second task, and each task's work is in the pool once: so the invariant *)
(* says where each request's job and future are.                           *)

TypeInv ==
  /\ phase \in [Clients -> Phases]
  /\ answer \in [Requests -> Answers]
  /\ work \in [Requests -> WorkStates]
  /\ value \in Nat
  /\ waiters \in Seq(Requests)
  /\ woken \in SUBSET Requests
  /\ jobs \in Seq(Jobs)
  /\ busy \subseteq Jobs

QueueInv ==
  /\ Distinct(waiters)
  /\ \A r \in Requests : phase[r] = "queued" <=> r \in Image(waiters)

NoWorkYet ==
  \A r \in Requests :
    phase[r] \in {"dependencies", "admitted", "queued"} => work[r] = "none"

Open == Image(jobs) \cup busy

PoolInv ==
  /\ Distinct(jobs)
  /\ Image(jobs) \cap busy = {}
  /\ \A c \in Clients : Dependencies(c) \in Open => phase[c] = "dependencies"
  /\ \A r \in Requests : Work(r) \in Open => work[r] = "pooled"

Shape == TypeInv /\ QueueInv /\ NoWorkYet /\ PoolInv

LEMMA JobNames ==
  /\ \A c \in Clients : Dependencies(c) \in Jobs
  /\ \A r \in Requests : Work(r) \in Jobs
  /\ \A c, d \in Clients : Dependencies(c) = Dependencies(d) => c = d
  /\ \A r, q \in Requests : Work(r) = Work(q) => r = q
  /\ \A c \in Clients, r \in Requests : Dependencies(c) # Work(r)
  BY DEF Dependencies, Work, Jobs, Clients

LEMMA WaitersAreRequests ==
  ASSUME waiters \in Seq(Requests)
  PROVE  Image(waiters) \subseteq Requests
  BY ElementOfSeq DEF Image

LEMMA WokenCounted ==
  ASSUME NEW wk \in SUBSET Requests
  PROVE  IsFiniteSet(wk) /\ Cardinality(wk) \in Nat
  BY EndpointConstants, FS_Subset, FS_CardinalityType DEF EndpointConstants

\* Whatever free permits are left over, nobody in the queue sleeps.
LEMMA EverythingHandedOn ==
  ASSUME NEW free \in Nat, NEW ws \in Seq(Requests), Distinct(ws),
         NEW wk \in SUBSET Requests, WakeUp(free, free, ws, wk)
  PROVE  value' > 0 => Image(ws) \ woken' = {}
<1> DEFINE next == FirstSleeping(free, ws, wk)
<1>1. Cardinality(next) \in 0..free
  BY BudgetIsKept
<1>2. value' = free - Cardinality(next) /\ woken' = wk \cup next
  BY DEF WakeUp
<1>3. ASSUME value' > 0
      PROVE  Image(ws) \ wk \subseteq next
  <2>1. Cardinality(next) < free
    BY <1>1, <1>2, <1>3
  <2>2. QED
    BY <2>1, SpareBudgetLeavesNobodyAsleep
<1>4. QED
  BY <1>2, <1>3

LEMMA AbandonEffect ==
  ASSUME Shape, NEW r \in Requests, phase[r] = "queued", Abandon(r)
  PROVE  /\ value' \in Nat
         /\ woken' \in SUBSET Requests
         /\ waiters' \in Seq(Requests)
         /\ Distinct(waiters')
         /\ Image(waiters') = Image(waiters) \ {r}
         /\ value' + Cardinality(woken') = value + Cardinality(woken)
         /\ value' > 0 => Image(waiters') \ woken' = {}
<1> DEFINE free == IF r \in woken THEN value + 1 ELSE value
           rest == RemoveWaiter(r)
<1>1. /\ rest \in Seq(Requests)
      /\ Distinct(rest)
      /\ Image(rest) = Image(waiters) \ {r}
  BY RemovedOnce DEF Shape, TypeInv, QueueInv
<1>2. /\ value \in Nat
      /\ IsFiniteSet(woken)
      /\ Cardinality(woken) \in Nat
      /\ woken \ {r} \in SUBSET Requests
  BY WokenCounted DEF Shape, TypeInv
<1>3. free \in Nat /\ free + Cardinality(woken \ {r}) = value + Cardinality(woken)
  <2>1. Cardinality(woken \ {r})
          = IF r \in woken THEN Cardinality(woken) - 1 ELSE Cardinality(woken)
    BY <1>2, FS_RemoveElement
  <2>2. QED
    BY <1>2, <2>1
<1>4. waiters' = rest /\ WakeUp(free, free, rest, woken \ {r})
  BY DEF Abandon
<1> HIDE DEF free, rest
<1>5. free \in 0..free
  BY <1>3
<1>6. /\ value' \in Nat
      /\ woken' \subseteq Requests
      /\ value' + Cardinality(woken') = free + Cardinality(woken \ {r})
  BY <1>1, <1>2, <1>3, <1>4, <1>5, HandedOver
<1>7. value' > 0 => Image(rest) \ woken' = {}
  BY <1>1, <1>2, <1>3, <1>4, EverythingHandedOn
<1>8. Image(waiters') = Image(rest) /\ Distinct(waiters')
  BY <1>1, <1>4 DEF Image, Distinct
<1>9. value' + Cardinality(woken') = value + Cardinality(woken)
  BY <1>3, <1>6
<1>10. QED
  BY <1>1, <1>4, <1>6, <1>7, <1>8, <1>9

LEMMA ResumeEffect ==
  ASSUME Shape, NEW r \in Requests, Resume(r)
  PROVE  /\ value' \in Nat
         /\ woken' \in SUBSET Requests
         /\ waiters' \in Seq(Requests)
         /\ Distinct(waiters')
         /\ Image(waiters') = Image(waiters) \ {r}
         /\ value' + Cardinality(woken') + 1 = value + Cardinality(woken)
         /\ value' > 0 => Image(waiters') \ woken' = {}
<1> DEFINE rest == RemoveWaiter(r)
<1>1. /\ rest \in Seq(Requests)
      /\ Distinct(rest)
      /\ Image(rest) = Image(waiters) \ {r}
  BY RemovedOnce DEF Shape, TypeInv, QueueInv, Resume
<1>2. /\ value \in Nat
      /\ IsFiniteSet(woken)
      /\ Cardinality(woken) \in Nat
      /\ woken \ {r} \in SUBSET Requests
      /\ Cardinality(woken \ {r}) \in Nat
      /\ r \in woken
  BY WokenCounted DEF Shape, TypeInv, Resume
<1>3. Cardinality(woken \ {r}) + 1 = Cardinality(woken)
  <2>1. Cardinality(woken \ {r}) = Cardinality(woken) - 1
    BY <1>2, FS_RemoveElement
  <2>2. QED
    BY <1>2, <2>1
<1>4. waiters' = rest /\ WakeUp(value, value, rest, woken \ {r})
  BY DEF Resume
<1> HIDE DEF rest
<1>5. value \in 0..value
  BY <1>2
<1>6. /\ value' \in Nat
      /\ woken' \subseteq Requests
      /\ value' + Cardinality(woken') = value + Cardinality(woken \ {r})
  BY <1>1, <1>2, <1>4, <1>5, HandedOver
<1>7. value' > 0 => Image(rest) \ woken' = {}
  BY <1>1, <1>2, <1>4, EverythingHandedOn
<1>8. Cardinality(woken') \in Nat
  BY <1>6, WokenCounted
<1>9. value' + Cardinality(woken') + 1 = value + Cardinality(woken)
  BY <1>2, <1>3, <1>6, <1>8
<1>10. Image(waiters') = Image(rest) /\ Distinct(waiters')
  BY <1>1, <1>4 DEF Image, Distinct
<1>11. QED
  BY <1>1, <1>4, <1>6, <1>7, <1>9, <1>10

LEMMA ReleaseEffect ==
  ASSUME Shape, Release
  PROVE  /\ value' \in Nat
         /\ woken' \in SUBSET Requests
         /\ waiters' = waiters
         /\ value' + Cardinality(woken') = value + 1 + Cardinality(woken)
         /\ Image(waiters) \ woken' # {} => woken' # {}
<1>1. /\ value + 1 \in Nat
      /\ 1 \in 0..(value + 1)
      /\ waiters \in Seq(Requests)
      /\ woken \in SUBSET Requests
  BY DEF Shape, TypeInv
<1>2. WakeUp(1, value + 1, waiters, woken) /\ waiters' = waiters
  BY DEF Release
<1>3. /\ value' \in Nat
      /\ woken' \subseteq Requests
      /\ value' + Cardinality(woken') = value + 1 + Cardinality(woken)
  BY <1>1, <1>2, HandedOver
<1>4. woken' = woken \cup FirstSleeping(1, waiters, woken)
  BY <1>2 DEF WakeUp
<1>5. ASSUME Image(waiters) \ woken # {}
      PROVE  FirstSleeping(1, waiters, woken) # {}
  <2>1. 1 \in Nat /\ 1 > 0
    OBVIOUS
  <2>2. QED
    BY <1>1, <1>5, <2>1, BudgetIsUsed
<1>6. QED
  BY <1>2, <1>3, <1>4, <1>5

LEMMA JobAdded ==
  ASSUME Shape, NEW j \in Jobs, j \notin Open,
         jobs' = Append(jobs, j), busy' = busy
  PROVE  /\ jobs' \in Seq(Jobs)
         /\ busy' \subseteq Jobs
         /\ Distinct(jobs')
         /\ Image(jobs') \cap busy' = {}
         /\ Open' = Open \cup {j}
<1>1. jobs \in Seq(Jobs) /\ Distinct(jobs) /\ j \in Jobs \ Image(jobs)
  BY DEF Shape, TypeInv, PoolInv, Open
<1>2. /\ Append(jobs, j) \in Seq(Jobs)
      /\ Distinct(Append(jobs, j))
      /\ Image(Append(jobs, j)) = Image(jobs) \cup {j}
  BY <1>1, AppendedOnce
<1>3. Distinct(jobs') /\ Image(jobs') = Image(jobs) \cup {j}
  BY <1>2 DEF Distinct, Image
<1>4. QED
  BY <1>2, <1>3 DEF Shape, TypeInv, PoolInv, Open

LEMMA JobStarted ==
  ASSUME Shape, StartJob
  PROVE  /\ jobs' \in Seq(Jobs)
         /\ busy' \subseteq Jobs
         /\ Distinct(jobs')
         /\ Image(jobs') \cap busy' = {}
         /\ Open' = Open
<1>1. jobs \in Seq(Jobs) /\ Distinct(jobs) /\ jobs # <<>>
  BY DEF Shape, TypeInv, PoolInv, StartJob
<1>2. /\ Head(jobs) \in Jobs
      /\ Head(jobs) \in Image(jobs)
      /\ Tail(jobs) \in Seq(Jobs)
      /\ Distinct(Tail(jobs))
      /\ Image(Tail(jobs)) = Image(jobs) \ {Head(jobs)}
  BY <1>1, TakenOnce
<1>3. jobs' = Tail(jobs) /\ busy' = busy \cup {Head(jobs)}
  BY DEF StartJob
<1>4. Distinct(jobs') /\ Image(jobs') = Image(jobs) \ {Head(jobs)}
  BY <1>2, <1>3, ZenonT(30) DEF Distinct, Image
<1>5. QED
  BY <1>2, <1>3, <1>4 DEF Shape, TypeInv, PoolInv, Open

LEMMA JobEnded ==
  ASSUME Shape, NEW j \in busy, jobs' = jobs, busy' = busy \ {j}
  PROVE  /\ jobs' \in Seq(Jobs)
         /\ busy' \subseteq Jobs
         /\ Distinct(jobs')
         /\ Image(jobs') \cap busy' = {}
         /\ Open' = Open \ {j}
<1>1. Image(jobs') = Image(jobs)
  BY DEF Image
<1>2. QED
  BY <1>1 DEF Shape, TypeInv, PoolInv, Open, Distinct

LEMMA PoolLeftAlone ==
  ASSUME Shape, UNCHANGED pool
  PROVE  /\ jobs' \in Seq(Jobs)
         /\ busy' \subseteq Jobs
         /\ Distinct(jobs')
         /\ Image(jobs') \cap busy' = {}
         /\ Open' = Open
  BY DEF Shape, TypeInv, PoolInv, Open, Distinct, Image, pool

LEMMA SemaphoreLeftAlone ==
  ASSUME Shape, UNCHANGED waiters
  PROVE  /\ waiters' \in Seq(Requests)
         /\ Distinct(waiters')
         /\ Image(waiters') = Image(waiters)
  BY DEF Shape, TypeInv, QueueInv, Distinct, Image

LEMMA WaiterAdded ==
  ASSUME Shape, NEW r \in Requests, AwaitPermit(r)
  PROVE  /\ waiters' \in Seq(Requests)
         /\ Distinct(waiters')
         /\ Image(waiters') = Image(waiters) \cup {r}
<1>1. waiters \in Seq(Requests) /\ Distinct(waiters) /\ r \in Requests \ Image(waiters)
  BY DEF Shape, TypeInv, QueueInv, AwaitPermit
<1>2. /\ Append(waiters, r) \in Seq(Requests)
      /\ Distinct(Append(waiters, r))
      /\ Image(Append(waiters, r)) = Image(waiters) \cup {r}
  BY <1>1, AppendedOnce
<1>3. QED
  BY <1>2 DEF AwaitPermit, Distinct, Image

LEMMA InitShape == Init => Shape
<1> SUFFICES ASSUME Init PROVE Shape
  OBVIOUS
<1>1. /\ Len(waiters) = 0 /\ waiters \in Seq(Requests)
      /\ Len(jobs) = 0 /\ jobs \in Seq(Jobs)
  BY EmptySeq DEF Init
<1>2. Image(waiters) = {} /\ Image(jobs) = {} /\ Distinct(waiters) /\ Distinct(jobs)
  BY <1>1 DEF Image, Distinct
<1>3. TypeInv
  BY <1>1, EndpointConstants
     DEF Init, TypeInv, EndpointConstants, Phases, Answers, WorkStates
<1>4. QueueInv /\ NoWorkYet /\ PoolInv
  BY <1>2 DEF Init, QueueInv, NoWorkYet, PoolInv, Open, Clients
<1>5. QED
  BY <1>3, <1>4 DEF Shape

\* Every step keeps the handlers, the queue and the pool in step.
LEMMA ShapeStep == Shape /\ [Next]_vars => Shape'
<1> SUFFICES ASSUME Shape, [Next]_vars
             PROVE  Shape'
  OBVIOUS
<1> USE JobNames, EndpointConstants
    DEF Shape, TypeInv, QueueInv, NoWorkYet, PoolInv, EndpointConstants,
        Clients, Phases, Answers, WorkStates
<1>1. CASE StartJob
  <2>1. Open' = Open /\ Image(waiters') = Image(waiters) /\ Distinct(waiters')
    BY <1>1, JobStarted, SemaphoreLeftAlone DEF StartJob, semaphore
  <2>2. QED
    BY <1>1, <2>1, JobStarted DEF StartJob, semaphore
<1>2. ASSUME NEW c \in Clients, Arrive(c)
      PROVE  Shape'
  <2>1. Dependencies(c) \notin Open
    BY <1>2 DEF Arrive
  <2>2. /\ jobs' \in Seq(Jobs)
        /\ busy' \subseteq Jobs
        /\ Distinct(jobs')
        /\ Image(jobs') \cap busy' = {}
        /\ Open' = Open \cup {Dependencies(c)}
    BY <1>2, <2>1, JobAdded DEF Arrive
  <2>3. Image(waiters') = Image(waiters) /\ Distinct(waiters')
    BY <1>2, SemaphoreLeftAlone DEF Arrive, semaphore
  <2>4. TypeInv'
    BY <1>2, <2>2, <2>3 DEF Arrive, semaphore
  <2>5. QueueInv' /\ NoWorkYet'
    BY <1>2, <2>3 DEF Arrive
  <2>6. PoolInv'
    BY <1>2, <2>2 DEF Arrive
  <2>7. QED
    BY <2>4, <2>5, <2>6
<1>3. ASSUME NEW r \in Requests, FinishDependencies(r)
      PROVE  Shape'
  <2>1. phase[r] = "dependencies"
    BY <1>3 DEF FinishDependencies, Open
  <2>2. /\ jobs' \in Seq(Jobs)
        /\ busy' \subseteq Jobs
        /\ Distinct(jobs')
        /\ Image(jobs') \cap busy' = {}
        /\ Open' = Open \ {Dependencies(r)}
    BY <1>3, JobEnded DEF FinishDependencies
  <2>3. Image(waiters') = Image(waiters) /\ Distinct(waiters')
    BY <1>3, SemaphoreLeftAlone DEF FinishDependencies, semaphore
  <2>4. TypeInv'
    BY <1>3, <2>2 DEF FinishDependencies, Answer, semaphore
  <2>5. QueueInv' /\ NoWorkYet' /\ PoolInv'
    BY <1>3, <2>1, <2>2, <2>3 DEF FinishDependencies, Answer
  <2>6. QED
    BY <2>4, <2>5
<1>4. ASSUME NEW r \in Requests, AcquireAtOnce(r)
      PROVE  Shape'
  <2>1. Open' = Open
    BY <1>4, PoolLeftAlone DEF AcquireAtOnce
  <2>2. Image(waiters') = Image(waiters) /\ Distinct(waiters')
    BY <1>4, SemaphoreLeftAlone DEF AcquireAtOnce
  <2>3. TypeInv'
    BY <1>4 DEF AcquireAtOnce, Locked, StartTask, pool
  <2>4. QueueInv' /\ NoWorkYet'
    BY <1>4, <2>2 DEF AcquireAtOnce, StartTask
  <2>5. PoolInv'
    BY <1>4, <2>1, PoolLeftAlone DEF AcquireAtOnce, StartTask, pool
  <2>6. QED
    BY <2>3, <2>4, <2>5
<1>5. ASSUME NEW r \in Requests, AwaitPermit(r)
      PROVE  Shape'
  <2>1. Open' = Open
    BY <1>5, PoolLeftAlone DEF AwaitPermit
  <2>2. TypeInv'
    BY <1>5, WaiterAdded DEF AwaitPermit, pool
  <2>3. QueueInv'
    <3>1. Image(waiters') = Image(waiters) \cup {r} /\ Distinct(waiters')
      BY <1>5, WaiterAdded
    <3>2. phase' = [phase EXCEPT ![r] = "queued"]
      BY <1>5 DEF AwaitPermit
    <3>3. QED
      BY <3>1, <3>2
  <2>4. NoWorkYet'
    BY <1>5 DEF AwaitPermit
  <2>5. PoolInv'
    BY <1>5, <2>1, PoolLeftAlone DEF AwaitPermit, pool
  <2>6. QED
    BY <2>2, <2>3, <2>4, <2>5
<1>6. ASSUME NEW r \in Requests, Resume(r)
      PROVE  Shape'
  <2>1. Open' = Open
    BY <1>6, PoolLeftAlone DEF Resume
  <2>2. TypeInv'
    BY <1>6, ResumeEffect DEF Resume, StartTask, pool
  <2>3. QueueInv'
    <3>1. Image(waiters') = Image(waiters) \ {r} /\ Distinct(waiters')
      BY <1>6, ResumeEffect
    <3>2. phase' = [phase EXCEPT ![r] = "executing"]
      BY <1>6 DEF Resume, StartTask
    <3>3. QED
      BY <3>1, <3>2
  <2>4. NoWorkYet'
    BY <1>6 DEF Resume, StartTask
  <2>5. PoolInv'
    BY <1>6, <2>1, PoolLeftAlone DEF Resume, StartTask, pool
  <2>6. QED
    BY <2>2, <2>3, <2>4, <2>5
<1>7. ASSUME NEW r \in Requests, NEW a \in {"503", "cancelled"},
             phase[r] = "queued", Abandon(r), Answer(r, a), UNCHANGED <<work, pool>>
      PROVE  Shape'
  <2>1. Open' = Open
    BY <1>7, PoolLeftAlone
  <2>2. TypeInv'
    BY <1>7, AbandonEffect DEF Answer, pool
  <2>3. QueueInv' /\ NoWorkYet'
    BY <1>7, AbandonEffect DEF Answer
  <2>4. PoolInv'
    BY <1>7, <2>1, PoolLeftAlone DEF Answer, pool
  <2>5. QED
    BY <2>2, <2>3, <2>4
<1>8. ASSUME NEW r \in Requests, NEW a \in {"completed", "504", "cancelled"},
             phase[r] = "executing", Answer(r, a), UNCHANGED <<work, semaphore, pool>>
      PROVE  Shape'
  <2>1. Open' = Open
    BY <1>8, PoolLeftAlone
  <2>2. Image(waiters') = Image(waiters) /\ Distinct(waiters')
    BY <1>8, SemaphoreLeftAlone DEF semaphore
  <2>3. TypeInv'
    BY <1>8 DEF Answer, semaphore, pool
  <2>4. QueueInv' /\ NoWorkYet'
    BY <1>8, <2>2 DEF Answer
  <2>5. PoolInv'
    BY <1>8, <2>1, PoolLeftAlone DEF Answer, pool
  <2>6. QED
    BY <2>3, <2>4, <2>5
<1>9. ASSUME NEW r \in Requests, RunTask(r)
      PROVE  Shape'
  <2>1. Work(r) \notin Open
    BY <1>9 DEF RunTask
  <2>2. /\ jobs' \in Seq(Jobs)
        /\ busy' \subseteq Jobs
        /\ Distinct(jobs')
        /\ Image(jobs') \cap busy' = {}
        /\ Open' = Open \cup {Work(r)}
    BY <1>9, <2>1, JobAdded DEF RunTask
  <2>3. Image(waiters') = Image(waiters) /\ Distinct(waiters')
    BY <1>9, SemaphoreLeftAlone DEF RunTask, semaphore
  <2>4. TypeInv'
    BY <1>9, <2>2 DEF RunTask, semaphore
  <2>5. QueueInv' /\ NoWorkYet' /\ PoolInv'
    BY <1>9, <2>2, <2>3 DEF RunTask
  <2>6. QED
    BY <2>4, <2>5
<1>10. ASSUME NEW r \in Requests, FinishWork(r)
       PROVE  Shape'
  <2>1. work[r] = "pooled"
    BY <1>10 DEF FinishWork, Open
  <2>2. /\ jobs' \in Seq(Jobs)
        /\ busy' \subseteq Jobs
        /\ Distinct(jobs')
        /\ Image(jobs') \cap busy' = {}
        /\ Open' = Open \ {Work(r)}
    BY <1>10, JobEnded DEF FinishWork
  <2>3. /\ value' \in Nat
        /\ woken' \in SUBSET Requests
        /\ waiters' = waiters
    BY <1>10, ReleaseEffect DEF FinishWork
  <2>4. Image(waiters') = Image(waiters) /\ Distinct(waiters')
    BY <2>3, SemaphoreLeftAlone
  <2>5. TypeInv'
    BY <1>10, <2>2, <2>3 DEF FinishWork
  <2>6. QueueInv' /\ NoWorkYet' /\ PoolInv'
    BY <1>10, <2>1, <2>2, <2>4 DEF FinishWork
  <2>7. QED
    BY <2>5, <2>6
<1>11. ASSUME NEW p \in Probes, FinishProbe(p)
       PROVE  Shape'
  <2>1. phase[p] = "dependencies" /\ p \notin Requests /\ p \in Clients
    BY <1>11 DEF FinishProbe, Open
  <2>2. /\ jobs' \in Seq(Jobs)
        /\ busy' \subseteq Jobs
        /\ Distinct(jobs')
        /\ Image(jobs') \cap busy' = {}
        /\ Open' = Open \ {Dependencies(p)}
    BY <1>11, JobEnded DEF FinishProbe
  <2>3. Image(waiters') = Image(waiters) /\ Distinct(waiters')
    BY <1>11, SemaphoreLeftAlone DEF FinishProbe, semaphore
  <2>4. TypeInv'
    BY <1>11, <2>2 DEF FinishProbe, semaphore
  <2>5. QueueInv' /\ NoWorkYet' /\ PoolInv'
    BY <1>11, <2>1, <2>2, <2>3 DEF FinishProbe
  <2>6. QED
    BY <2>4, <2>5
<1>12. CASE UNCHANGED vars
  <2>1. Open' = Open /\ Image(waiters') = Image(waiters) /\ Distinct(waiters')
    BY <1>12, PoolLeftAlone, SemaphoreLeftAlone DEF vars, semaphore
  <2>2. QED
    BY <1>12, <2>1, PoolLeftAlone DEF vars, semaphore, pool
<1>13. ASSUME NEW r \in Requests, DeadlinePasses(r) \/ Cancelled(r)
       PROVE  Shape'
  BY <1>7, <1>8, <1>13
     DEF DeadlinePasses, Cancelled, CapacityTimeout, CancelQueued,
         InferenceTimeout, CancelExecuting, DeadlineLeavesTask
<1>14. ASSUME NEW r \in Requests, Respond(r)
       PROVE  Shape'
  BY <1>8, <1>14 DEF Respond
<1>15. QED
  BY <1>1, <1>2, <1>3, <1>4, <1>5, <1>6, <1>9, <1>10, <1>11, <1>12, <1>13, <1>14
     DEF Next, Proceed

----------------------------------------------------------------------------
(* Permits *)

LEMMA HoldersCounted ==
  /\ IsFiniteSet(Holders) /\ Cardinality(Holders) \in Nat
  /\ \A r : /\ r \in Holders =>
                 Cardinality(Holders \ {r}) = Cardinality(Holders) - 1
            /\ r \notin Holders =>
                 Cardinality(Holders \cup {r}) = Cardinality(Holders) + 1
<1>1. Holders \in SUBSET Requests
  BY DEF Holders
<1>2. IsFiniteSet(Holders) /\ Cardinality(Holders) \in Nat
  BY <1>1, WokenCounted
<1>3. QED
  BY <1>2, FS_AddElement, FS_RemoveElement

LEMMA InitPermits == Init => PermitsConserved
<1> SUFFICES ASSUME Init PROVE PermitsConserved
  OBVIOUS
<1>1. Holders = {} /\ woken = {}
  BY DEF Init, Holders
<1>2. Cardinality(Holders) = 0 /\ Cardinality(woken) = 0
  BY <1>1, FS_EmptySet
<1>3. QED
  BY <1>2, EndpointConstants DEF Init, PermitsConserved, EndpointConstants

LEMMA PermitsStep == Shape /\ PermitsConserved /\ [Next]_vars => PermitsConserved'
<1> SUFFICES ASSUME Shape, PermitsConserved, [Next]_vars
             PROVE  PermitsConserved'
  OBVIOUS
<1> DEFINE Sum == value + Cardinality(woken) + Cardinality(Holders)
<1>0. /\ value \in Nat
      /\ Cardinality(woken) \in Nat
      /\ Cardinality(Holders) \in Nat
      /\ work \in [Requests -> WorkStates]
  BY WokenCounted, HoldersCounted DEF Shape, TypeInv
\* Steps that move no permit.
<1>1. ASSUME UNCHANGED semaphore, Holders' = Holders
      PROVE  PermitsConserved'
  BY <1>1 DEF PermitsConserved, semaphore
<1>2. CASE StartJob \/ UNCHANGED vars
  BY <1>1, <1>2 DEF StartJob, vars, Holders
<1>3. ASSUME NEW c \in Clients, Arrive(c)
      PROVE  PermitsConserved'
  <2>1. Holders' = Holders
    BY <1>0, <1>3 DEF Arrive, Holders
  <2>2. QED
    BY <1>1, <1>3, <2>1 DEF Arrive
<1>4. ASSUME NEW r \in Requests, AcquireAtOnce(r)
      PROVE  PermitsConserved'
  <2>1. r \notin Holders
    BY <1>4 DEF AcquireAtOnce, Holders, Shape, NoWorkYet
  <2>2. Holders' = Holders \cup {r}
    BY <1>0, <1>4 DEF AcquireAtOnce, StartTask, Holders
  <2>3. Cardinality(Holders') = Cardinality(Holders) + 1
    BY <2>1, <2>2, HoldersCounted
  <2>4. QED
    BY <1>0, <1>4, <2>3 DEF AcquireAtOnce, PermitsConserved
<1>5. ASSUME NEW r \in Requests, Resume(r)
      PROVE  PermitsConserved'
  <2>1. r \notin Holders
    BY <1>5 DEF Resume, Holders, Shape, NoWorkYet
  <2>2. Holders' = Holders \cup {r}
    BY <1>0, <1>5 DEF Resume, StartTask, Holders
  <2>3. Cardinality(Holders') = Cardinality(Holders) + 1
    BY <2>1, <2>2, HoldersCounted
  <2>4. /\ value' + Cardinality(woken') + 1 = value + Cardinality(woken)
        /\ value' \in Nat
        /\ Cardinality(woken') \in Nat
    BY <1>5, ResumeEffect, WokenCounted
  <2>5. QED
    BY <1>0, <2>3, <2>4 DEF PermitsConserved
<1>6. ASSUME NEW r \in Requests, phase[r] = "queued", Abandon(r), UNCHANGED work
      PROVE  PermitsConserved'
  <2>1. Holders' = Holders
    BY <1>6 DEF Holders
  <2>2. value' + Cardinality(woken') = value + Cardinality(woken)
    BY <1>6, AbandonEffect
  <2>3. QED
    BY <2>1, <2>2 DEF PermitsConserved
<1>7. ASSUME NEW r \in Requests, FinishWork(r)
      PROVE  PermitsConserved'
  <2>1. work[r] = "pooled"
    BY <1>7 DEF FinishWork, Open, Shape, PoolInv
  <2>2. r \in Holders /\ Holders' = Holders \ {r}
    BY <1>0, <1>7, <2>1 DEF FinishWork, Holders
  <2>3. Cardinality(Holders') = Cardinality(Holders) - 1
    BY <2>2, HoldersCounted
  <2>4. value' + Cardinality(woken') = value + 1 + Cardinality(woken)
    BY <1>7, ReleaseEffect DEF FinishWork
  <2>5. QED
    BY <1>0, <2>3, <2>4 DEF PermitsConserved
<1>8. ASSUME NEW r \in Requests, RunTask(r)
      PROVE  PermitsConserved'
  <2>1. Holders' = Holders
    BY <1>0, <1>8 DEF RunTask, Holders
  <2>2. QED
    BY <1>1, <1>8, <2>1 DEF RunTask
<1>9. ASSUME NEW r \in Requests,
             FinishDependencies(r) \/ AwaitPermit(r) \/ Respond(r)
      PROVE  PermitsConserved'
  BY <1>9 DEF FinishDependencies, AwaitPermit, Respond, PermitsConserved,
              Holders, semaphore
<1>10. ASSUME NEW r \in Requests, DeadlinePasses(r) \/ Cancelled(r)
       PROVE  PermitsConserved'
  <2>1. CASE InferenceTimeout(r) \/ CancelExecuting(r)
    BY <1>1, <2>1 DEF InferenceTimeout, CancelExecuting, DeadlineLeavesTask, Holders
  <2>2. CASE CapacityTimeout(r) \/ CancelQueued(r)
    BY <1>6, <2>2 DEF CapacityTimeout, CancelQueued
  <2>3. QED
    BY <1>10, <2>1, <2>2 DEF DeadlinePasses, Cancelled
<1>11. ASSUME NEW p \in Probes, FinishProbe(p)
       PROVE  PermitsConserved'
  BY <1>1, <1>11 DEF FinishProbe, Holders
<1>12. QED
  BY <1>2, <1>3, <1>4, <1>5, <1>7, <1>8, <1>9, <1>10, <1>11 DEF Next, Proceed

----------------------------------------------------------------------------
(* Wake-ups *)

LEMMA WakeupStep == Shape /\ NoLostWakeup /\ [Next]_vars => NoLostWakeup'
<1> SUFFICES ASSUME Shape, NoLostWakeup, [Next]_vars
             PROVE  NoLostWakeup'
  OBVIOUS
<1>1. ASSUME UNCHANGED semaphore
      PROVE  NoLostWakeup'
  BY <1>1 DEF NoLostWakeup, semaphore, Image
<1>2. ASSUME NEW r \in Requests, AcquireAtOnce(r)
      PROVE  NoLostWakeup'
  <2>1. Len(waiters) = 0 /\ waiters' = waiters
    BY <1>2, EmptySeq DEF AcquireAtOnce, Locked
  <2>2. Image(waiters') = {}
    BY <2>1 DEF Image
  <2>3. QED
    BY <2>2 DEF NoLostWakeup
<1>3. ASSUME NEW r \in Requests, AwaitPermit(r)
      PROVE  NoLostWakeup'
  <2>1. UNCHANGED <<value, woken>> /\ Locked
    BY <1>3 DEF AwaitPermit
  <2>2. CASE value = 0
    BY <2>1, <2>2 DEF NoLostWakeup
  <2>3. CASE waiters # <<>> /\ value > 0
    <3>1. Image(waiters) # {}
      <4>1. Len(waiters) \in Nat \ {0}
        BY <2>3, EmptySeq DEF Shape, TypeInv
      <4>2. waiters[1] \in Image(waiters)
        BY <4>1 DEF Image
      <4>3. QED
        BY <4>2
    <3>2. woken # {}
      BY <2>3, <3>1 DEF NoLostWakeup
    <3>3. QED
      BY <2>1, <3>2 DEF NoLostWakeup
  <2>4. QED
    BY <2>1, <2>2, <2>3 DEF Locked, Shape, TypeInv
<1>4. ASSUME NEW r \in Requests, Resume(r)
      PROVE  NoLostWakeup'
  BY <1>4, ResumeEffect DEF NoLostWakeup
<1>5. ASSUME NEW r \in Requests, phase[r] = "queued", Abandon(r)
      PROVE  NoLostWakeup'
  BY <1>5, AbandonEffect DEF NoLostWakeup
<1>6. ASSUME NEW r \in Requests, FinishWork(r)
      PROVE  NoLostWakeup'
  <2>1. waiters' = waiters /\ (Image(waiters) \ woken' # {} => woken' # {})
    BY <1>6, ReleaseEffect DEF FinishWork
  <2>2. Image(waiters') = Image(waiters)
    BY <2>1 DEF Image
  <2>3. QED
    BY <2>1, <2>2 DEF NoLostWakeup
<1>7. CASE StartJob \/ UNCHANGED vars
  BY <1>1, <1>7 DEF StartJob, vars
<1>8. ASSUME NEW c \in Clients, Arrive(c)
      PROVE  NoLostWakeup'
  BY <1>1, <1>8 DEF Arrive
<1>9. ASSUME NEW r \in Requests,
             FinishDependencies(r) \/ Respond(r) \/ RunTask(r)
      PROVE  NoLostWakeup'
  BY <1>1, <1>9 DEF FinishDependencies, Respond, RunTask
<1>10. ASSUME NEW r \in Requests, DeadlinePasses(r) \/ Cancelled(r)
       PROVE  NoLostWakeup'
  BY <1>1, <1>5, <1>10
     DEF DeadlinePasses, Cancelled, CapacityTimeout, CancelQueued,
         InferenceTimeout, CancelExecuting, DeadlineLeavesTask
<1>11. ASSUME NEW p \in Probes, FinishProbe(p)
       PROVE  NoLostWakeup'
  BY <1>1, <1>11 DEF FinishProbe
<1>12. QED
  BY <1>2, <1>3, <1>4, <1>6, <1>7, <1>8, <1>9, <1>10, <1>11 DEF Next, Proceed

----------------------------------------------------------------------------
(* Theorems *)

EndpointInv == Shape /\ PermitsConserved /\ NoLostWakeup

LEMMA InvariantHolds == Spec => []EndpointInv
<1>1. Init => NoLostWakeup
  BY EmptySeq DEF Init, NoLostWakeup, Image
<1>2. Init => EndpointInv
  BY <1>1, InitShape, InitPermits DEF EndpointInv
<1>3. EndpointInv /\ [Next]_vars => EndpointInv'
  BY ShapeStep, PermitsStep, WakeupStep DEF EndpointInv
<1>4. QED
  BY <1>2, <1>3, PTL DEF Spec

LEMMA PermitsBounded ==
  ASSUME Shape, PermitsConserved
  PROVE  /\ value \in 0..MaxConcurrency
         /\ Cardinality(Holders) <= MaxConcurrency
<1>1. /\ value \in Nat
      /\ Cardinality(woken) \in Nat
      /\ Cardinality(Holders) \in Nat
      /\ MaxConcurrency \in Nat
  BY WokenCounted, HoldersCounted, EndpointConstants
     DEF Shape, TypeInv, EndpointConstants
<1>2. QED
  BY <1>1 DEF PermitsConserved

\* Whatever the clients, permits and threads, every variable keeps its type;
\* in particular the semaphore never holds more permits than it was given.
THEOREM TypeCorrect == Spec => []TypeOK
<1>1. EndpointInv => TypeOK
  BY PermitsBounded DEF EndpointInv, Shape, TypeInv, TypeOK
<1>2. QED
  BY <1>1, InvariantHolds, PTL

\* recommend_price neither loses nor makes up a permit, in whatever order
\* deadlines, cancellations and ends of work come.
THEOREM PermitsAreConserved == Spec => []PermitsConserved
<1>1. EndpointInv => PermitsConserved
  BY DEF EndpointInv
<1>2. QED
  BY <1>1, InvariantHolds, PTL

\* At most recommendation_max_concurrency recommendations run, however many of
\* them outlive their requests and however many threads there are.
THEOREM WorkIsBounded == Spec => []BoundedWork
<1>1. EndpointInv => BoundedWork
  <2> SUFFICES ASSUME EndpointInv PROVE BoundedWork
    OBVIOUS
  <2> DEFINE Running == {r \in Requests : Work(r) \in busy}
  <2>1. Running \in SUBSET Holders
    BY DEF EndpointInv, Shape, PoolInv, Open, Holders
  <2>2. IsFiniteSet(Running) /\ Cardinality(Running) <= Cardinality(Holders)
    BY <2>1, HoldersCounted, FS_Subset
  <2>3. /\ Cardinality(Running) \in Nat
        /\ Cardinality(Holders) \in Nat
        /\ MaxConcurrency \in Nat
        /\ Cardinality(Holders) <= MaxConcurrency
    BY <2>2, FS_CardinalityType, HoldersCounted, PermitsBounded,
       EndpointConstants DEF EndpointInv, EndpointConstants
  <2>4. QED
    BY <2>2, <2>3 DEF BoundedWork
<1>2. QED
  BY <1>1, InvariantHolds, PTL

\* The wait of a request is never left to its capacity deadline while a permit
\* lies idle.
THEOREM NoWakeupIsLost == Spec => []NoLostWakeup
<1>1. EndpointInv => NoLostWakeup
  BY DEF EndpointInv
<1>2. QED
  BY <1>1, InvariantHolds, PTL
=============================================================================
