---------------------- MODULE RetrainingAttemptProofs ----------------------
(***************************************************************************)
(* Theorems about RetrainingAttempt and about ChronologicalSplit, which it *)
(* extends, for any frames, fractions, embargo, minimum evidence,          *)
(* regressors, champions, criteria, stored runs, recent frames and drift   *)
(* settings, and proofs the TLA+ proof system checks.                      *)
(***************************************************************************)
EXTENDS RetrainingAttempt, SumTheorems

----------------------------------------------------------------------------
(* The sorted dates: an index for every date, and a date for every index   *)
(* below their number.                                                     *)

LEMMA DatesAreDays ==
  ASSUME TypeOK
  PROVE  /\ \A r \in Rows : /\ frame[r].asOf \in Dates
                            /\ frame[r].asOf \in Int
                            /\ frame[r].stay \in Int
                            /\ frame[r].outcome \in Int
         /\ Dates \in SUBSET Int
         /\ IsFiniteSet(Dates)
         /\ Cardinality(Dates) \in Nat
<1>1. \A r \in Rows : /\ frame[r] \in Observations
                      /\ frame[r].asOf \in Dates
  BY SplitConstants DEF TypeOK, SplitConstants, Dates
<1>2. \A r \in Rows : /\ frame[r].asOf \in Int
                      /\ frame[r].stay \in Int
                      /\ frame[r].outcome \in Int
  BY <1>1 DEF Observations
<1>3. Dates \in SUBSET Int
  BY <1>2 DEF Dates
<1>4. IsFiniteSet(Dates)
  <2> DEFINE date == [r \in Rows |-> frame[r].asOf]
  <2>1. date \in Surjection(Rows, Dates)
    BY DEF Surjection, Dates
  <2>2. QED
    BY <2>1, SplitConstants, FS_Surjection DEF SplitConstants
<1>5. QED
  BY <1>1, <1>2, <1>3, <1>4, FS_CardinalityType

LEMMA IndicesAreABijection ==
  ASSUME TypeOK
  PROVE  LET n == Cardinality(Dates)
             index == [d \in Dates |-> Index(d)]
         IN  /\ index \in Injection(Dates, 0..(n - 1))
             /\ index \in Surjection(Dates, 0..(n - 1))
             /\ \A d, e \in Dates : d < e => Index(d) < Index(e)
<1> DEFINE n == Cardinality(Dates)
           index == [d \in Dates |-> Index(d)]
           Until(d) == {e \in Dates : e < d}
<1>1. /\ Dates \in SUBSET Int
      /\ IsFiniteSet(Dates)
      /\ n \in Nat
  BY DatesAreDays
<1>2. ASSUME NEW d \in Dates
      PROVE  /\ IsFiniteSet(Until(d))
             /\ Index(d) = Cardinality(Until(d))
             /\ Index(d) \in 0..(n - 1)
  <2>1. Until(d) \in SUBSET Dates /\ d \notin Until(d)
    BY <1>1
  <2>2. /\ IsFiniteSet(Until(d))
        /\ Cardinality(Until(d)) <= n
        /\ Cardinality(Until(d)) # n
    BY <1>1, <2>1, FS_Subset
  <2>3. Cardinality(Until(d)) \in Nat
    BY <2>2, FS_CardinalityType
  <2>4. QED
    BY <1>1, <2>2, <2>3 DEF Index
<1>3. ASSUME NEW d \in Dates, NEW e \in Dates, d < e
      PROVE  Index(d) < Index(e)
  <2>1. Until(d) \in SUBSET Until(e)
    <3>1. \A x \in Dates : x < d => x < e
      <4>1. \A x \in Dates : x \in Int
        BY <1>1
      <4>2. QED
        BY <1>3, <4>1
    <3>2. QED
      BY <3>1
  <2>2. d \in Until(e) /\ d \notin Until(d)
    <3>1. d \in Int /\ ~(d < d)
      BY <1>1
    <3>2. QED
      BY <1>3, <3>1
  <2>3. /\ Cardinality(Until(d)) <= Cardinality(Until(e))
        /\ Cardinality(Until(d)) # Cardinality(Until(e))
    BY <1>2, <2>1, <2>2, FS_Subset
  <2>4. QED
    BY <1>1, <1>2, <2>3
<1>4. index \in Injection(Dates, 0..(n - 1))
  <2>1. index \in [Dates -> 0..(n - 1)]
    BY <1>2
  <2>2. ASSUME NEW d \in Dates, NEW e \in Dates, index[d] = index[e]
        PROVE  d = e
    <3>1. Index(d) = Index(e) /\ Index(d) \in Int
      <4>1. Index(d) \in 0..(n - 1)
        BY <1>2
      <4>2. Index(d) = Index(e)
        BY <2>2
      <4>3. QED
        BY <1>1, <4>1, <4>2
    <3>2. ~(d < e) /\ ~(e < d)
      BY <1>3, <3>1
    <3>3. d \in Int /\ e \in Int
      BY <1>1
    <3>4. QED
      BY <3>2, <3>3
  <2> HIDE DEF index, n
  <2>3. QED
    BY <2>1, <2>2 DEF Injection, IsInjective
<1>5. index \in Surjection(Dates, 0..(n - 1))
  <2>1. IsFiniteSet(0..(n - 1)) /\ Cardinality(0..(n - 1)) = n
    BY <1>1, FS_Interval
  <2>2. QED
    BY <1>1, <1>4, <2>1, FS_Injection
<1>6. QED
  BY <1>3, <1>4, <1>5

\* dates[i] exists, and the dates from index i on are not before it.
LEMMA DatesFromIndex ==
  ASSUME TypeOK, NEW i \in 0..(Cardinality(Dates) - 1)
  PROVE  /\ DateAt(i) \in Dates
         /\ Index(DateAt(i)) = i
         /\ \A d \in Dates : i <= Index(d) => DateAt(i) <= d
<1>1. /\ Dates \in SUBSET Int
      /\ Cardinality(Dates) \in Nat
  BY DatesAreDays
<1>2. \E d \in Dates : Index(d) = i
  BY IndicesAreABijection DEF Surjection
<1>3. DateAt(i) \in Dates /\ Index(DateAt(i)) = i
  BY <1>2 DEF DateAt
<1>4. ASSUME NEW d \in Dates, i <= Index(d), d < DateAt(i)
      PROVE  FALSE
  <2>1. Index(d) < i
    BY <1>3, <1>4, IndicesAreABijection
  <2>2. Index(d) \in 0..(Cardinality(Dates) - 1)
    BY IndicesAreABijection DEF Injection
  <2>3. QED
    BY <1>1, <1>4, <2>1, <2>2
<1>5. ASSUME NEW d \in Dates, i <= Index(d)
      PROVE  DateAt(i) <= d
  <2>1. d \in Int /\ DateAt(i) \in Int
    BY <1>1, <1>3
  <2>2. ~(d < DateAt(i))
    BY <1>4, <1>5
  <2>3. QED
    BY <2>1, <2>2
<1>6. QED
  BY <1>3, <1>5

----------------------------------------------------------------------------
(* Windows and partitions *)

Cut == {"cut", "purged", "evidenced", "split", "empty partition",
        "insufficient evidence"}

WindowsCut ==
  /\ 1 <= trainEnd
  /\ trainEnd < calibrationEnd
  /\ calibrationEnd < Cardinality(Dates)

\* Each window lies at or after the start its predecessors are purged against.
LEMMA WindowsAreOrdered ==
  ASSUME TypeOK, WindowsCut
  PROVE  /\ NextStart("train") \in Int
         /\ NextStart("calibration") \in Int
         /\ NextStart("train") <= NextStart("calibration")
         /\ \A d \in Window("calibration") : NextStart("train") <= d
         /\ \A d \in Window("test") : NextStart("calibration") <= d
<1>1. /\ Dates \in SUBSET Int
      /\ Cardinality(Dates) \in Nat
      /\ trainEnd \in 0..(Cardinality(Dates) - 1)
      /\ calibrationEnd \in 0..(Cardinality(Dates) - 1)
      /\ trainEnd <= calibrationEnd
  BY DatesAreDays DEF TypeOK, WindowsCut
<1>2. /\ DateAt(trainEnd) \in Dates
      /\ \A d \in Dates : trainEnd <= Index(d) => DateAt(trainEnd) <= d
  BY <1>1, DatesFromIndex
<1>3. /\ DateAt(calibrationEnd) \in Dates
      /\ Index(DateAt(calibrationEnd)) = calibrationEnd
      /\ \A d \in Dates : calibrationEnd <= Index(d) => DateAt(calibrationEnd) <= d
  BY <1>1, DatesFromIndex
<1>4. /\ NextStart("train") = DateAt(trainEnd)
      /\ NextStart("calibration") = DateAt(calibrationEnd)
  BY DEF NextStart
<1>5. /\ \A d \in Window("calibration") : d \in Dates /\ trainEnd <= Index(d)
      /\ \A d \in Window("test") : d \in Dates /\ calibrationEnd <= Index(d)
  BY DEF Window
<1>6. QED
  BY <1>1, <1>2, <1>3, <1>4, <1>5

LEMMA PartitionFacts ==
  ASSUME TypeOK
  PROVE  /\ \A w \in Windows : \A r \in Partition(w) :
              r \in Rows /\ frame[r].asOf \in Window(w)
         /\ \A w \in {"train", "calibration"} : \A r \in Partition(w) :
              frame[r].outcome < NextStart(w) - Embargo
  BY DEF Partition, InWindow, LabelKnown

LEMMA LabelsLieBefore ==
  ASSUME TypeOK, WindowsCut,
         NEW w \in {"train", "calibration"}, NEW x \in {"calibration", "test"},
         w # x, NEW r \in Partition(w), NEW q \in Partition(x)
  PROVE  frame[r].outcome + Embargo < frame[q].asOf
<1>1. /\ r \in Rows
      /\ frame[r].outcome < NextStart(w) - Embargo
      /\ q \in Rows
      /\ frame[q].asOf \in Window(x)
  BY PartitionFacts DEF Windows
<1>2. /\ frame[r].outcome \in Int
      /\ frame[q].asOf \in Int
      /\ Embargo \in Int
  BY <1>1, DatesAreDays, SplitConstants DEF SplitConstants, SplitterAccepts
<1>3. NextStart(w) \in Int
  BY WindowsAreOrdered
<1>4. NextStart(w) <= frame[q].asOf
  <2>1. CASE x = "calibration"
    BY <1>1, <2>1, WindowsAreOrdered
  <2>2. CASE x = "test"
    <3>1. /\ NextStart("calibration") <= frame[q].asOf
          /\ NextStart("train") <= NextStart("calibration")
          /\ NextStart("train") \in Int
          /\ NextStart("calibration") \in Int
      BY <1>1, <2>2, WindowsAreOrdered
    <3>2. QED
      BY <1>2, <3>1
  <2>3. QED
    BY <2>1, <2>2
<1>5. QED
  BY <1>1, <1>2, <1>3, <1>4

\* The label of a stay is known after the stay, and every decision about it
\* precedes it: so a later window has no snapshot of a stay that passed a purge.
LEMMA StaysLieApart ==
  ASSUME TypeOK, WindowsCut, ContractHolds
  PROVE  StaysApart
<1>1. ASSUME NEW w \in {"train", "calibration"}, NEW x \in {"calibration", "test"},
             w # x, NEW r \in Partition(w), NEW q \in Partition(x),
             Stay(r) = Stay(q)
      PROVE  FALSE
  <2>0. DOMAIN frame = Rows
    BY SplitConstants DEF SplitConstants, TypeOK
  <2>1. r \in Rows /\ q \in Rows
    BY PartitionFacts DEF Windows
  <2>2. /\ frame[r].stay < frame[r].outcome
        /\ frame[q].asOf <= frame[q].stay
        /\ frame[r].stay = frame[q].stay
    BY <1>1, <2>0, <2>1 DEF ContractHolds, Contract, Stay, StayAt
  <2>3. frame[r].outcome + Embargo < frame[q].asOf
    BY <1>1, LabelsLieBefore
  <2>4. /\ frame[r].outcome \in Int
        /\ frame[r].stay \in Int
        /\ frame[q].asOf \in Int
        /\ Embargo \in Nat
    BY <2>1, DatesAreDays, SplitConstants DEF SplitConstants, SplitterAccepts
  <2>5. QED
    BY <2>2, <2>3, <2>4
<1>2. ASSUME NEW w \in {"train", "calibration"}, NEW x \in {"calibration", "test"},
             w # x
      PROVE  Stays(w) \cap Stays(x) = {}
  BY <1>1, <1>2 DEF Stays
<1>3. /\ Stays("train") \cap Stays("calibration") = {}
      /\ Stays("train") \cap Stays("test") = {}
      /\ Stays("calibration") \cap Stays("test") = {}
  BY <1>2
<1>4. QED
  BY <1>3 DEF StaysApart, Windows

LEMMA DisjointCount ==
  ASSUME NEW A, NEW B, IsFiniteSet(A), IsFiniteSet(B), A \cap B = {}
  PROVE  Cardinality(A \cup B) = Cardinality(A) + Cardinality(B)
<1>1. /\ Cardinality(A) \in Nat
      /\ Cardinality(B) \in Nat
      /\ Cardinality(A \cap B) = 0
  BY FS_CardinalityType, FS_EmptySet
<1>2. Cardinality(A \cup B)
        = Cardinality(A) + Cardinality(B) - Cardinality(A \cap B)
  BY FS_Union
<1>3. QED
  BY <1>1, <1>2

LEMMA RowsAreFinite ==
  ASSUME NEW S \in SUBSET Rows
  PROVE  IsFiniteSet(S) /\ Cardinality(S) \in Nat
  BY SplitConstants, FS_Subset, FS_CardinalityType DEF SplitConstants

\* Every row is in one window, and there it is used or purged.
LEMMA PartsOfTheFrame ==
  ASSUME TypeOK, WindowsCut
  PROVE  Cardinality(Rows) =
           Cardinality(Partition("train")) + Cardinality(Purged("train"))
           + Cardinality(Partition("calibration"))
           + Cardinality(Purged("calibration")) + Cardinality(Partition("test"))
<1> DEFINE early == InWindow("train") \cup InWindow("calibration")
<1>1. \A w \in Windows : /\ InWindow(w) \in SUBSET Rows
                         /\ Partition(w) \in SUBSET Rows
                         /\ Purged(w) \in SUBSET Rows
                         /\ Partition(w) \cap Purged(w) = {}
                         /\ Partition(w) \cup Purged(w) = InWindow(w)
  BY DEF InWindow, Partition, Purged
<1>2. InWindow("test") = Partition("test")
  BY DEF InWindow, Partition
<1>3. /\ InWindow("train") \cap InWindow("calibration") = {}
      /\ early \cap InWindow("test") = {}
      /\ early \cup InWindow("test") = Rows
  <2>1. /\ trainEnd \in Int
        /\ calibrationEnd \in Int
        /\ trainEnd < calibrationEnd
    BY DEF TypeOK, WindowsCut
  <2>2. \A d \in Dates : Index(d) \in Int
    <3>1. \A d \in Dates : Index(d) \in 0..(Cardinality(Dates) - 1)
      BY IndicesAreABijection DEF Injection
    <3>2. QED
      BY <3>1, DatesAreDays
  <2>3. /\ Window("train") \cap Window("calibration") = {}
        /\ Window("train") \cap Window("test") = {}
        /\ Window("calibration") \cap Window("test") = {}
        /\ Window("train") \cup Window("calibration") \cup Window("test") = Dates
    BY <2>1, <2>2 DEF Window
  <2>4. QED
    BY <2>3, DatesAreDays DEF InWindow
<1>4. \A w \in Windows :
        Cardinality(InWindow(w)) = Cardinality(Partition(w)) + Cardinality(Purged(w))
  <2>1. ASSUME NEW w \in Windows
        PROVE  Cardinality(Partition(w) \cup Purged(w))
                 = Cardinality(Partition(w)) + Cardinality(Purged(w))
    BY <1>1, RowsAreFinite, DisjointCount
  <2>2. QED
    BY <1>1, <2>1
<1>5. Cardinality(early)
        = Cardinality(InWindow("train")) + Cardinality(InWindow("calibration"))
  BY <1>1, <1>3, RowsAreFinite, DisjointCount DEF Windows
<1>6. Cardinality(Rows) = Cardinality(early) + Cardinality(InWindow("test"))
  <2>1. early \in SUBSET Rows
    BY <1>1 DEF Windows
  <2>2. Cardinality(early \cup InWindow("test"))
          = Cardinality(early) + Cardinality(InWindow("test"))
    BY <1>1, <1>3, <2>1, RowsAreFinite, DisjointCount DEF Windows
  <2>3. QED
    BY <1>3, <2>2
<1>7. \A w \in Windows : /\ Cardinality(Partition(w)) \in Nat
                         /\ Cardinality(Purged(w)) \in Nat
  BY <1>1, RowsAreFinite
<1>8. QED
  BY <1>2, <1>4, <1>5, <1>6, <1>7 DEF Windows

----------------------------------------------------------------------------
(* The invariant *)

Attempting == {"scoped", "too few dates"} \cup Cut

SplitInv ==
  /\ TypeOK
  /\ phase \in {"validated"} \cup Attempting => ContractHolds
  /\ phase \in Cut => WindowsCut
  /\ AssertionsNeverFire

LEMMA TruncatedBelow ==
  ASSUME NEW n \in Nat, n >= 1, NEW percent \in 1..99, NEW k \in Truncated(n, percent)
  PROVE  k \in Int /\ 100 * k <= n * percent
<1>1. n * percent \in Nat
  OBVIOUS
<1>2. ASSUME NEW product \in Nat
      PROVE  product \div 100 \in Int /\ 100 * (product \div 100) <= product
  BY <1>2
<1>3. \/ k = (n * percent) \div 100
      \/ k = ((n * percent) \div 100) - 1
  BY DEF Truncated
<1>4. QED
  BY <1>1, <1>2, <1>3

LEMMA EndsTyped ==
  ASSUME NEW n \in Nat, n >= MinimumDates,
         NEW end \in TrainEnds(n), NEW next \in CalibrationEnds(n, end)
  PROVE  /\ end \in Nat
         /\ next \in Int
         /\ 1 <= end
         /\ end < next \/ next = n - 1
         /\ next < n
<1>1. \A k \in Truncated(n, TrainPercent) : k \in Int
  BY SplitConstants, TruncatedBelow DEF SplitConstants, SplitterAccepts, MinimumDates
<1>2. end \in Nat /\ 1 <= end
  BY <1>1 DEF TrainEnds, AtLeast
<1>3. \A k \in Truncated(n, TrainPercent + CalibrationPercent) : k \in Int
  <2>1. TrainPercent + CalibrationPercent \in 1..99
    BY SplitConstants DEF SplitConstants, SplitterAccepts
  <2>2. n >= 1
    BY DEF MinimumDates
  <2>3. QED
    BY <2>1, <2>2, TruncatedBelow
<1>4. next \in Int /\ (end < next \/ next = n - 1) /\ next < n
  BY <1>2, <1>3 DEF CalibrationEnds, AtLeast
<1>5. QED
  BY <1>2, <1>4

LEMMA SplitStep == SplitInv /\ [Next]_vars => SplitInv'
<1> SUFFICES ASSUME SplitInv, [Next]_vars
             PROVE  SplitInv'
  OBVIOUS
<1>1. ASSUME UNCHANGED frame
      PROVE  /\ ContractHolds' = ContractHolds
             /\ Dates' = Dates
  BY <1>1 DEF ContractHolds, Dates
<1>2. ASSUME UNCHANGED <<frame, trainEnd, calibrationEnd>>,
             phase' \in Phases \cup Failures,
             AssertionsNeverFire',
             phase' \in {"validated"} \cup Attempting => ContractHolds,
             phase' \in Cut => phase \in Cut
      PROVE  SplitInv'
  <2>1. TypeOK'
    BY <1>2 DEF SplitInv, TypeOK
  <2>2. WindowsCut' = WindowsCut
    BY <1>1, <1>2 DEF WindowsCut
  <2>3. QED
    BY <1>1, <1>2, <2>1, <2>2 DEF SplitInv
<1>3. CASE Validate \/ SchemaRejects
  BY <1>2, <1>3 DEF Validate, SchemaRejects, Check, Step, SplitInv, Phases,
     Failures, AssertionsNeverFire, Attempting, Cut
<1>4. CASE Scope \/ TooFewDates
  BY <1>2, <1>4 DEF Scope, TooFewDates, Check, Step, SplitInv, Phases,
     Failures, AssertionsNeverFire, Attempting, Cut
<1>5. CASE CutWindows
  <2> DEFINE n == Cardinality(Dates)
  <2>1. n \in Nat
    BY DatesAreDays DEF SplitInv
  <2>2. /\ n >= MinimumDates
        /\ trainEnd' \in TrainEnds(n)
        /\ calibrationEnd' \in CalibrationEnds(n, trainEnd')
        /\ phase = "scoped"
        /\ phase' = IF trainEnd' < calibrationEnd' /\ calibrationEnd' < n
                    THEN "cut" ELSE "no window"
        /\ UNCHANGED frame
    BY <1>5 DEF CutWindows, Step
  <2>3. trainEnd' \in Nat /\ calibrationEnd' \in Int /\ 1 <= trainEnd'
    BY <2>1, <2>2, EndsTyped
  <2>4. TypeOK' /\ AssertionsNeverFire' /\ ContractHolds'
    BY <1>1, <2>2, <2>3
       DEF SplitInv, TypeOK, AssertionsNeverFire, Phases, Failures, Attempting
  <2>5. phase' \in Cut => WindowsCut'
    BY <1>1, <2>2, <2>3 DEF Cut, WindowsCut
  <2>6. QED
    BY <2>4, <2>5 DEF SplitInv
<1>6. CASE Purge \/ AssertMinimumEvidence
  BY <1>2, <1>6 DEF Purge, AssertMinimumEvidence, Check, Step, SplitInv, Phases,
     Failures, AssertionsNeverFire, Attempting, Cut
<1>7. CASE AssertPartitionInvariants
  <2>1. phase = "evidenced" /\ TypeOK /\ WindowsCut /\ ContractHolds
    BY <1>7 DEF AssertPartitionInvariants, Check, Step, SplitInv, Attempting, Cut
  <2>2. StaysApart
    BY <2>1, StaysLieApart
  <2>3. LabelsBeforeBoundary
    BY <2>1, PartitionFacts DEF LabelsBeforeBoundary
  <2>4. phase' = "split" /\ UNCHANGED <<frame, trainEnd, calibrationEnd>>
    BY <1>7, <2>2, <2>3 DEF AssertPartitionInvariants, Check, Step
  <2>5. QED
    BY <1>2, <2>1, <2>4
       DEF Phases, Failures, AssertionsNeverFire, Attempting, Cut
<1>8. CASE UNCHANGED vars
  BY <1>2, <1>8 DEF vars, SplitInv, TypeOK, AssertionsNeverFire, Attempting, Cut
<1>9. QED
  BY <1>3, <1>4, <1>5, <1>6, <1>7, <1>8 DEF Next

LEMMA InvariantHolds == Spec => []SplitInv
<1>1. Init => SplitInv
  BY DEF Init, SplitInv, TypeOK, Phases, AssertionsNeverFire, Attempting, Cut
<1>2. QED
  BY <1>1, SplitStep, PTL DEF Spec

----------------------------------------------------------------------------
(* Theorems *)

\* Every phase, frame and boundary an attempt reaches has its type.
THEOREM SplitTypeCorrect == Spec => []TypeOK
<1>1. SplitInv => TypeOK
  BY DEF SplitInv
<1>2. QED
  BY <1>1, InvariantHolds, PTL

\* Whatever the frame, the fractions and the embargo, a split that is handed to
\* training uses no label that was unknown at a decision it is applied to.
THEOREM NoLabelLeaks == Spec => []NoFutureLabel
<1>1. SplitInv => NoFutureLabel
  <2> SUFFICES ASSUME SplitInv, phase = "split"
               PROVE  NoFutureLabel
    BY DEF NoFutureLabel
  <2>1. TypeOK /\ WindowsCut
    BY DEF SplitInv, Cut
  <2>2. QED
    BY <2>1, LabelsLieBefore DEF NoFutureLabel
<1>2. QED
  BY <1>1, InvariantHolds, PTL

\* _assert_partition_invariants never raises on a frame that satisfies the
\* data contract: the purge implies what it asserts.
THEOREM AssertionsAreRedundant == Spec => []AssertionsNeverFire
<1>1. SplitInv => AssertionsNeverFire
  BY DEF SplitInv
<1>2. QED
  BY <1>1, InvariantHolds, PTL

\* With a train fraction below nine tenths (the code's is seven), ten dates are
\* enough for three windows; with more, the last two can coincide.
THEOREM TenDatesSuffice ==
  ASSUME TrainPercent < 90
  PROVE  Spec => []WindowsExist
<1>1. Init => WindowsExist
  BY DEF Init, WindowsExist
<1>2. SplitInv /\ WindowsExist /\ [Next]_vars => WindowsExist'
  <2> SUFFICES ASSUME SplitInv, WindowsExist, [Next]_vars
               PROVE  WindowsExist'
    OBVIOUS
  <2>1. CASE CutWindows
    <3> DEFINE n == Cardinality(Dates)
    <3>1. n \in Nat
      BY DatesAreDays DEF SplitInv
    <3>2. /\ n >= 10
          /\ trainEnd' \in TrainEnds(n)
          /\ calibrationEnd' \in CalibrationEnds(n, trainEnd')
          /\ phase' = IF trainEnd' < calibrationEnd' /\ calibrationEnd' < n
                      THEN "cut" ELSE "no window"
      BY <2>1 DEF CutWindows, Step, MinimumDates
    <3> HIDE DEF n
    <3>3. /\ TrainPercent \in 1..89
          /\ n \in Int
          /\ n >= 10
      <4>1. TrainPercent \in 1..89
        BY SplitConstants DEF SplitConstants, SplitterAccepts
      <4>2. n >= 10
        BY <3>2
      <4>3. QED
        BY <3>1, <4>1, <4>2
    <3>4. ASSUME NEW k \in Truncated(n, TrainPercent)
          PROVE  k \in Int /\ 100 * k <= n * TrainPercent
      <4>1. n >= 1 /\ TrainPercent \in 1..99
        BY <3>3
      <4>2. QED
        BY <3>1, <4>1, TruncatedBelow
    <3>5. n * TrainPercent <= n * 89
      BY <3>1, <3>3
    <3>6. ASSUME NEW k \in Truncated(n, TrainPercent)
          PROVE  k \in Int /\ k < n - 1
      <4>1. k \in Int /\ 100 * k <= n * TrainPercent
        BY <3>4
      <4>2. n * TrainPercent \in Int
        BY <3>1, <3>3
      <4>3. 100 * k <= n * 89
        BY <3>1, <3>5, <4>1, <4>2
      <4>4. QED
        BY <3>3, <4>1, <4>3
    <3>7. trainEnd' \in Int /\ trainEnd' < n - 1
      <4>1. PICK k \in Truncated(n, TrainPercent) : trainEnd' = AtLeast(1, k)
        BY <3>2 DEF TrainEnds
      <4>2. k \in Int /\ k < n - 1
        BY <3>6
      <4>3. QED
        BY <3>3, <4>1, <4>2 DEF AtLeast
    <3>8. \/ trainEnd' < calibrationEnd'
          \/ calibrationEnd' = n - 1
      BY <3>1, <3>2, EndsTyped DEF MinimumDates
    <3>9. calibrationEnd' \in Int /\ calibrationEnd' < n
      BY <3>1, <3>2, EndsTyped DEF MinimumDates
    <3>10. trainEnd' < calibrationEnd'
      BY <3>7, <3>8
    <3>11. QED
      BY <3>2, <3>9, <3>10 DEF WindowsExist
  <2>2. CASE ~CutWindows
    BY <2>2 DEF WindowsExist, Next, vars, Check, Step, Validate, SchemaRejects,
       Scope, TooFewDates, Purge, AssertMinimumEvidence,
       AssertPartitionInvariants
  <2>3. QED
    BY <2>1, <2>2
<1>3. QED
  BY <1>1, <1>2, InvariantHolds, PTL DEF Spec

\* The row counts a training run reports add up to its frame: no observation is
\* lost between two windows or used twice.
THEOREM RowsAddUp == Spec => []RowsAccountedFor
<1>1. SplitInv => RowsAccountedFor
  BY PartsOfTheFrame DEF SplitInv, RowsAccountedFor, Cut
<1>2. QED
  BY <1>1, InvariantHolds, PTL

\* Both together: the frame is cut into three windows that share out its rows.
THEOREM NoCutLosesRows ==
  ASSUME TrainPercent < 90
  PROVE  Spec => []WindowsShareOutRows
<1>1. Spec => []WindowsExist
  BY TenDatesSuffice
<1>2. Spec => []RowsAccountedFor
  BY RowsAddUp
<1>3. WindowsExist /\ RowsAccountedFor => WindowsShareOutRows
  BY DEF WindowsShareOutRows
<1>4. QED
  BY <1>1, <1>2, <1>3, PTL

----------------------------------------------------------------------------
(* The offline commands only ever advance the split as ChronologicalSplit  *)
(* allows, so its theorems hold of them.                                   *)

LEMMA AttemptSplits == AttemptSpec => Spec
<1>1. AttemptInit => Init
  BY DEF AttemptInit
<1>2. [AttemptNext]_<<vars, attemptVars>> => [Next]_vars
  BY DEF AttemptNext, Split, FitModel, Advance, EvaluateCandidate, SaveBundle,
     CompareWithChampion, ApplyGates, LogCandidate, ReviewStoredRun, Recheck,
     MonitorDrift
<1>3. QED
  BY <1>1, <1>2, PTL DEF AttemptSpec, Spec

----------------------------------------------------------------------------
(* Storage: what Logged writes, FromMapping reads back.                    *)

\* Evidence as evaluation leaves it: functions on names of metrics.
Shaped(e) ==
  /\ e = [aggregate |-> e.aggregate, slices |-> e.slices]
  /\ "aggregate" \notin DOMAIN e.slices
  /\ e.slices = [s \in DOMAIN e.slices |-> e.slices[s]]
  /\ \A owner \in Owners(e) :
       /\ DOMAIN Of(e, owner) \subseteq Metrics
       /\ Of(e, owner) = [x \in DOMAIN Of(e, owner) |-> Of(e, owner)[x]]
  /\ AlwaysMeasured \cup {"sample_size"} \subseteq DOMAIN e.aggregate
  /\ \A s \in DOMAIN e.slices : SliceEssentials \subseteq DOMAIN e.slices[s]
  /\ \A owner \in Owners(e) : CountsAreFinite(Of(e, owner))

LEMMA KeysOfALog ==
  ASSUME NEW tables, NEW p \in DOMAIN tables, NEW owner, NEW x
  PROVE  <<p, owner, x>> \in DOMAIN Logged(tables)
           <=> owner \in Owners(tables[p]) /\ x \in DOMAIN Of(tables[p], owner)
BY DEF Logged

LEMMA ValuesOfALog ==
  ASSUME NEW tables, NEW p, NEW owner, NEW x,
         <<p, owner, x>> \in DOMAIN Logged(tables)
  PROVE  Logged(tables)[<<p, owner, x>>] = Of(tables[p], owner)[x]
BY DEF Logged

LEMMA KeysAreTriples ==
  ASSUME NEW tables, NEW key \in DOMAIN Logged(tables)
  PROVE  \E p \in DOMAIN tables : \E owner \in Owners(tables[p]) :
           \E x \in DOMAIN Of(tables[p], owner) : key = <<p, owner, x>>
BY DEF Logged

LEMMA ReadBack ==
  ASSUME NEW tables, NoPrefix \in DOMAIN tables, Shaped(tables[NoPrefix])
  PROVE  /\ Readable(Logged(tables))
         /\ FromMapping(Logged(tables)) = tables[NoPrefix]
<1> DEFINE e == tables[NoPrefix]
           log == Logged(tables)
           owners == {key[2] : key \in {k \in DOMAIN log : k[1] = NoPrefix}}
           whole == {s \in owners \ {"aggregate"} :
                       SliceEssentials \subseteq DOMAIN Unflattened(log, s)}
<1>1. \A owner, x : <<NoPrefix, owner, x>> \in DOMAIN log
                      <=> owner \in Owners(e) /\ x \in DOMAIN Of(e, owner)
  BY KeysOfALog
<1>2. ASSUME NEW owner, NEW x, <<NoPrefix, owner, x>> \in DOMAIN log
      PROVE  log[<<NoPrefix, owner, x>>] = Of(e, owner)[x]
  BY <1>2, ValuesOfALog
<1>3. \A x \in AlwaysMeasured \cup {"sample_size"} : <<NoPrefix, "aggregate", x>> \in DOMAIN log
  <2>1. "aggregate" \in Owners(e) /\ Of(e, "aggregate") = e.aggregate
    BY DEF Owners, Of
  <2>2. AlwaysMeasured \cup {"sample_size"} \subseteq DOMAIN e.aggregate
    BY DEF Shaped
  <2> HIDE DEF log, e
  <2>3. QED
    BY <1>1, <2>1, <2>2
<1>4. ASSUME NEW owner \in Owners(e)
      PROVE  Unflattened(log, owner) = Of(e, owner)
  <2>1. DOMAIN Of(e, owner) \subseteq Metrics
    BY <1>4 DEF Shaped
  <2>2. {y \in Metrics : <<NoPrefix, owner, y>> \in DOMAIN log} = DOMAIN Of(e, owner)
    BY <1>1, <1>4, <2>1
  <2>3. \A y \in DOMAIN Of(e, owner) : log[<<NoPrefix, owner, y>>] = Of(e, owner)[y]
    BY <1>1, <1>2, <1>4
  <2>4. Of(e, owner) = [x \in DOMAIN Of(e, owner) |-> Of(e, owner)[x]]
    BY <1>4 DEF Shaped
  <2> HIDE DEF log, e
  <2>5. Unflattened(log, owner)
          = [x \in DOMAIN Of(e, owner) |-> log[<<NoPrefix, owner, x>>]]
    BY <2>2 DEF Unflattened
  <2>6. QED
    BY <2>3, <2>4, <2>5
<1>5. ASSUME NEW s \in whole
      PROVE  s \in DOMAIN e.slices
  <2>1. PICK key \in DOMAIN log : key[1] = NoPrefix /\ key[2] = s
    BY <1>5
  <2>2. key \in DOMAIN Logged(tables)
    BY <2>1
  <2>3. PICK p \in DOMAIN tables : \E owner \in Owners(tables[p]) :
               \E x \in DOMAIN Of(tables[p], owner) : key = <<p, owner, x>>
    BY <2>2, KeysAreTriples
  <2>4. PICK owner \in Owners(tables[p]) :
               \E x \in DOMAIN Of(tables[p], owner) : key = <<p, owner, x>>
    BY <2>3
  <2>5. PICK x \in DOMAIN Of(tables[p], owner) : key = <<p, owner, x>>
    BY <2>4
  <2>6. p = NoPrefix /\ owner = s
    BY <2>1, <2>5
  <2>7. s \in Owners(e) /\ s # "aggregate"
    BY <1>5, <2>4, <2>6
  <2>8. QED
    BY <2>7 DEF Owners
<1>6. ASSUME NEW s \in DOMAIN e.slices
      PROVE  s \in whole
  <2>1. s \in Owners(e) /\ s # "aggregate" /\ Of(e, s) = e.slices[s]
    BY <1>6 DEF Owners, Of, Shaped
  <2>2. SliceEssentials \subseteq DOMAIN Of(e, s)
    BY <1>6, <2>1 DEF Shaped
  <2>3. <<NoPrefix, s, "sample_size">> \in DOMAIN log
    BY <1>1, <2>1, <2>2 DEF SliceEssentials
  <2> DEFINE key == <<NoPrefix, s, "sample_size">>
  <2>4. key[1] = NoPrefix /\ key[2] = s
    OBVIOUS
  <2> HIDE DEF log, e
  <2>5. s \in owners
    <3>1. key \in {k \in DOMAIN log : k[1] = NoPrefix}
      BY <2>3, <2>4
    <3> HIDE DEF key
    <3>2. QED
      BY <2>4, <3>1
  <2>6. SliceEssentials \subseteq DOMAIN Unflattened(log, s)
    BY <1>4, <2>1, <2>2
  <2>7. QED
    BY <2>1, <2>5, <2>6
<1>7. whole = DOMAIN e.slices
  BY <1>5, <1>6
<1>8. Unflattened(log, "aggregate") = e.aggregate
  BY <1>4 DEF Owners, Of
<1>9. ASSUME NEW s \in DOMAIN e.slices
      PROVE  Unflattened(log, s) = e.slices[s]
  <2>1. s \in Owners(e) /\ Of(e, s) = e.slices[s]
    BY <1>9 DEF Owners, Of, Shaped
  <2>2. QED
    BY <1>4, <2>1
<1>10. FromMapping(log)
         = [aggregate |-> Unflattened(log, "aggregate"),
            slices |-> [s \in whole |-> Unflattened(log, s)]]
  BY DEF FromMapping, WholeSlices
<1>11. [s \in whole |-> Unflattened(log, s)] = [s \in DOMAIN e.slices |-> e.slices[s]]
  <2> HIDE DEF whole, e, log
  <2>1. QED
    BY <1>7, <1>9
<1>12. e = [aggregate |-> e.aggregate, slices |-> [s \in DOMAIN e.slices |-> e.slices[s]]]
  BY DEF Shaped
<1>13. ASSUME NEW owner \in {"aggregate"} \cup whole
       PROVE  CountsAreFinite(Unflattened(log, owner))
  <2>1. owner \in Owners(e)
    BY <1>5, <1>13 DEF Owners
  <2>2. CountsAreFinite(Of(e, owner))
    BY <2>1 DEF Shaped
  <2>3. QED
    BY <1>4, <2>1, <2>2
<1>14. WholeSlices(log) = whole
  BY DEF WholeSlices
<1> HIDE DEF whole, e, log
<1>15. FromMapping(log) = e
  BY <1>8, <1>10, <1>11, <1>12
<1>16. Readable(log)
  BY <1>3, <1>13, <1>14 DEF Readable
<1>17. QED
  BY <1>15, <1>16 DEF log, e

----------------------------------------------------------------------------
(* Evaluation yields evidence of that shape.                               *)

SliceMetricNames ==
  PriceResponse \cup SliceEssentials \cup {"unique_stays"}

LEMMA MetricsOfASlice ==
  ASSUME NEW h
  PROVE  /\ DOMAIN SliceMetrics(h) = SliceMetricNames
         /\ SliceMetrics(h) = [x \in SliceMetricNames |-> SliceMetrics(h)[x]]
         /\ CountsAreFinite(SliceMetrics(h))
<1>1. DOMAIN SliceMetrics(h) = SliceMetricNames
  BY DEF SliceMetrics, SliceMetricNames, PriceResponse, SliceEssentials
<1>2. SliceMetrics(h) = [x \in DOMAIN SliceMetrics(h) |-> SliceMetrics(h)[x]]
  BY DEF SliceMetrics
<1>3. SliceMetrics(h)["sample_size"].den = 1 /\ SliceMetrics(h)["unique_stays"].den = 1
  BY DEF SliceMetrics, Count
<1>4. CountsAreFinite(SliceMetrics(h))
  BY <1>3 DEF CountsAreFinite, Finite
<1>5. QED
  BY <1>1, <1>2, <1>4

LEMMA MetricsOfAHoldout ==
  ASSUME NEW h
  PROVE  /\ DOMAIN AggregateMetrics(h) = Metrics
         /\ AggregateMetrics(h) = [x \in Metrics |-> AggregateMetrics(h)[x]]
         /\ CountsAreFinite(AggregateMetrics(h))
<1> DEFINE more == {"occupancy_rmse", "occupancy_r2", "mean_interval_width",
                    "expected_revenue_mae"}
<1>1. /\ DOMAIN AggregateMetrics(h) = DOMAIN SliceMetrics(h) \cup more
      /\ AggregateMetrics(h)
           = [x \in DOMAIN AggregateMetrics(h) |-> AggregateMetrics(h)[x]]
  BY DEF AggregateMetrics
<1>2. SliceMetricNames \cup more = Metrics
  BY DEF SliceMetricNames, Metrics, AlwaysMeasured, SliceEssentials
<1>3. \A x \in {"sample_size", "unique_stays"} : AggregateMetrics(h)[x] = SliceMetrics(h)[x]
  <2>1. {"sample_size", "unique_stays"} \subseteq DOMAIN SliceMetrics(h)
    BY MetricsOfASlice DEF SliceMetricNames, SliceEssentials
  <2>2. QED
    BY <2>1 DEF AggregateMetrics
<1>4. CountsAreFinite(AggregateMetrics(h))
  <2>1. \A x \in {"sample_size", "unique_stays"} : x \in DOMAIN SliceMetrics(h)
    BY MetricsOfASlice DEF SliceMetricNames, SliceEssentials
  <2>2. CountsAreFinite(SliceMetrics(h))
    BY MetricsOfASlice
  <2>3. QED
    BY <1>3, <2>1, <2>2 DEF CountsAreFinite
<1>5. QED
  BY <1>1, <1>2, <1>4, MetricsOfASlice

LEMMA EvidenceIsShaped ==
  ASSUME NEW m, NEW h
  PROVE  Shaped(Evaluate(m, h))
<1> DEFINE e == Evaluate(m, h)
           scores == {Score(m, r, h[r]) : r \in DOMAIN h}
           judged == {t \in SliceNames : SliceOf(scores, t) # {}}
<1>1. e = [aggregate |-> AggregateMetrics(scores),
           slices |-> [s \in judged |-> SliceMetrics(SliceOf(scores, s))]]
  BY DEF Evaluate
<1> HIDE DEF e, scores
<1>2. /\ e = [aggregate |-> e.aggregate, slices |-> e.slices]
      /\ e.aggregate = AggregateMetrics(scores)
      /\ DOMAIN e.slices = judged
      /\ e.slices = [s \in DOMAIN e.slices |-> e.slices[s]]
      /\ \A s \in judged : e.slices[s] = SliceMetrics(SliceOf(scores, s))
  BY <1>1
<1>3. "aggregate" \notin SliceNames
  BY DEF SliceNames, SliceFamilies
<1>4. \A s \in judged :
        /\ DOMAIN e.slices[s] = SliceMetricNames
        /\ e.slices[s] = [x \in SliceMetricNames |-> e.slices[s][x]]
  BY <1>2, MetricsOfASlice
<1>5. /\ DOMAIN e.aggregate = Metrics
      /\ e.aggregate = [x \in Metrics |-> e.aggregate[x]]
  BY <1>2, MetricsOfAHoldout
<1>6. /\ SliceMetricNames \subseteq Metrics
      /\ SliceEssentials \subseteq SliceMetricNames
      /\ AlwaysMeasured \cup {"sample_size"} \subseteq Metrics
  BY DEF SliceMetricNames, Metrics, SliceEssentials
<1> HIDE DEF judged
<1>7. ASSUME NEW owner \in Owners(e)
      PROVE  /\ DOMAIN Of(e, owner) \subseteq Metrics
             /\ Of(e, owner) = [x \in DOMAIN Of(e, owner) |-> Of(e, owner)[x]]
  <2>1. CASE owner = "aggregate"
    BY <1>5, <2>1 DEF Of
  <2>2. CASE owner # "aggregate"
    <3>1. owner \in judged /\ Of(e, owner) = e.slices[owner]
      BY <1>2, <2>2 DEF Of, Owners
    <3>2. QED
      BY <1>4, <1>6, <3>1
  <2>3. QED
    BY <2>1, <2>2
<1>8. "aggregate" \notin DOMAIN e.slices
  BY <1>2, <1>3 DEF judged
<1>9. ASSUME NEW owner \in Owners(e)
      PROVE  CountsAreFinite(Of(e, owner))
  <2>1. CASE owner = "aggregate"
    BY <1>2, <2>1, MetricsOfAHoldout DEF Of
  <2>2. CASE owner # "aggregate"
    <3>1. owner \in judged /\ Of(e, owner) = e.slices[owner]
      BY <1>2, <2>2 DEF Of, Owners
    <3>2. Of(e, owner) = SliceMetrics(SliceOf(scores, owner))
      BY <1>2, <3>1
    <3>3. QED
      BY <3>2, MetricsOfASlice
  <2>3. QED
    BY <2>1, <2>2
<1>10. QED
  BY <1>2, <1>4, <1>5, <1>6, <1>7, <1>8, <1>9 DEF Shaped, e

----------------------------------------------------------------------------
(* What the stages of an attempt rest on.                                  *)

Remembered ==
  stage = "fitted" =>
    \E b \in Regressors : \E radius \in Radii(b, Calibration) : model = Fitted(b, radius)

Reviewable ==
  stage = "registered" /\ evidence # None =>
    /\ Readable(run)
    /\ FromMapping(run) = evidence
    /\ PassesAlone(evidence, RegistryCriteria)

Reviewed == stage = "promotable" => PassesAlone(FromMapping(run), RegistryCriteria)

AttemptInv ==
  /\ Remembered
  /\ stage \in {"splitting", "fitted"} => evidence = None
  /\ evidence # None => Shaped(evidence)
  /\ Reviewable
  /\ Reviewed
  /\ VerdictSurvivesStorage

LEMMA CandidateIsLogged ==
  ASSUME Shaped(evidence)
  PROVE  Readable(LoggedMetrics) /\ FromMapping(LoggedMetrics) = evidence
<1> DEFINE tables == [p \in CandidatePrefixes \cup BenchmarkPrefixes |->
                        IF p \in CandidatePrefixes THEN evidence ELSE benchmark.evidence]
<1>1. NoPrefix \in CandidatePrefixes
  BY DEF CandidatePrefixes
<1>2. NoPrefix \in DOMAIN tables /\ tables[NoPrefix] = evidence
  BY <1>1
<1>3. LoggedMetrics = Logged(tables)
  BY DEF LoggedMetrics
<1> HIDE DEF tables
<1>4. Shaped(tables[NoPrefix])
  BY <1>2
<1>5. QED
  BY <1>2, <1>3, <1>4, ReadBack

LEMMA AttemptStep == AttemptInv /\ [AttemptNext]_<<vars, attemptVars>> => AttemptInv'
<1> SUFFICES ASSUME AttemptInv, [AttemptNext]_<<vars, attemptVars>>
             PROVE  AttemptInv'
  OBVIOUS
<1> USE DEF AttemptInv, Remembered, Reviewable, Reviewed, VerdictSurvivesStorage
<1>1. CASE Split
  BY <1>1 DEF Split, attemptVars
<1>2. CASE FitModel
  <2>1. /\ stage = "splitting" /\ stage' = "fitted" /\ evidence' = evidence
        /\ \E b \in Regressors : \E radius \in Radii(b, Calibration) :
             model' = Fitted(b, radius)
        /\ UNCHANGED <<frame, trainEnd, calibrationEnd>>
    BY <1>2 DEF FitModel, Advance, vars
  <2>2. Calibration' = Calibration
    BY <2>1 DEF Calibration, Partition, InWindow, Window, LabelKnown, NextStart,
       DateAt, Index, Dates
  <2>3. Remembered'
    BY <2>1, <2>2
  <2>4. QED
    BY <2>1, <2>3
<1>3. CASE EvaluateCandidate
  <2>1. /\ stage' = "evaluated"
        /\ evidence' = Evaluate(model, Test)
    BY <1>3 DEF EvaluateCandidate, Advance
  <2>2. Shaped(evidence')
    BY <2>1, EvidenceIsShaped
  <2>3. QED
    BY <2>1, <2>2
<1>4. CASE SaveBundle \/ MonitorDrift
  BY <1>4 DEF SaveBundle, MonitorDrift, Advance
<1>5. CASE CompareWithChampion
  BY <1>5 DEF CompareWithChampion, Advance
<1>6. CASE ApplyGates
  BY <1>6 DEF ApplyGates, Advance
<1>7. CASE LogCandidate
  <2>1. evidence' = evidence
    BY <1>7 DEF LogCandidate
  <2>2. CASE BenchmarkIsConsistent /\ Accepts(RegistryCriteria)
    <3>1. /\ stage' = "registered"
          /\ run' = LoggedMetrics
          /\ PassesAlone(evidence, RegistryCriteria)
      BY <1>7, <2>2 DEF LogCandidate, Advance, Accepts
    <3>2. evidence # None => Readable(run') /\ FromMapping(run') = evidence
      BY <3>1, CandidateIsLogged
    <3>3. QED
      BY <2>1, <3>1, <3>2
  <2>3. CASE ~(BenchmarkIsConsistent /\ Accepts(RegistryCriteria))
    <3>1. stage' = "rejected"
      BY <1>7, <2>3 DEF LogCandidate, Advance
    <3>2. QED
      BY <2>1, <3>1
  <2>4. QED
    BY <2>2, <2>3
<1>8. CASE ReviewStoredRun
  <2>1. evidence = None /\ evidence' = None /\ stage' = "registered"
    BY <1>8 DEF ReviewStoredRun, Advance
  <2>2. QED
    BY <2>1
<1>9. CASE Recheck
  <2>1. /\ stage = "registered"
        /\ evidence' = evidence /\ run' = run
        /\ stage' = IF ~Readable(run) THEN "unreadable"
                     ELSE IF PassesAlone(FromMapping(run), RegistryCriteria)
                     THEN "promotable" ELSE "refused"
    BY <1>9 DEF Recheck, Advance
  <2>2. evidence # None => stage' = "promotable"
    BY <2>1
  <2>3. stage' = "promotable" => PassesAlone(FromMapping(run), RegistryCriteria)
    BY <2>1
  <2>4. stage' \notin {"splitting", "fitted", "registered"}
    BY <2>1
  <2>5. QED
    BY <2>1, <2>2, <2>3, <2>4
<1>10. CASE UNCHANGED <<vars, attemptVars>>
  <2>1. /\ UNCHANGED <<frame, trainEnd, calibrationEnd>>
        /\ UNCHANGED <<stage, model, evidence, run>>
    BY <1>10 DEF vars, attemptVars
  <2>2. Calibration' = Calibration
    BY <2>1 DEF Calibration, Partition, InWindow, Window, LabelKnown, NextStart,
       DateAt, Index, Dates
  <2>3. QED
    BY <2>1, <2>2
<1>11. QED
  BY <1>1, <1>2, <1>3, <1>4, <1>5, <1>6, <1>7, <1>8, <1>9, <1>10 DEF AttemptNext

LEMMA AttemptInvariant == AttemptSpec => []AttemptInv
<1>1. AttemptInit => AttemptInv
  BY DEF AttemptInit, AttemptInv, Remembered, Reviewable, Reviewed,
     VerdictSurvivesStorage
<1>2. QED
  BY <1>1, AttemptStep, PTL DEF AttemptSpec

----------------------------------------------------------------------------
(* Gates: what passing them says of a required slice.                      *)

LEMMA JudgedSlices ==
  ASSUME NEW log, NEW c, PassesAlone(FromMapping(log), c), NEW s \in RequiredSlices
  PROVE  LET Has(x) == <<NoPrefix, s, x>> \in DOMAIN log
             At(x) == log[<<NoPrefix, s, x>>]
         IN  /\ Has("unique_stays")
             /\ ~FewerThan(At("unique_stays"), c.minSliceUniqueStays)
             /\ \A x \in PriceResponse \cup (SliceEssentials \ {"sample_size"}) :
                  Has(x) /\ Finite(At(x))
             /\ ~Exceeds(At("occupancy_mae"), c.slice["occupancy_mae"])
             /\ ~Below(At("interval_coverage"), c.slice["interval_coverage"])
<1> DEFINE m == Unflattened(log, s)
           Has(x) == <<NoPrefix, s, x>> \in DOMAIN log
           At(x) == log[<<NoPrefix, s, x>>]
           slices == FromMapping(log).slices
<1>1. \A x \in DOMAIN m : Has(x) /\ m[x] = At(x)
  BY DEF Unflattened
<1>2. RequiredSlicesPass(slices, c)
  BY DEF PassesAlone
<1>3. /\ s \in DOMAIN slices
      /\ slices[s] = m
      /\ SliceEssentials \subseteq DOMAIN m
  <2>1. s \in DOMAIN slices
    BY <1>2 DEF RequiredSlicesPass
  <2>2. QED
    BY <2>1 DEF FromMapping, WholeSlices
<1>4. SlicePasses(m, c)
  BY <1>3 DEF PassesAlone
<1> HIDE DEF m, slices
<1>5. /\ "unique_stays" \in DOMAIN m
      /\ ~FewerThan(m["unique_stays"], c.minSliceUniqueStays)
      /\ ~FewerThan(m["sample_size"], c.minSliceSamples)
  BY <1>2, <1>3 DEF RequiredSlicesPass
<1>6. ~TooThinToJudge(m, c)
  BY <1>5 DEF TooThinToJudge
<1>7. /\ \A x \in {"occupancy_mae", "interval_coverage", "expected_revenue_wape"} :
            Finite(m[x])
      /\ ~Exceeds(m["occupancy_mae"], c.slice["occupancy_mae"])
      /\ ~Below(m["interval_coverage"], c.slice["interval_coverage"])
      /\ ResponsePasses(m, c.slice)
  BY <1>4, <1>6 DEF SlicePasses
<1>8. \A x \in PriceResponse : x \in DOMAIN m /\ Finite(m[x])
  BY <1>7 DEF ResponsePasses
<1>9. SliceEssentials \ {"sample_size"}
        = {"occupancy_mae", "interval_coverage", "expected_revenue_wape"}
  BY DEF SliceEssentials
<1>10. \A x \in PriceResponse \cup (SliceEssentials \ {"sample_size"}) :
          x \in DOMAIN m /\ Finite(m[x])
  BY <1>3, <1>7, <1>8, <1>9
<1>11. /\ "occupancy_mae" \in DOMAIN m
       /\ "interval_coverage" \in DOMAIN m
  BY <1>9, <1>10
<1>12. QED
  BY <1>1, <1>5, <1>7, <1>10, <1>11

----------------------------------------------------------------------------
(* Calibration: the rank of the radius, and what lies within it.           *)

LEMMA IndexReachesRank ==
  ASSUME NEW n \in Nat, NEW k \in Nat \ {0}
  PROVE  /\ QuantileIndex(n, k) \in Int
         /\ QuantileIndex(n, k) + 1 >= Smaller(k, n)
<1>1. CASE k >= n
  BY <1>1 DEF QuantileIndex, Smaller
<1>2. CASE k < n
  <2> DEFINE a == k * (n - 1) + n - 1
             q == a \div n
             rest == a % n
  <2>1. /\ n \in Nat \ {0}
        /\ k * n \in Int
        /\ k * (n - 1) = k * n - k
    BY <1>2
  <2>2. a \in Int /\ a >= k * n
    BY <1>2, <2>1
  <2> HIDE DEF a
  <2>3. /\ q \in Int /\ rest \in Int
        /\ a = n * q + rest
        /\ rest < n
    BY <2>1, <2>2
  <2> HIDE DEF q, rest
  <2>4. ASSUME q < k
        PROVE  FALSE
    <3>1. q <= k - 1
      BY <2>3, <2>4
    <3>2. n * q <= n * (k - 1)
      BY <2>1, <2>3, <3>1
    <3>3. n * (k - 1) = k * n - n
      BY <2>1
    <3>4. QED
      BY <2>1, <2>2, <2>3, <3>2, <3>3
  <2>5. QuantileIndex(n, k) = q
    BY <1>2 DEF QuantileIndex, Ceiling, q, a
  <2>6. QED
    BY <1>2, <2>3, <2>4, <2>5 DEF Smaller
<1>3. QED
  BY <1>1, <1>2

LEMMA RanksReachCoverage ==
  ASSUME NEW n \in Nat, NEW k \in Ranks(n)
  PROVE  /\ Ceiling((n + 1) * IntervalCoverage, 100) \in Nat \ {0}
         /\ k \in Nat \ {0}
         /\ k >= Ceiling((n + 1) * IntervalCoverage, 100)
<1> DEFINE product == (n + 1) * IntervalCoverage
<1>1. product \in Nat \ {0}
  BY DemandConstants DEF DemandConstants
<1>2. k \in {Ceiling(product, 100)} \cup {j \in {(product \div 100) + 1} : product % 100 = 0}
  BY DEF Ranks
<1> HIDE DEF product
<1>3. /\ Ceiling(product, 100) \in Nat \ {0}
      /\ product % 100 = 0 => (product \div 100) + 1 >= Ceiling(product, 100)
      /\ (product \div 100) + 1 \in Nat \ {0}
  BY <1>1 DEF Ceiling
<1>4. k \in Nat \ {0} /\ k >= Ceiling(product, 100)
  BY <1>2, <1>3
<1>5. QED
  BY <1>3, <1>4 DEF product

LEMMA WithinMeansCovered ==
  ASSUME NEW b, NEW radius \in Nat, NEW o,
         o.occupancy \in 0..Full,
         Predicted(b.lower, TrainingRow(o)) \in Int,
         Predicted(b.central, TrainingRow(o)) \in Int,
         Predicted(b.upper, TrainingRow(o)) \in Int,
         Residual(b, o) <= radius,
         ~(Predicted(b.upper, TrainingRow(o)) < 0),
         ~(Predicted(b.lower, TrainingRow(o)) > Full)
  PROVE  /\ WellFormed(Fitted(b, radius), TrainingRow(o))
         /\ Covers(Fitted(b, radius), TrainingRow(o), o.occupancy)
<1> DEFINE x == TrainingRow(o)
           low == Predicted(b.lower, x)
           mid == Predicted(b.central, x)
           up == Predicted(b.upper, x)
           m == Fitted(b, radius)
           actual == o.occupancy
<1>1. m.regressors = b /\ m.radius = radius
  BY DEF Fitted
<1>2. /\ low \in Int /\ mid \in Int /\ up \in Int
      /\ Full \in Nat /\ actual \in 0..Full
      /\ ~(up < 0) /\ ~(low > Full)
  BY DemandConstants DEF DemandConstants
<1>3. Larger(0, Larger(actual - Clip(up), Clip(low) - actual)) <= radius
  BY DEF Residual
<1>4. /\ LowerEnd(m, x) = Smaller(Clip(low - radius), Clip(mid))
      /\ UpperEnd(m, x) = Larger(Clip(up + radius), Clip(mid))
  BY <1>1 DEF LowerEnd, UpperEnd, Expected
<1> HIDE DEF m, x, low, mid, up, actual
<1>5. Smaller(Clip(low - radius), Clip(mid)) <= actual
  BY <1>2, <1>3 DEF Smaller, Larger, Clip
<1>6. actual <= Larger(Clip(up + radius), Clip(mid))
  BY <1>2, <1>3 DEF Larger, Clip
<1>7. Covers(m, x, actual)
  BY <1>4, <1>5, <1>6 DEF Covers
<1>8. /\ Expected(m, x) = Clip(mid)
      /\ 0 <= Smaller(Clip(low - radius), Clip(mid))
      /\ Smaller(Clip(low - radius), Clip(mid)) <= Clip(mid)
      /\ Clip(mid) <= Larger(Clip(up + radius), Clip(mid))
      /\ Larger(Clip(up + radius), Clip(mid)) <= Full
  <2>1. Expected(m, x) = Clip(mid)
    BY <1>1 DEF Expected, m, mid
  <2>2. QED
    BY <1>2, <2>1 DEF Smaller, Larger, Clip
<1>9. WellFormed(m, x)
  BY <1>4, <1>8 DEF WellFormed
<1>10. QED
  BY <1>7, <1>9 DEF m, x, actual

LEMMA ServedAsTrained ==
  ASSUME NEW o
  PROVE  ServedRow(o) = TrainingRow(o)
BY DEF ServedRow, TrainingRow, CandidateRow, Assemble

LEMMA CalibrationRows ==
  ASSUME TypeOK
  PROVE  /\ DOMAIN Calibration \subseteq Rows
         /\ IsFiniteSet(DOMAIN Calibration)
         /\ \A r \in DOMAIN Calibration :
              /\ Calibration[r] = frame[r]
              /\ StayOf(Calibration[r]) = Stay(r)
              /\ frame[r].occupancy \in 0..Full
<1>1. DOMAIN Calibration = Partition("calibration")
  BY DEF Calibration, Restrict
<1>2. Partition("calibration") \subseteq Rows
  BY DEF Partition, InWindow
<1>3. IsFiniteSet(Rows)
  BY SplitConstants DEF SplitConstants
<1>4. \A r \in DOMAIN Calibration :
        Calibration[r] = frame[r] /\ StayOf(Calibration[r]) = Stay(r)
  BY DEF Calibration, Restrict, StayOf, Stay, StayAt
<1>5. \A r \in Rows : frame[r].occupancy \in 0..Full
  BY AttemptConstants DEF AttemptConstants, TypeOK
<1>6. QED
  BY <1>1, <1>2, <1>3, <1>4, <1>5, FS_Subset

LEMMA PredictionsAreNumbers ==
  ASSUME TypeOK, NEW b \in Regressors, NEW r \in Rows
  PROVE  /\ Predicted(b.lower, TrainingRow(frame[r])) \in Int
         /\ Predicted(b.central, TrainingRow(frame[r])) \in Int
         /\ Predicted(b.upper, TrainingRow(frame[r])) \in Int
BY AttemptConstants DEF AttemptConstants, TypeOK

LEMMA ResidualsAreNatural ==
  ASSUME TypeOK, NEW b \in Regressors, NEW r \in DOMAIN Calibration
  PROVE  Residual(b, Calibration[r]) \in Nat
<1> DEFINE o == frame[r]
           low == Predicted(b.lower, TrainingRow(o))
           up == Predicted(b.upper, TrainingRow(o))
<1>1. r \in Rows /\ Calibration[r] = o /\ o.occupancy \in 0..Full
  BY CalibrationRows
<1>2. low \in Int /\ up \in Int /\ Full \in Nat
  BY <1>1, PredictionsAreNumbers, DemandConstants DEF DemandConstants
<1>3. Residual(b, o)
        = Larger(0, Larger(o.occupancy - Clip(up), Clip(low) - o.occupancy))
  BY DEF Residual
<1> HIDE DEF o, low, up
<1>4. Residual(b, o) \in Nat
  BY <1>1, <1>2, <1>3 DEF Larger, Clip
<1>5. QED
  BY <1>1, <1>4

LEMMA PromiseKept ==
  ASSUME TypeOK, NEW b \in Regressors, NEW radius \in Radii(b, Calibration),
         model = Fitted(b, radius)
  PROVE  CalibrationPromiseKept
<1> DEFINE h == Calibration
           rows == DOMAIN h
           stays == StaysIn(h)
           Kept(r) == LET x == ServedRow(frame[r])
                      IN  WellFormed(model, x) /\ Covers(model, x, frame[r].occupancy)
           OutOfRange(r) == \/ Predicted(b.upper, TrainingRow(frame[r])) < 0
                            \/ Predicted(b.lower, TrainingRow(frame[r])) > Full
           kept == {s \in stays : \A r \in rows : Stay(r) = s => Kept(r)}
           beyond == {s \in stays : \E r \in rows : Stay(r) = s /\ OutOfRange(r)}
           within == StaysWithin(b, h, radius)
           n == Cardinality(stays)
           asked == Ceiling((n + 1) * IntervalCoverage, 100)
<1>1. radius \in Nat
  <2>1. \E r \in rows : radius = Residual(b, h[r])
    BY DEF Radii
  <2>2. QED
    BY <2>1, ResidualsAreNatural
<1>2. \E k \in Ranks(n) : Cardinality(within) > QuantileIndex(n, k)
  BY DEF Radii
<1>3. /\ IsFiniteSet(stays) /\ n \in Nat
  <2> DEFINE stay == [r \in rows |-> StayOf(h[r])]
  <2>1. stay \in Surjection(rows, stays)
    BY DEF Surjection, StaysIn
  <2>2. QED
    BY <2>1, CalibrationRows, FS_Surjection, FS_CardinalityType
<1>4. ASSUME NEW r \in rows, Residual(b, h[r]) <= radius, ~OutOfRange(r)
      PROVE  Kept(r)
  <2>1. /\ r \in Rows
        /\ h[r] = frame[r]
        /\ frame[r].occupancy \in 0..Full
    BY CalibrationRows
  <2>2. /\ Predicted(b.lower, TrainingRow(frame[r])) \in Int
        /\ Predicted(b.central, TrainingRow(frame[r])) \in Int
        /\ Predicted(b.upper, TrainingRow(frame[r])) \in Int
    BY <2>1, PredictionsAreNumbers
  <2>3. Residual(b, frame[r]) <= radius
    BY <1>4, <2>1
  <2>4. /\ WellFormed(Fitted(b, radius), TrainingRow(frame[r]))
        /\ Covers(Fitted(b, radius), TrainingRow(frame[r]), frame[r].occupancy)
    BY <1>1, <1>4, <2>1, <2>2, <2>3, WithinMeansCovered
  <2>5. QED
    BY <2>4, ServedAsTrained
<1>5. ASSUME NEW s \in within
      PROVE  s \in kept \cup beyond
  <2>1. /\ s \in stays
        /\ \A r \in rows : StayOf(h[r]) = s => Residual(b, h[r]) <= radius
    BY <1>5 DEF StaysWithin
  <2>2. \A r \in rows : Stay(r) = s => Residual(b, h[r]) <= radius
    BY <2>1, CalibrationRows
  <2>3. CASE \E r \in rows : Stay(r) = s /\ OutOfRange(r)
    BY <2>1, <2>3
  <2>4. CASE \A r \in rows : Stay(r) = s => ~OutOfRange(r)
    <3>1. \A r \in rows : Stay(r) = s => Kept(r)
      BY <1>4, <2>2, <2>4
    <3> HIDE DEF Kept, OutOfRange, rows, stays
    <3>2. QED
      BY <2>1, <3>1
  <2>5. QED
    BY <2>3, <2>4
<1>6. /\ Cardinality(kept \cup beyond) \in Nat
      /\ Cardinality(within) \in Nat
      /\ Cardinality(within) <= Cardinality(kept \cup beyond)
  <2>1. kept \cup beyond \in SUBSET stays /\ within \in SUBSET (kept \cup beyond)
    BY <1>5
  <2> HIDE DEF kept, beyond, within, stays
  <2>2. IsFiniteSet(kept \cup beyond) /\ IsFiniteSet(within)
    BY <1>3, <2>1, FS_Subset
  <2>3. Cardinality(within) <= Cardinality(kept \cup beyond)
    BY <2>1, <2>2, FS_Subset
  <2>4. QED
    BY <2>2, <2>3, FS_CardinalityType
<1>7. Cardinality(within) >= Smaller(asked, n)
  <2> HIDE DEF within, stays, n
  <2>1. PICK k \in Ranks(n) : Cardinality(within) > QuantileIndex(n, k)
    BY <1>2
  <2>2. /\ asked \in Nat \ {0}
        /\ k \in Nat \ {0}
        /\ k >= asked
    BY <1>3, <2>1, RanksReachCoverage
  <2>3. /\ QuantileIndex(n, k) \in Int
        /\ QuantileIndex(n, k) + 1 >= Smaller(k, n)
    BY <1>3, <2>2, IndexReachesRank
  <2> HIDE DEF asked
  <2>4. QED
    BY <1>3, <1>6, <2>1, <2>2, <2>3 DEF Smaller
<1>8. Cardinality(kept \cup beyond) >= Smaller(asked, n)
  <2>1. Smaller(asked, n) \in Int
    <3>1. asked \in Int
      BY <1>2, <1>3, RanksReachCoverage
    <3> HIDE DEF asked, n
    <3>2. QED
      BY <1>3, <3>1 DEF Smaller
  <2> HIDE DEF kept, beyond, within, asked, n
  <2>2. QED
    BY <1>6, <1>7, <2>1
<1>9. model.regressors = b
  BY DEF Fitted
<1>10. QED
  BY <1>8, <1>9 DEF CalibrationPromiseKept

----------------------------------------------------------------------------
(* Theorems *)

\* The interval a fitted model serves holds the outcome of as many of the stays
\* it was calibrated on as interval_coverage asks for, whatever the regressors
\* answer, and on features built for serving; raw ends that are no occupancies
\* excepted.
THEOREM IntervalPromise == AttemptSpec => []CalibrationPromiseKept
<1>1. TypeOK /\ AttemptInv => CalibrationPromiseKept
  <2> SUFFICES ASSUME TypeOK, AttemptInv, stage = "fitted"
               PROVE  CalibrationPromiseKept
    BY DEF CalibrationPromiseKept
  <2>1. PICK b \in Regressors : \E radius \in Radii(b, Calibration) :
               model = Fitted(b, radius)
    BY DEF AttemptInv, Remembered
  <2>2. PICK radius \in Radii(b, Calibration) : model = Fitted(b, radius)
    BY <2>1
  <2>3. QED
    BY <2>2, PromiseKept
<1>2. QED
  BY <1>1, AttemptSplits, SplitTypeCorrect, AttemptInvariant, PTL

\* No version becomes promotable with a required slice that was not judged,
\* whatever an earlier release stored and whatever the criteria are.
THEOREM EverySliceJudged == AttemptSpec => []NoSliceUnjudged
<1>1. AttemptInv => NoSliceUnjudged
  <2> SUFFICES ASSUME AttemptInv, stage = "promotable"
               PROVE  NoSliceUnjudged
    BY DEF NoSliceUnjudged
  <2>1. PassesAlone(FromMapping(run), RegistryCriteria)
    BY DEF AttemptInv, Reviewed
  <2>2. QED
    BY <2>1, JudgedSlices DEF NoSliceUnjudged
<1>2. QED
  BY <1>1, AttemptInvariant, PTL

\* What a candidate was judged by is what promotion reads back: the verdict of
\* the gates is the same.
THEOREM StorageIsFaithful == AttemptSpec => []VerdictSurvivesStorage
<1>1. AttemptInv => VerdictSurvivesStorage
  BY DEF AttemptInv
<1>2. QED
  BY <1>1, AttemptInvariant, PTL

\* The commands that train implement the split, so that what holds of it holds
\* of them: no label leaks into what they fit.
THEOREM AttemptImplementsSplit == AttemptSpec => Spec /\ []NoFutureLabel
BY AttemptSplits, NoLabelLeaks, PTL

----------------------------------------------------------------------------
(* Drift reports: samples, and the rows under a value.                     *)

\* A finite, nonempty column of whole numbers.
Sample(s) ==
  /\ IsFiniteSet(DOMAIN s) /\ DOMAIN s # {}
  /\ \A r \in DOMAIN s : s[r] \in Int

Under(s, v) == {r \in DOMAIN s : s[r] < v}
Upto(s, v) == {r \in DOMAIN s : s[r] <= v}

LEMMA ProductsKeepOrder ==
  ASSUME NEW a \in Nat, NEW b \in Int, NEW c \in Int, b <= c
  PROVE  a * b \in Int /\ a * c \in Int /\ a * b <= a * c
<1>1. a * (c - b) \in Nat /\ a * c = a * b + a * (c - b)
  OBVIOUS
<1>2. a * b \in Int /\ a * c \in Int
  OBVIOUS
<1>3. QED
  BY <1>1, <1>2

LEMMA ExtremesExist ==
  ASSUME NEW V, IsFiniteSet(V), V # {}, \A v \in V : v \in Int
  PROVE  /\ Min(V) \in V /\ \A v \in V : Min(V) <= v
         /\ Max(V) \in V /\ \A v \in V : Max(V) >= v
<1> DEFINE Good == {T \in SUBSET V :
                      T # {} => /\ \E x \in T : \A y \in T : x <= y
                                /\ \E x \in T : \A y \in T : x >= y}
<1>1. ASSUME NEW T \in SUBSET V, \A x \in T : T \ {x} \in Good, T # {}
      PROVE  /\ \E x \in T : \A y \in T : x <= y
             /\ \E x \in T : \A y \in T : x >= y
  <2>1. PICK z \in T : TRUE
    BY <1>1
  <2>2. CASE T \ {z} = {}
    <3>1. \A y \in T : y = z
      BY <2>2
    <3>2. z <= z /\ z >= z
      OBVIOUS
    <3>3. QED
      BY <3>1, <3>2
  <2>3. CASE T \ {z} # {}
    <3>1. T \ {z} \in Good
      BY <1>1
    <3>2. PICK a \in T \ {z} : \A y \in T \ {z} : a <= y
      BY <2>3, <3>1
    <3>3. PICK b \in T \ {z} : \A y \in T \ {z} : b >= y
      BY <2>3, <3>1
    <3>4. a \in Int /\ b \in Int /\ z \in Int /\ \A y \in T : y \in Int
      OBVIOUS
    <3>5. \E x \in T : \A y \in T : x <= y
      <4>1. CASE a <= z
        BY <3>2, <3>4, <4>1
      <4>2. CASE ~(a <= z)
        BY <3>2, <3>4, <4>2
      <4>3. QED
        BY <4>1, <4>2
    <3>6. \E x \in T : \A y \in T : x >= y
      <4>1. CASE b >= z
        BY <3>3, <3>4, <4>1
      <4>2. CASE ~(b >= z)
        BY <3>3, <3>4, <4>2
      <4>3. QED
        BY <4>1, <4>2
    <3>7. QED
      BY <3>5, <3>6
  <2>4. QED
    BY <2>2, <2>3
<1>2. V \in Good
  <2>1. \A T \in SUBSET V : (\A x \in T : T \ {x} \in Good) => T \in Good
    BY <1>1
  <2> HIDE DEF Good
  <2>2. QED
    BY <2>1, SubsetInduction
<1>3. PICK a \in V : \A y \in V : a <= y
  BY <1>2
<1>4. PICK b \in V : \A y \in V : b >= y
  BY <1>2
<1>5. QED
  BY <1>3, <1>4 DEF Min, Max

LEMMA SampleFacts ==
  ASSUME NEW s, Sample(s)
  PROVE  /\ IsFiniteSet(ValuesOf(s)) /\ ValuesOf(s) # {}
         /\ \A v \in ValuesOf(s) : v \in Int
         /\ SizeOf(s) \in Nat \ {0}
<1>1. IsFiniteSet(DOMAIN s) /\ DOMAIN s # {} /\ \A r \in DOMAIN s : s[r] \in Int
  BY DEF Sample
<1>2. IsFiniteSet(ValuesOf(s))
  <2> DEFINE f == [r \in DOMAIN s |-> s[r]]
  <2>1. f \in Surjection(DOMAIN s, ValuesOf(s))
    BY DEF Surjection, ValuesOf
  <2>2. QED
    BY <1>1, <2>1, FS_Surjection
<1>3. SizeOf(s) \in Nat \ {0}
  BY <1>1, FS_CardinalityType, FS_EmptySet DEF SizeOf
<1>4. QED
  BY <1>1, <1>2, <1>3 DEF ValuesOf

LEMMA RowsUnder ==
  ASSUME NEW s, Sample(s), NEW T \in SUBSET DOMAIN s
  PROVE  /\ IsFiniteSet(T) /\ Cardinality(T) \in Nat
         /\ Cardinality(T) <= SizeOf(s)
         /\ Cardinality(DOMAIN s \ T) = SizeOf(s) - Cardinality(T)
         /\ \A R \in SUBSET T : Cardinality(R) \in Nat /\ Cardinality(R) <= Cardinality(T)
<1>1. IsFiniteSet(DOMAIN s)
  BY DEF Sample
<1>2. IsFiniteSet(T) /\ Cardinality(T) <= SizeOf(s)
  BY <1>1, FS_Subset DEF SizeOf
<1>3. Cardinality(T) \in Nat
  BY <1>2, FS_CardinalityType
<1>4. DOMAIN s \cap T = T
  OBVIOUS
<1>5. Cardinality(DOMAIN s \ T) = SizeOf(s) - Cardinality(T)
  BY <1>1, <1>4, FS_Difference DEF SizeOf
<1>6. \A R \in SUBSET T : Cardinality(R) \in Nat /\ Cardinality(R) <= Cardinality(T)
  BY <1>2, FS_Subset, FS_CardinalityType
<1>7. QED
  BY <1>2, <1>3, <1>5, <1>6

LEMMA SortedReaches ==
  ASSUME NEW s, Sample(s), NEW index \in 0..(SizeOf(s) - 1)
  PROVE  LET v == Sorted(s, index)
         IN  /\ v \in ValuesOf(s) /\ v \in Int
             /\ Cardinality(Under(s, v)) \in Nat /\ Cardinality(Under(s, v)) <= index
             /\ Cardinality(Upto(s, v)) \in Nat /\ Cardinality(Upto(s, v)) > index
<1> DEFINE V == ValuesOf(s)
           reach == {v \in V : Cardinality(Upto(s, v)) > index}
<1>1. IsFiniteSet(V) /\ V # {} /\ (\A v \in V : v \in Int) /\ SizeOf(s) \in Nat \ {0}
  BY SampleFacts
<1>2. index \in Nat /\ index < SizeOf(s)
  BY <1>1
<1>3. \A v : Under(s, v) \in SUBSET DOMAIN s /\ Upto(s, v) \in SUBSET DOMAIN s
  BY DEF Under, Upto
<1>4. \A v : Cardinality(Under(s, v)) \in Nat /\ Cardinality(Upto(s, v)) \in Nat
  BY <1>3, RowsUnder
<1>5. Max(V) \in reach
  <2>1. Max(V) \in V /\ \A v \in V : Max(V) >= v
    BY <1>1, ExtremesExist
  <2>2. Upto(s, Max(V)) = DOMAIN s
    BY <1>1, <2>1 DEF Upto, ValuesOf
  <2>3. QED
    BY <1>2, <2>1, <2>2 DEF SizeOf
<1>6. IsFiniteSet(reach) /\ reach # {} /\ \A v \in reach : v \in Int
  <2>1. reach \in SUBSET V
    OBVIOUS
  <2>2. QED
    BY <1>1, <1>5, <2>1, FS_Subset
<1> DEFINE w == Min(reach)
<1>7. w \in reach /\ \A v \in reach : w <= v
  <2> HIDE DEF reach
  <2>1. QED
    BY <1>6, ExtremesExist
<1>8. w \in V /\ w \in Int /\ Cardinality(Upto(s, w)) > index
  BY <1>1, <1>7
<1> DEFINE below == {v \in V : v < w}
<1>9. Cardinality(Under(s, w)) <= index
  <2>1. CASE below = {}
    <3>1. Under(s, w) = {}
      BY <2>1 DEF Under, ValuesOf
    <3>2. QED
      BY <1>2, <3>1, FS_EmptySet
  <2>2. CASE below # {}
    <3> DEFINE u == Max(below)
    <3>1. IsFiniteSet(below) /\ \A v \in below : v \in Int
      <4>1. below \in SUBSET V
        OBVIOUS
      <4>2. QED
        BY <1>1, <4>1, FS_Subset
    <3>2. u \in below /\ \A v \in below : u >= v
      <4> HIDE DEF below
      <4>1. QED
        BY <2>2, <3>1, ExtremesExist
    <3>3. u \in V /\ u \in Int /\ u < w
      BY <1>1, <3>2
    <3> HIDE DEF u, w
    <3>4. Under(s, w) = Upto(s, u)
      <4>1. ASSUME NEW r \in DOMAIN s PROVE s[r] < w <=> s[r] <= u
        <5>1. s[r] \in V /\ s[r] \in Int
          BY <1>1 DEF ValuesOf
        <5>2. s[r] < w => s[r] <= u
          BY <3>2, <3>3, <5>1
        <5>3. s[r] <= u => s[r] < w
          BY <1>8, <3>3, <5>1
        <5>4. QED
          BY <5>2, <5>3
      <4>2. QED
        BY <4>1 DEF Under, Upto
    <3>5. u \notin reach
      <4> HIDE DEF reach
      <4>1. QED
        BY <1>7, <1>8, <3>3
    <3>6. ~(Cardinality(Upto(s, u)) > index)
      BY <3>3, <3>5
    <3>7. QED
      BY <1>2, <1>4, <3>4, <3>6
  <2>3. QED
    BY <2>1, <2>2
<1> HIDE DEF w
<1>10. /\ Sorted(s, index) \in V
       /\ Cardinality(Under(s, Sorted(s, index))) <= index
       /\ Cardinality(Upto(s, Sorted(s, index))) > index
  BY <1>8, <1>9, Zenon DEF Sorted, Under, Upto
<1>11. QED
  BY <1>1, <1>4, <1>10

\* The rows below Bins times a value, and up to it.
Before(s, e) == {r \in DOMAIN s : Bins * s[r] < e}
Through(s, e) == {r \in DOMAIN s : Bins * s[r] <= e}

LEMMA BinsScale ==
  /\ Bins \in Nat /\ Bins >= 2 /\ Bins <= 10
  /\ \A a, b \in Int : Bins * a \in Int /\ Bins * b \in Int
  /\ \A a, b \in Int : Bins * a < Bins * b <=> a < b
  /\ \A a, b \in Int : Bins * a <= Bins * b <=> a <= b
<1>1. Bins \in Nat /\ Bins >= 2 /\ Bins <= 10
  BY DriftConstants DEF DriftConstants
<1>2. \A a, b \in Int : Bins * a \in Int /\ Bins * b \in Int
  BY <1>1
<1>3. ASSUME NEW a \in Int, NEW b \in Int, a <= b PROVE Bins * a <= Bins * b
  BY <1>1, <1>3, ProductsKeepOrder
<1>4. ASSUME NEW a \in Int, NEW b \in Int, a < b PROVE Bins * a < Bins * b
  <2>1. a + 1 \in Int /\ a + 1 <= b
    BY <1>4
  <2>2. Bins * (a + 1) <= Bins * b
    BY <1>3, <2>1
  <2>3. Bins * (a + 1) = Bins * a + Bins
    BY <1>1
  <2>4. Bins * a \in Int /\ Bins * b \in Int
    BY <1>2
  <2>5. QED
    BY <1>1, <2>2, <2>3, <2>4
<1>5. \A a, b \in Int : Bins * a < Bins * b <=> a < b
  <2>1. ASSUME NEW a \in Int, NEW b \in Int PROVE Bins * a < Bins * b <=> a < b
    <3>1. a < b => Bins * a < Bins * b
      BY <1>4
    <3>2. b <= a => Bins * b <= Bins * a
      BY <1>3
    <3>3. Bins * a \in Int /\ Bins * b \in Int
      BY <1>2
    <3> DEFINE x == Bins * a
               y == Bins * b
    <3> HIDE DEF x, y
    <3>4. /\ a < b => x < y
          /\ b <= a => y <= x
          /\ x \in Int /\ y \in Int
      BY <3>1, <3>2, <3>3 DEF x, y
    <3>5. x < y <=> a < b
      BY <3>4
    <3>6. QED
      BY <3>5 DEF x, y
  <2>2. QED
    BY <2>1
<1>6. \A a, b \in Int : Bins * a <= Bins * b <=> a <= b
  <2>1. ASSUME NEW a \in Int, NEW b \in Int PROVE Bins * a <= Bins * b <=> a <= b
    <3>1. Bins * b < Bins * a <=> b < a
      BY <1>5
    <3>2. Bins * a \in Int /\ Bins * b \in Int
      BY <1>2
    <3> DEFINE x == Bins * a
               y == Bins * b
    <3> HIDE DEF x, y
    <3>3. (y < x <=> b < a) /\ x \in Int /\ y \in Int
      BY <3>1, <3>2 DEF x, y
    <3>4. x <= y <=> a <= b
      BY <3>3
    <3>5. QED
      BY <3>4 DEF x, y
  <2>2. QED
    BY <2>1
<1>7. QED
  BY <1>1, <1>2, <1>5, <1>6

LEMMA Interpolated ==
  ASSUME NEW a \in Int, NEW b \in Int, a <= b, NEW rest \in 0..(Bins - 1)
  PROVE  LET q == Bins * a + rest * (b - a)
         IN  q \in Int /\ Bins * a <= q /\ q <= Bins * b
<1> DEFINE d == b - a
<1>1. Bins \in Nat /\ d \in Nat /\ rest \in Nat /\ Bins - rest \in Nat
  BY BinsScale
<1>2. rest * d \in Nat /\ (Bins - rest) * d \in Nat
  BY <1>1, ProductsKeepOrder
<1>3. Bins * d = rest * d + (Bins - rest) * d
  BY <1>1
<1>4. Bins * b = Bins * a + Bins * d
  BY <1>1
<1>5. Bins * a \in Int /\ Bins * b \in Int
  BY BinsScale
<1>6. Bins * d \in Int
  BY <1>1
<1> DEFINE x == Bins * a
           y == Bins * b
           z == Bins * d
           q == rest * d
           t == (Bins - rest) * d
<1> HIDE DEF x, y, z, q, t, d
<1>7. x \in Int /\ y \in Int /\ z \in Int /\ q \in Nat /\ t \in Nat /\ z = q + t /\ y = x + z
  BY <1>2, <1>3, <1>4, <1>5, <1>6 DEF x, y, z, q, t
<1>8. x + q \in Int /\ x <= x + q /\ x + q <= y
  BY <1>7
<1>9. QED
  BY <1>8 DEF x, y, q, d

LEMMA PositionFacts ==
  ASSUME NEW n \in Nat \ {0}, NEW i \in 0..Bins
  PROVE  LET p == (n - 1) * i
             f == p \div Bins
             rest == p % Bins
         IN  /\ p \in Nat /\ f \in Nat /\ rest \in 0..(Bins - 1)
             /\ p = Bins * f + rest
             /\ f \in 0..(n - 1)
             /\ rest # 0 => f + 1 \in 0..(n - 1)
<1> DEFINE p == (n - 1) * i
           f == p \div Bins
           rest == p % Bins
<1>1. Bins \in Nat /\ Bins >= 2 /\ i \in Nat /\ n - 1 \in Nat /\ i <= Bins
  BY BinsScale
<1>2. p \in Nat /\ p <= (n - 1) * Bins
  BY <1>1, ProductsKeepOrder
<1>3. (n - 1) * Bins = Bins * (n - 1)
  BY <1>1
<1> HIDE DEF p
<1>4. f \in Nat /\ rest \in 0..(Bins - 1) /\ p = Bins * f + rest
  BY <1>1, <1>2
<1> HIDE DEF f, rest
<1>5. Bins * f <= Bins * (n - 1)
  <2>1. Bins * f \in Int /\ Bins * (n - 1) \in Int
    BY <1>1, <1>4
  <2>2. QED
    BY <1>1, <1>2, <1>3, <1>4, <2>1
<1>6. f <= n - 1
  BY <1>1, <1>4, <1>5, BinsScale
<1>7. rest # 0 => f # n - 1
  <2>1. SUFFICES ASSUME rest # 0, f = n - 1 PROVE FALSE
    OBVIOUS
  <2>2. Bins * (n - 1) \in Int
    BY <1>1
  <2>3. QED
    BY <1>2, <1>3, <1>4, <2>1, <2>2
<1>8. f \in 0..(n - 1) /\ (rest # 0 => f + 1 \in 0..(n - 1))
  BY <1>1, <1>4, <1>6, <1>7
<1>9. QED
  BY <1>2, <1>4, <1>8 DEF p, f, rest

LEMMA QuantileRank ==
  ASSUME NEW s, Sample(s), NEW i \in 0..Bins
  PROVE  LET q == Quantile(s, i)
             n == SizeOf(s)
         IN  /\ q \in Int
             /\ Cardinality(Before(s, q)) \in Nat /\ Cardinality(Through(s, q)) \in Nat
             /\ Bins * Cardinality(Before(s, q)) <= (n - 1) * i + Bins - 1
             /\ Bins * Cardinality(Through(s, q)) >= (n - 1) * i + 1
             /\ \A l \in Int : (\A v \in ValuesOf(s) : l <= v) => Bins * l <= q
             /\ \A h \in Int : (\A v \in ValuesOf(s) : v <= h) => q <= Bins * h
<1> DEFINE n == SizeOf(s)
           p == (n - 1) * i
           f == p \div Bins
           rest == p % Bins
           a == Sorted(s, f)
           b == Sorted(s, f + 1)
           q == Quantile(s, i)
<1>1. n \in Nat \ {0} /\ Bins \in Nat /\ Bins >= 2
  BY SampleFacts, BinsScale
<1>2. /\ p \in Nat /\ f \in Nat /\ rest \in 0..(Bins - 1)
      /\ p = Bins * f + rest
      /\ f \in 0..(n - 1)
      /\ rest # 0 => f + 1 \in 0..(n - 1)
  BY <1>1, PositionFacts
<1>3. q = Bins * a + (IF rest = 0 THEN 0 ELSE rest * (b - a))
  BY DEF Quantile
<1>4. /\ a \in ValuesOf(s) /\ a \in Int
      /\ Cardinality(Under(s, a)) \in Nat /\ Cardinality(Under(s, a)) <= f
      /\ Cardinality(Upto(s, a)) \in Nat /\ Cardinality(Upto(s, a)) > f
  BY <1>2, SortedReaches
<1>5. rest # 0 =>
        /\ b \in ValuesOf(s) /\ b \in Int
        /\ Cardinality(Under(s, b)) \in Nat /\ Cardinality(Under(s, b)) <= f + 1
        /\ Cardinality(Upto(s, b)) \in Nat /\ Cardinality(Upto(s, b)) > f + 1
  BY <1>2, SortedReaches
<1>r. \A r \in DOMAIN s : s[r] \in Int /\ s[r] \in ValuesOf(s)
  BY DEF Sample, ValuesOf
<1>6. \A e : /\ Before(s, e) \in SUBSET DOMAIN s /\ Through(s, e) \in SUBSET DOMAIN s
             /\ Under(s, e) \in SUBSET DOMAIN s /\ Upto(s, e) \in SUBSET DOMAIN s
  BY DEF Before, Through, Under, Upto
<1> HIDE DEF n, p, f, rest, a, b, q
<1>7. rest # 0 => a <= b
  <2>1. SUFFICES ASSUME rest # 0, b < a PROVE FALSE
    BY <1>4, <1>5
  <2>2. Upto(s, b) \in SUBSET Under(s, a)
    <3>1. \A r \in DOMAIN s : s[r] <= b => s[r] < a
      BY <1>r, <1>4, <1>5, <2>1
    <3>2. QED
      BY <3>1 DEF Upto, Under
  <2>3. Cardinality(Upto(s, b)) <= Cardinality(Under(s, a))
    BY <1>6, <2>2, RowsUnder
  <2>4. QED
    BY <1>2, <1>4, <1>5, <2>1, <2>3
<1>8. Bins * a \in Int /\ (rest # 0 => Bins * b \in Int)
  BY <1>1, <1>4, <1>5
<1>9. q \in Int /\ Bins * a <= q
  <2>1. CASE rest = 0
    BY <1>3, <1>8, <2>1
  <2>2. CASE rest # 0
    <3>1. q = Bins * a + rest * (b - a)
      BY <1>3, <2>2
    <3>2. QED
      BY <1>2, <1>4, <1>5, <1>7, <2>2, <3>1, Interpolated
  <2>3. QED
    BY <2>1, <2>2
<1>10. rest # 0 => q <= Bins * b
  <2>1. SUFFICES ASSUME rest # 0 PROVE q <= Bins * b
    OBVIOUS
  <2>2. q = Bins * a + rest * (b - a)
    BY <1>3, <2>1
  <2>3. QED
    BY <1>2, <1>4, <1>5, <1>7, <2>1, <2>2, Interpolated
<1>11. rest = 0 => q = Bins * a
  BY <1>3, <1>8
<1> DEFINE before == Cardinality(Before(s, q))
           through == Cardinality(Through(s, q))
<1>12. before \in Nat /\ through \in Nat
  BY <1>6, RowsUnder
<1>13. through >= f + 1
  <2>1. Upto(s, a) \in SUBSET Through(s, q)
    <3>1. ASSUME NEW r \in DOMAIN s, s[r] <= a PROVE Bins * s[r] <= q
      <4>1. Bins * s[r] <= Bins * a /\ Bins * s[r] \in Int
        BY <1>r, <1>4, <3>1, BinsScale
      <4>2. QED
        BY <1>8, <1>9, <4>1
    <3>2. QED
      BY <3>1 DEF Upto, Through
  <2>2. Cardinality(Upto(s, a)) <= through
    BY <1>6, <2>1, RowsUnder
  <2>3. QED
    BY <1>2, <1>4, <1>12, <2>2
<1>14. rest = 0 => before <= f
  <2>1. SUFFICES ASSUME rest = 0 PROVE before <= f
    OBVIOUS
  <2>2. Before(s, q) \in SUBSET Under(s, a)
    <3>1. ASSUME NEW r \in DOMAIN s, Bins * s[r] < Bins * a PROVE s[r] < a
      BY <1>r, <1>4, <3>1, BinsScale
    <3>2. QED
      BY <1>11, <2>1, <3>1 DEF Before, Under
  <2>3. before <= Cardinality(Under(s, a))
    BY <1>6, <2>2, RowsUnder
  <2>4. QED
    BY <1>2, <1>4, <1>12, <2>3
<1>15. rest # 0 => before <= f + 1
  <2>1. SUFFICES ASSUME rest # 0 PROVE before <= f + 1
    OBVIOUS
  <2>2. Before(s, q) \in SUBSET Under(s, b)
    <3>1. ASSUME NEW r \in DOMAIN s, Bins * s[r] < q PROVE s[r] < b
      <4>1. Bins * s[r] \in Int
        BY <1>r, BinsScale
      <4>2. Bins * s[r] < Bins * b
        BY <1>8, <1>9, <1>10, <2>1, <3>1, <4>1
      <4>3. QED
        BY <1>r, <1>5, <2>1, <4>2, BinsScale
    <3>2. QED
      BY <3>1 DEF Before, Under
  <2>3. before <= Cardinality(Under(s, b))
    BY <1>6, <2>2, RowsUnder
  <2>4. QED
    BY <1>2, <1>5, <1>12, <2>1, <2>3
<1> HIDE DEF before, through
<1>16. Bins * before <= p + Bins - 1
  <2>1. CASE rest = 0
    <3>1. Bins * before <= Bins * f
      BY <1>2, <1>12, <1>14, <2>1, BinsScale
    <3>2. Bins * before \in Int /\ Bins * f \in Int
      BY <1>1, <1>2, <1>12
    <3>3. QED
      BY <1>1, <1>2, <2>1, <3>1, <3>2
  <2>2. CASE rest # 0
    <3>1. Bins * before <= Bins * (f + 1)
      BY <1>2, <1>12, <1>15, <2>2, BinsScale
    <3>2. Bins * before \in Int /\ Bins * f \in Int
      BY <1>1, <1>2, <1>12
    <3>3. Bins * (f + 1) = Bins * f + Bins
      BY <1>1, <1>2
    <3>4. rest >= 1
      BY <1>1, <1>2, <2>2
    <3>5. QED
      BY <1>1, <1>2, <3>1, <3>2, <3>3, <3>4
  <2>3. QED
    BY <2>1, <2>2
<1>17. Bins * through >= p + 1
  <2>1. Bins * (f + 1) <= Bins * through
    BY <1>2, <1>12, <1>13, BinsScale
  <2>2. Bins * through \in Int /\ Bins * f \in Int
    BY <1>1, <1>2, <1>12
  <2>3. Bins * (f + 1) = Bins * f + Bins
    BY <1>1, <1>2
  <2>4. rest <= Bins - 1
    BY <1>1, <1>2
  <2>5. QED
    BY <1>1, <1>2, <2>1, <2>2, <2>3, <2>4
<1>18. ASSUME NEW l \in Int, \A v \in ValuesOf(s) : l <= v PROVE Bins * l <= q
  <2>1. Bins * l <= Bins * a /\ Bins * l \in Int
    BY <1>4, <1>18, BinsScale
  <2>2. QED
    BY <1>8, <1>9, <2>1
<1>19. ASSUME NEW h \in Int, \A v \in ValuesOf(s) : v <= h PROVE q <= Bins * h
  <2>1. Bins * a <= Bins * h /\ Bins * h \in Int
    BY <1>4, <1>19, BinsScale
  <2>2. rest # 0 => Bins * b <= Bins * h
    BY <1>5, <1>19, BinsScale
  <2>3. QED
    BY <1>8, <1>9, <1>10, <1>11, <2>1, <2>2
<1>20. QED
  BY <1>9, <1>12, <1>16, <1>17, <1>18, <1>19 DEF before, through, n, p, q

----------------------------------------------------------------------------
(* What is not concentrated has rows in more bins than one. *)

Low(s) == Min(ValuesOf(s))
High(s) == Max(ValuesOf(s))
Trio(s, v) == {r \in DOMAIN s : s[r] \in {Low(s), v, High(s)}}
Spread(s) ==
  \A v \in ValuesOf(s) : Bins * Cardinality(Trio(s, v)) <= (Bins - 3) * SizeOf(s)

LEMMA EndsApart ==
  ASSUME NEW s, Sample(s), Spread(s)
  PROVE  /\ Low(s) \in ValuesOf(s) /\ High(s) \in ValuesOf(s)
         /\ Low(s) \in Int /\ High(s) \in Int /\ Low(s) < High(s)
         /\ \A v \in ValuesOf(s) : Low(s) <= v /\ v <= High(s)
         /\ \A r \in DOMAIN s : s[r] \in Int /\ Low(s) <= s[r] /\ s[r] <= High(s)
<1> DEFINE V == ValuesOf(s)
           n == SizeOf(s)
<1>1. IsFiniteSet(V) /\ V # {} /\ (\A v \in V : v \in Int) /\ n \in Nat \ {0}
  BY SampleFacts
<1>2. /\ Low(s) \in V /\ \A v \in V : Low(s) <= v
      /\ High(s) \in V /\ \A v \in V : High(s) >= v
  <2> HIDE DEF V
  <2>1. QED
    BY <1>1, ExtremesExist DEF Low, High, V
<1>3. Low(s) \in Int /\ High(s) \in Int /\ Low(s) <= High(s)
  BY <1>1, <1>2
<1>4. \A r \in DOMAIN s : s[r] \in V
  BY DEF ValuesOf
<1>5. Low(s) # High(s)
  <2>1. SUFFICES ASSUME Low(s) = High(s) PROVE FALSE
    OBVIOUS
  <2>2. \A v \in V : v = Low(s)
    BY <1>1, <1>2, <2>1
  <2>3. Trio(s, Low(s)) = DOMAIN s
    BY <1>4, <2>2 DEF Trio
  <2>4. Bins * n <= (Bins - 3) * n
    BY <1>2, <2>3 DEF Spread, SizeOf
  <2>5. (Bins - 3) * n = Bins * n - 3 * n /\ Bins * n \in Int
    BY <1>1, BinsScale
  <2>6. QED
    BY <1>1, <2>4, <2>5
<1>6. \A v \in V : Low(s) <= v /\ v <= High(s)
  BY <1>1, <1>2
<1>7. \A r \in DOMAIN s : s[r] \in Int /\ Low(s) <= s[r] /\ s[r] <= High(s)
  BY <1>1, <1>4, <1>6
<1>8. QED
  BY <1>2, <1>3, <1>5, <1>6, <1>7

\* The rows at the two ends.
LowRows(s) == {r \in DOMAIN s : s[r] = Low(s)}
HighRows(s) == {r \in DOMAIN s : s[r] = High(s)}

LEMMA EndRows ==
  ASSUME NEW s, Sample(s), Spread(s)
  PROVE  /\ Through(s, Bins * Low(s)) = LowRows(s)
         /\ Before(s, Bins * High(s)) = DOMAIN s \ HighRows(s)
         /\ Cardinality(LowRows(s)) \in Nat /\ Cardinality(HighRows(s)) \in Nat
         /\ Cardinality(DOMAIN s \ HighRows(s)) = SizeOf(s) - Cardinality(HighRows(s))
         /\ \A T \in SUBSET DOMAIN s :
              (\E v \in ValuesOf(s) : T \in SUBSET Trio(s, v))
                => /\ Cardinality(T) \in Nat
                   /\ Bins * Cardinality(T) <= (Bins - 3) * SizeOf(s)
<1>1. /\ Low(s) \in Int /\ High(s) \in Int
      /\ \A r \in DOMAIN s : s[r] \in Int /\ Low(s) <= s[r] /\ s[r] <= High(s)
  BY EndsApart
<1>2. Through(s, Bins * Low(s)) = LowRows(s)
  <2>1. ASSUME NEW r \in DOMAIN s PROVE Bins * s[r] <= Bins * Low(s) <=> s[r] = Low(s)
    <3>1. Bins * s[r] <= Bins * Low(s) <=> s[r] <= Low(s)
      BY <1>1, BinsScale
    <3>2. s[r] <= Low(s) <=> s[r] = Low(s)
      BY <1>1
    <3>3. QED
      BY <3>1, <3>2
  <2>2. QED
    BY <2>1 DEF Through, LowRows
<1>3. Before(s, Bins * High(s)) = DOMAIN s \ HighRows(s)
  <2>1. ASSUME NEW r \in DOMAIN s PROVE Bins * s[r] < Bins * High(s) <=> s[r] # High(s)
    <3>1. Bins * s[r] < Bins * High(s) <=> s[r] < High(s)
      BY <1>1, BinsScale
    <3>2. s[r] < High(s) <=> s[r] # High(s)
      BY <1>1
    <3>3. QED
      BY <3>1, <3>2
  <2>2. QED
    BY <2>1 DEF Before, HighRows
<1>4. LowRows(s) \in SUBSET DOMAIN s /\ HighRows(s) \in SUBSET DOMAIN s
  BY DEF LowRows, HighRows
<1>5. /\ Cardinality(LowRows(s)) \in Nat /\ Cardinality(HighRows(s)) \in Nat
      /\ Cardinality(DOMAIN s \ HighRows(s)) = SizeOf(s) - Cardinality(HighRows(s))
  BY <1>4, RowsUnder
<1>6. ASSUME NEW T \in SUBSET DOMAIN s, NEW v \in ValuesOf(s), T \in SUBSET Trio(s, v)
      PROVE  /\ Cardinality(T) \in Nat
             /\ Bins * Cardinality(T) <= (Bins - 3) * SizeOf(s)
  <2>1. Trio(s, v) \in SUBSET DOMAIN s
    BY DEF Trio
  <2>2. /\ Cardinality(T) \in Nat /\ Cardinality(Trio(s, v)) \in Nat
        /\ Cardinality(T) <= Cardinality(Trio(s, v))
    BY <1>6, <2>1, RowsUnder
  <2>3. Bins * Cardinality(T) <= Bins * Cardinality(Trio(s, v))
    BY <2>2, BinsScale
  <2>4. Bins * Cardinality(Trio(s, v)) <= (Bins - 3) * SizeOf(s)
    BY DEF Spread
  <2>5. /\ Bins * Cardinality(T) \in Int /\ Bins * Cardinality(Trio(s, v)) \in Int
        /\ (Bins - 3) * SizeOf(s) \in Int
    <3>1. SizeOf(s) \in Int /\ Bins \in Int
      BY SampleFacts, BinsScale
    <3>2. (Bins - 3) * SizeOf(s) \in Int
      BY <3>1
    <3>3. QED
      BY <2>2, <3>2, BinsScale
  <2>6. QED
    BY <2>2, <2>3, <2>4, <2>5
<1>7. QED
  BY <1>2, <1>3, <1>5, <1>6

LEMMA EndQuantiles ==
  ASSUME NEW s, Sample(s), Spread(s)
  PROVE  /\ Quantile(s, 0) = Bins * Low(s) /\ Quantile(s, Bins) = Bins * High(s)
         /\ Bins * Low(s) \in Int /\ Bins * High(s) \in Int
         /\ Bins * Low(s) < Bins * High(s)
         /\ \A i \in 0..Bins : /\ Quantile(s, i) \in Int
                               /\ Bins * Low(s) <= Quantile(s, i)
                               /\ Quantile(s, i) <= Bins * High(s)
         /\ Min(Edges(s)) = Bins * Low(s) /\ Max(Edges(s)) = Bins * High(s)
<1>1. /\ Low(s) \in ValuesOf(s) /\ High(s) \in ValuesOf(s)
      /\ Low(s) \in Int /\ High(s) \in Int /\ Low(s) < High(s)
      /\ \A v \in ValuesOf(s) : Low(s) <= v /\ v <= High(s)
  BY EndsApart
<1>2. /\ Bins \in Nat /\ Bins >= 2 /\ 0 \in 0..Bins /\ Bins \in 0..Bins
      /\ SizeOf(s) \in Nat \ {0}
  BY BinsScale, SampleFacts
<1>3. /\ Bins * Low(s) \in Int /\ Bins * High(s) \in Int
      /\ Bins * Low(s) < Bins * High(s)
  BY <1>1, BinsScale
<1>4. \A i \in 0..Bins : /\ Quantile(s, i) \in Int
                         /\ Bins * Low(s) <= Quantile(s, i)
                         /\ Quantile(s, i) <= Bins * High(s)
  BY <1>1, QuantileRank
<1>5. Quantile(s, 0) = Bins * Low(s)
  <2> DEFINE q == Quantile(s, 0)
  <2>1. /\ Cardinality(Before(s, q)) \in Nat
        /\ Bins * Cardinality(Before(s, q)) <= (SizeOf(s) - 1) * 0 + Bins - 1
    BY <1>2, QuantileRank
  <2>2. (SizeOf(s) - 1) * 0 = 0
    BY <1>2
  <2>3. Bins * Cardinality(Before(s, q)) < Bins * 1
    <3>1. Bins * Cardinality(Before(s, q)) \in Int
      BY <1>2, <2>1
    <3>2. QED
      BY <1>2, <2>1, <2>2, <3>1
  <2>4. Cardinality(Before(s, q)) < 1
    BY <2>1, <2>3, BinsScale
  <2>5. Cardinality(Before(s, q)) = 0
    BY <2>1, <2>4
  <2>6. Before(s, q) \in SUBSET DOMAIN s
    BY DEF Before
  <2>7. Before(s, q) = {}
    BY <2>5, <2>6, RowsUnder, FS_EmptySet
  <2>8. PICK r \in DOMAIN s : s[r] = Low(s)
    BY <1>1 DEF ValuesOf
  <2>9. ~(Bins * Low(s) < q)
    BY <2>7, <2>8 DEF Before
  <2>10. q \in Int /\ Bins * Low(s) <= q
    BY <1>2, <1>4
  <2> HIDE DEF q
  <2>11. q = Bins * Low(s)
    BY <1>3, <2>9, <2>10
  <2>12. QED
    BY <2>11 DEF q
<1>6. Quantile(s, Bins) = Bins * High(s)
  <2> DEFINE q == Quantile(s, Bins)
             n == SizeOf(s)
  <2>1. /\ Cardinality(Through(s, q)) \in Nat
        /\ Bins * Cardinality(Through(s, q)) >= (n - 1) * Bins + 1
    BY <1>2, QuantileRank
  <2>2. (n - 1) * Bins = Bins * (n - 1) /\ Bins * (n - 1) \in Int
    BY <1>2
  <2>3. Bins * (n - 1) < Bins * Cardinality(Through(s, q))
    <3>1. Bins * Cardinality(Through(s, q)) \in Int
      BY <1>2, <2>1
    <3> HIDE DEF n, q
    <3>2. QED
      BY <2>1, <2>2, <3>1
  <2>4. n - 1 < Cardinality(Through(s, q))
    BY <1>2, <2>1, <2>3, BinsScale
  <2>5. Through(s, q) \in SUBSET DOMAIN s
    BY DEF Through
  <2>6. Cardinality(Through(s, q)) <= n
    BY <2>5, RowsUnder
  <2>7. Cardinality(DOMAIN s) = Cardinality(Through(s, q))
    <3>1. n = Cardinality(DOMAIN s)
      BY DEF SizeOf
    <3> HIDE DEF n, q
    <3>2. QED
      BY <1>2, <2>1, <2>4, <2>6, <3>1 DEF n
  <2>8. Through(s, q) = DOMAIN s
    BY <2>5, <2>7, FS_Subset DEF Sample
  <2>9. PICK r \in DOMAIN s : s[r] = High(s)
    BY <1>1 DEF ValuesOf
  <2>10. Bins * High(s) <= q
    BY <2>8, <2>9 DEF Through
  <2>11. q \in Int /\ q <= Bins * High(s)
    BY <1>2, <1>4
  <2> HIDE DEF q
  <2>12. q = Bins * High(s)
    BY <1>3, <2>10, <2>11
  <2>13. QED
    BY <2>12 DEF q
<1>7. /\ Bins * Low(s) \in Edges(s) /\ Bins * High(s) \in Edges(s)
      /\ \A e \in Edges(s) : e \in Int /\ Bins * Low(s) <= e /\ e <= Bins * High(s)
  BY <1>2, <1>4, <1>5, <1>6 DEF Edges
<1>8. Min(Edges(s)) = Bins * Low(s) /\ Max(Edges(s)) = Bins * High(s)
  <2> DEFINE x == Bins * Low(s)
             y == Bins * High(s)
             E == Edges(s)
  <2>1. x \in E /\ y \in E /\ \A e \in E : e \in Int /\ x <= e /\ e <= y
    BY <1>7
  <2> HIDE DEF x, y, E
  <2>2. /\ \A z \in E : (\A e \in E : z <= e) => z = x
        /\ \A z \in E : (\A e \in E : z >= e) => z = y
    BY <2>1
  <2>3. /\ \A e \in E : x <= e
        /\ \A e \in E : y >= e
    BY <2>1
  <2>4. Min(E) = x
    BY <2>1, <2>2, <2>3, Zenon DEF Min
  <2>5. Max(E) = y
    BY <2>1, <2>2, <2>3, Zenon DEF Max
  <2>6. QED
    BY <2>4, <2>5 DEF x, y, E
<1>9. QED
  BY <1>3, <1>4, <1>5, <1>6, <1>8

\* Some quantile lies strictly between the ends.
LEMMA EndsNotAdjacent ==
  ASSUME NEW s, Sample(s), Spread(s), SizeOf(s) >= 8, NEW i \in 1..Bins,
         Quantile(s, i - 1) = Bins * Low(s), Quantile(s, i) = Bins * High(s)
  PROVE  FALSE
<1> DEFINE n == SizeOf(s)
           low == Cardinality(LowRows(s))
           high == Cardinality(HighRows(s))
           p == (n - 1) * i
<1>1. /\ Bins \in Nat /\ Bins >= 2 /\ Bins <= 10 /\ n \in Nat /\ n >= 8
      /\ i \in Nat /\ i - 1 \in 0..Bins /\ i \in 0..Bins
  BY BinsScale, SampleFacts
<1>2. low \in Nat /\ high \in Nat /\ Cardinality(Before(s, Bins * High(s))) = n - high
  BY EndRows
<1>3. Bins * low >= (n - 1) * (i - 1) + 1
  BY <1>1, QuantileRank, EndRows
<1>4. Bins * (n - high) <= (n - 1) * i + Bins - 1
  BY <1>1, <1>2, QuantileRank
<1>5. (n - 1) * (i - 1) = p - (n - 1) /\ p \in Int
  BY <1>1
<1>6. Bins * (n - high) = Bins * n - Bins * high
  BY <1>1, <1>2
<1> DEFINE both == LowRows(s) \cup HighRows(s)
<1>7. Cardinality(both) = low + high
  <2>1. IsFiniteSet(LowRows(s)) /\ IsFiniteSet(HighRows(s))
    <3>1. LowRows(s) \in SUBSET DOMAIN s /\ HighRows(s) \in SUBSET DOMAIN s
      BY DEF LowRows, HighRows
    <3>2. QED
      BY <3>1, RowsUnder
  <2>2. LowRows(s) \cap HighRows(s) = {}
    <3>1. Low(s) # High(s)
      BY EndsApart
    <3>2. QED
      BY <3>1 DEF LowRows, HighRows
  <2>3. Cardinality(both) = low + high - Cardinality({})
    BY <2>1, <2>2, FS_Union
  <2>4. QED
    BY <1>2, <2>3, FS_EmptySet
<1>8. Bins * Cardinality(both) <= (Bins - 3) * n
  <2>1. Low(s) \in ValuesOf(s) /\ both \in SUBSET DOMAIN s /\ both \in SUBSET Trio(s, Low(s))
    BY EndsApart DEF LowRows, HighRows, Trio
  <2> HIDE DEF both
  <2>2. QED
    BY <2>1, EndRows
<1>9. /\ Bins * (low + high) = Bins * low + Bins * high
      /\ (Bins - 3) * n = Bins * n - 3 * n
      /\ Bins * low \in Int /\ Bins * high \in Int /\ Bins * n \in Int
  BY <1>1, <1>2
<1> HIDE DEF n, low, high, p, both
<1>10. QED
  BY <1>1, <1>3, <1>4, <1>5, <1>6, <1>7, <1>8, <1>9

\* Enough of the rows lie at or above an inner edge.
LEMMA EdgeAbove ==
  ASSUME NEW s, Sample(s), Spread(s), SizeOf(s) >= 8
  PROVE  \E e \in InnerEdges(s) :
           /\ Cardinality(DOMAIN s \ Before(s, e)) \in Nat
           /\ Bins * Cardinality(DOMAIN s \ Before(s, e)) >= 2 * SizeOf(s) - Bins + 3
<1> DEFINE n == SizeOf(s)
           others == {j \in 0..Bins : Quantile(s, j) # Bins * Low(s)}
           i == Min(others)
           q == Quantile(s, i)
           low == Cardinality(LowRows(s))
           before == Cardinality(Before(s, q))
           p == (n - 1) * i
<1>1. /\ Bins \in Nat /\ Bins >= 2 /\ Bins <= 10 /\ n \in Nat /\ n >= 8
  BY BinsScale, SampleFacts
<1>2. /\ Quantile(s, 0) = Bins * Low(s) /\ Quantile(s, Bins) = Bins * High(s)
      /\ Bins * Low(s) # Bins * High(s)
  BY EndQuantiles
<1>3. i \in others /\ \A j \in others : i <= j
  <2>1. Bins \in others
    BY <1>1, <1>2
  <2>2. others \in SUBSET Nat
    OBVIOUS
  <2> HIDE DEF others
  <2>3. QED
    BY <2>1, <2>2, MinIsLeast
<1>4. i \in 0..Bins /\ q # Bins * Low(s)
  BY <1>3
<1>5. i \in 1..Bins /\ i - 1 \in 0..Bins /\ Quantile(s, i - 1) = Bins * Low(s)
  <2>1. i # 0
    BY <1>2, <1>4
  <2>2. i \in 1..Bins /\ i - 1 \in 0..Bins /\ ~(i <= i - 1)
    BY <1>1, <1>4, <2>1
  <2>3. i - 1 \notin others
    <3> HIDE DEF others, i
    <3>1. QED
      BY <1>3, <2>2
  <2>4. QED
    BY <2>2, <2>3
<1> HIDE DEF i, others
<1>6. q # Bins * High(s)
  BY <1>1, <1>5, EndsNotAdjacent
<1>7. q \in InnerEdges(s)
  BY <1>4, <1>6, EndQuantiles DEF InnerEdges, Edges
<1>8. before \in Nat /\ Bins * before <= p + Bins - 1
  BY <1>4, QuantileRank
<1>9. low \in Nat /\ Bins * low >= (n - 1) * (i - 1) + 1
  BY <1>5, QuantileRank, EndRows
<1>10. Bins * low <= (Bins - 3) * n
  <2>1. /\ Low(s) \in ValuesOf(s) /\ LowRows(s) \in SUBSET DOMAIN s
        /\ LowRows(s) \in SUBSET Trio(s, Low(s))
    BY EndsApart DEF LowRows, Trio
  <2>2. QED
    BY <2>1, EndRows
<1>11. /\ (n - 1) * (i - 1) = p - (n - 1) /\ p \in Int
       /\ (Bins - 3) * n = Bins * n - 3 * n
       /\ Bins * low \in Int /\ Bins * before \in Int /\ Bins * n \in Int
       /\ Bins * (n - before) = Bins * n - Bins * before
  BY <1>1, <1>5, <1>8, <1>9
<1>12. /\ Cardinality(DOMAIN s \ Before(s, q)) = n - before
       /\ Cardinality(DOMAIN s \ Before(s, q)) \in Nat
  <2>1. Before(s, q) \in SUBSET DOMAIN s /\ DOMAIN s \ Before(s, q) \in SUBSET DOMAIN s
    BY DEF Before
  <2>2. QED
    BY <2>1, RowsUnder
<1>13. Bins * (n - before) >= 2 * n - Bins + 3
  <2> HIDE DEF n, q, low, before, p
  <2>1. QED
    BY <1>1, <1>8, <1>9, <1>10, <1>11
<1>14. QED
  BY <1>7, <1>12, <1>13

\* Enough of the rows lie below an inner edge.
LEMMA EdgeBelow ==
  ASSUME NEW s, Sample(s), Spread(s), SizeOf(s) >= 8
  PROVE  \E e \in InnerEdges(s) :
           /\ Cardinality(Before(s, e)) \in Nat
           /\ Bins * Cardinality(Before(s, e)) >= 2 * SizeOf(s) - Bins + 3
<1> DEFINE n == SizeOf(s)
           others == {j \in 0..Bins : Quantile(s, j) # Bins * High(s)}
           i == Max(others)
           q == Quantile(s, i)
           high == Cardinality(HighRows(s))
           before == Cardinality(Before(s, q))
           through == Cardinality(Through(s, q))
           p == (n - 1) * i
           tied == {r \in DOMAIN s : Bins * s[r] = q}
           ties == Cardinality(tied)
<1>1. /\ Bins \in Nat /\ Bins >= 2 /\ Bins <= 10 /\ n \in Nat /\ n >= 8
  BY BinsScale, SampleFacts
<1>2. /\ Quantile(s, 0) = Bins * Low(s) /\ Quantile(s, Bins) = Bins * High(s)
      /\ Bins * Low(s) # Bins * High(s)
  BY EndQuantiles
<1>3. i \in others /\ \A j \in others : i >= j
  <2>1. 0 \in others
    BY <1>1, <1>2
  <2>2. others \in SUBSET (0..Bins) /\ \A j \in others : j \in Int
    OBVIOUS
  <2>3. IsFiniteSet(others)
    <3>1. IsFiniteSet(0..Bins)
      BY <1>1, FS_Interval
    <3> HIDE DEF others
    <3>2. QED
      BY <2>2, <3>1, FS_Subset
  <2> HIDE DEF others
  <2>4. QED
    BY <2>1, <2>2, <2>3, ExtremesExist
<1>4. i \in 0..Bins /\ q # Bins * High(s)
  BY <1>3
<1>5. i + 1 \in 1..Bins /\ i + 1 \in 0..Bins /\ Quantile(s, i + 1) = Bins * High(s)
  <2>1. i # Bins
    BY <1>2, <1>4
  <2>2. i + 1 \in 1..Bins /\ i + 1 \in 0..Bins /\ ~(i >= i + 1)
    BY <1>1, <1>4, <2>1
  <2>3. i + 1 \notin others
    <3> HIDE DEF others, i
    <3>1. QED
      BY <1>3, <2>2
  <2>4. QED
    BY <2>2, <2>3
<1> HIDE DEF i, others
<1>6. q # Bins * Low(s)
  <2>1. (i + 1) - 1 = i
    BY <1>4
  <2>2. QED
    BY <1>1, <1>5, <2>1, EndsNotAdjacent
<1>7. q \in InnerEdges(s) /\ q \in Int /\ q <= Bins * High(s) /\ Bins * High(s) \in Int
  BY <1>4, <1>6, EndQuantiles DEF InnerEdges, Edges
<1>8. /\ before \in Nat /\ through \in Nat
      /\ Bins * through >= p + 1
  BY <1>4, QuantileRank
<1>9. high \in Nat /\ Bins * (n - high) <= (n - 1) * (i + 1) + Bins - 1
  BY <1>5, QuantileRank, EndRows
<1>10. tied \in SUBSET DOMAIN s /\ HighRows(s) \in SUBSET DOMAIN s /\ Before(s, q) \in SUBSET DOMAIN s
  BY DEF HighRows, Before
<1>11. IsFiniteSet(tied) /\ IsFiniteSet(HighRows(s)) /\ IsFiniteSet(Before(s, q)) /\ ties \in Nat
  <2> HIDE DEF tied, q
  <2>1. QED
    BY <1>10, RowsUnder
<1>12. tied \cap HighRows(s) = {} /\ tied \cap Before(s, q) = {}
  <2>1. \A r \in DOMAIN s : Bins * s[r] = q => s[r] # High(s) /\ ~(Bins * s[r] < q)
    BY <1>4, <1>7
  <2>2. QED
    BY <2>1 DEF HighRows, Before
<1>13. Cardinality(tied \cup HighRows(s)) = ties + high
  <2>1. Cardinality(tied \cup HighRows(s)) = ties + high - Cardinality({})
    BY <1>11, <1>12, FS_Union
  <2>2. QED
    BY <1>9, <1>11, <2>1, FS_EmptySet
<1>14. through = before + ties
  <2>1. Through(s, q) = Before(s, q) \cup tied
    <3>1. \A r \in DOMAIN s : Bins * s[r] \in Int
      BY BinsScale DEF Sample
    <3>2. \A r \in DOMAIN s : Bins * s[r] <= q <=> (Bins * s[r] < q \/ Bins * s[r] = q)
      BY <1>7, <3>1
    <3>3. QED
      BY <3>2 DEF Through, Before
  <2>2. Before(s, q) \cap tied = {}
    BY <1>12
  <2>3. through = before + ties - Cardinality({})
    BY <1>11, <2>1, <2>2, FS_Union
  <2>4. QED
    BY <1>8, <1>11, <2>3, FS_EmptySet
<1>15. Bins * (ties + high) <= (Bins - 3) * n
  <2>1. \E v \in ValuesOf(s) : tied \cup HighRows(s) \in SUBSET Trio(s, v)
    <3>1. CASE tied = {}
      <4>1. Low(s) \in ValuesOf(s) /\ HighRows(s) \in SUBSET Trio(s, Low(s))
        BY EndsApart DEF HighRows, Trio
      <4>2. QED
        BY <3>1, <4>1
    <3>2. CASE tied # {}
      <4>1. PICK r \in tied : TRUE
        BY <3>2
      <4>2. \A t \in tied : s[t] = s[r]
        <5>1. \A t \in tied : s[t] \in Int /\ Bins * s[t] = Bins * s[r] /\ s[r] \in Int
          BY <4>1 DEF Sample
        <5>2. \A t \in tied : s[t] <= s[r] /\ s[r] <= s[t]
          <6>1. \A t \in tied : Bins * s[t] <= Bins * s[r] /\ Bins * s[r] <= Bins * s[t]
            BY <1>7, <4>1
          <6>2. QED
            BY <5>1, <6>1, BinsScale
        <5>3. QED
          BY <5>1, <5>2
      <4>3. s[r] \in ValuesOf(s)
        BY <4>1 DEF ValuesOf
      <4>4. tied \cup HighRows(s) \in SUBSET Trio(s, s[r])
        <5>1. \A t \in tied : t \in DOMAIN s
          OBVIOUS
        <5> HIDE DEF tied
        <5>2. QED
          BY <4>2, <5>1 DEF HighRows, Trio
      <4>5. QED
        BY <4>3, <4>4
    <3>3. QED
      BY <3>1, <3>2
  <2>2. tied \cup HighRows(s) \in SUBSET DOMAIN s
    BY <1>10
  <2> HIDE DEF tied
  <2>3. Bins * Cardinality(tied \cup HighRows(s)) <= (Bins - 3) * n
    BY <2>1, <2>2, EndRows
  <2>4. QED
    BY <1>13, <2>3
<1>16. /\ (n - 1) * (i + 1) = p + (n - 1) /\ p \in Int
       /\ (Bins - 3) * n = Bins * n - 3 * n
       /\ Bins * (n - high) = Bins * n - Bins * high
       /\ Bins * (ties + high) = Bins * ties + Bins * high
       /\ Bins * (before + ties) = Bins * before + Bins * ties
       /\ Bins * high \in Int /\ Bins * before \in Int /\ Bins * n \in Int /\ Bins * ties \in Int
  <2>1. i \in Int
    BY <1>4
  <2> HIDE DEF n, high, before, ties
  <2>2. (n - 1) * (i + 1) = p + (n - 1) /\ p \in Int
    BY <1>1, <2>1
  <2>3. /\ (Bins - 3) * n = Bins * n - 3 * n
        /\ Bins * (n - high) = Bins * n - Bins * high
        /\ Bins * high \in Int /\ Bins * n \in Int
    BY <1>1, <1>9
  <2>4. /\ Bins * (ties + high) = Bins * ties + Bins * high
        /\ Bins * (before + ties) = Bins * before + Bins * ties
        /\ Bins * before \in Int /\ Bins * ties \in Int
    BY <1>1, <1>8, <1>9, <1>11
  <2>5. QED
    BY <2>2, <2>3, <2>4
<1>17. Bins * before >= 2 * n - Bins + 3
  <2> HIDE DEF n, q, high, before, through, p, tied, ties
  <2>1. QED
    BY <1>1, <1>8, <1>9, <1>14, <1>15, <1>16
<1>18. QED
  BY <1>7, <1>8, <1>17

LEMMA InnerFacts ==
  ASSUME NEW s, Sample(s)
  PROVE  /\ IsFiniteSet(InnerEdges(s)) /\ Cardinality(InnerEdges(s)) \in 0..(Bins - 1)
         /\ \A e \in InnerEdges(s) : e \in Int
<1> DEFINE f == [i \in 0..Bins |-> Quantile(s, i)]
           E == Edges(s)
<1>1. Bins \in Nat /\ Bins >= 2 /\ 0 \in 0..Bins
  BY BinsScale
<1>2. IsFiniteSet(0..Bins) /\ Cardinality(0..Bins) = Bins + 1
  BY <1>1, FS_Interval
<1>3. f \in Surjection(0..Bins, E)
  BY DEF Surjection, Edges
<1>4. IsFiniteSet(E) /\ Cardinality(E) <= Bins + 1 /\ Cardinality(E) \in Nat
  BY <1>2, <1>3, FS_Surjection, FS_CardinalityType
<1>5. E # {} /\ \A e \in E : e \in Int
  BY <1>1, QuantileRank DEF Edges
<1>6. Min(E) \in E /\ Max(E) \in E /\ \A e \in E : Min(E) <= e /\ Max(E) >= e
  <2> HIDE DEF E
  <2>1. QED
    BY <1>4, <1>5, ExtremesExist
<1> DEFINE I == InnerEdges(s)
<1>7. I = E \ {Min(E), Max(E)}
  BY DEF InnerEdges
<1>8. IsFiniteSet(I) /\ Cardinality(I) \in Nat
  <2>1. I \in SUBSET E
    BY <1>7
  <2> HIDE DEF I, E
  <2>2. QED
    BY <1>4, <2>1, FS_Subset, FS_CardinalityType
<1>9. Cardinality(I) <= Bins - 1
  <2>1. CASE Min(E) = Max(E)
    <3>1. \A e \in E : e = Min(E)
      BY <1>5, <1>6, <2>1
    <3>2. I = {}
      BY <1>7, <3>1
    <3>3. QED
      BY <1>1, <3>2, FS_EmptySet
  <2>2. CASE Min(E) # Max(E)
    <3> HIDE DEF E, I
    <3>1. E \ {Min(E)} = E \ {Min(E)} /\ I = (E \ {Min(E)}) \ {Max(E)}
      BY <1>7
    <3>2. IsFiniteSet(E \ {Min(E)}) /\ Cardinality(E \ {Min(E)}) = Cardinality(E) - 1
      BY <1>4, <1>6, FS_RemoveElement
    <3>3. Max(E) \in E \ {Min(E)}
      BY <1>6, <2>2
    <3>4. Cardinality(I) = Cardinality(E) - 1 - 1
      BY <3>1, <3>2, <3>3, FS_RemoveElement
    <3>5. QED
      BY <1>1, <1>4, <3>4
  <2>3. QED
    BY <2>1, <2>2
<1>10. \A e \in I : e \in Int
  BY <1>5, <1>7
<1>11. Cardinality(I) \in 0..(Bins - 1)
  <2> HIDE DEF I
  <2>1. QED
    BY <1>1, <1>8, <1>9
<1>12. QED
  BY <1>8, <1>10, <1>11

\* The bin of a value.
BinOf(s, v) == Cardinality({e \in InnerEdges(s) : e <= Bins * v})

LEMMA BinsAreNumbered ==
  ASSUME NEW s, Sample(s), NEW v
  PROVE  /\ BinOf(s, v) \in 0..Cardinality(InnerEdges(s))
         /\ Cardinality(InnerEdges(s)) \in Nat
<1> DEFINE I == InnerEdges(s)
           T == {e \in I : e <= Bins * v}
<1>1. IsFiniteSet(I) /\ Cardinality(I) \in Nat
  BY InnerFacts, FS_CardinalityType
<1>2. T \in SUBSET I
  OBVIOUS
<1>3. Cardinality(T) \in Nat /\ Cardinality(T) <= Cardinality(I)
  <2> HIDE DEF I, T
  <2>1. QED
    BY <1>1, <1>2, FS_Subset, FS_CardinalityType
<1>4. QED
  BY <1>1, <1>3 DEF BinOf

LEMMA OtherBins ==
  ASSUME NEW s, Sample(s), Spread(s), SizeOf(s) >= 8, NEW T,
         \/ \A v \in T : v \in Int /\ v < Low(s)
         \/ \A v \in T : v \in Int /\ v > High(s)
  PROVE  \E k \in 0..Cardinality(InnerEdges(s)) :
           /\ \A v \in T : BinOf(s, v) = k
           /\ Cardinality({r \in DOMAIN s : BinOf(s, s[r]) # k}) \in Nat
           /\ Bins * Cardinality({r \in DOMAIN s : BinOf(s, s[r]) # k})
                >= 2 * SizeOf(s) - Bins + 3
<1> DEFINE I == InnerEdges(s)
           n == SizeOf(s)
           Reached(v) == {e \in I : e <= Bins * v}
           Missed(k) == {r \in DOMAIN s : BinOf(s, s[r]) # k}
<1>1. /\ IsFiniteSet(I) /\ Cardinality(I) \in Nat /\ (\A e \in I : e \in Int)
      /\ Bins \in Nat /\ n \in Nat
  BY InnerFacts, FS_CardinalityType, BinsScale, SampleFacts
<1>2. /\ Low(s) \in Int /\ High(s) \in Int
      /\ Bins * Low(s) \in Int /\ Bins * High(s) \in Int
      /\ \A e \in I : Bins * Low(s) <= e /\ e <= Bins * High(s)
      /\ \A e \in I : e # Bins * Low(s)
      /\ \A r \in DOMAIN s : s[r] \in Int /\ Bins * s[r] \in Int
  BY EndsApart, EndQuantiles, BinsScale DEF InnerEdges, Edges
<1>3. \A v : /\ Reached(v) \in SUBSET I /\ IsFiniteSet(Reached(v))
             /\ BinOf(s, v) = Cardinality(Reached(v))
  <2>1. \A v : Reached(v) \in SUBSET I
    OBVIOUS
  <2>2. \A v : BinOf(s, v) = Cardinality(Reached(v))
    BY DEF BinOf
  <2> HIDE DEF Reached, I
  <2>3. QED
    BY <1>1, <2>1, <2>2, FS_Subset
<1>4. ASSUME NEW k, NEW R \in SUBSET Missed(k), Bins * Cardinality(R) >= 2 * n - Bins + 3
      PROVE  Cardinality(Missed(k)) \in Nat /\ Bins * Cardinality(Missed(k)) >= 2 * n - Bins + 3
  <2>1. Missed(k) \in SUBSET DOMAIN s
    OBVIOUS
  <2> HIDE DEF Missed
  <2>2. /\ Cardinality(R) \in Nat /\ Cardinality(Missed(k)) \in Nat
        /\ Cardinality(R) <= Cardinality(Missed(k))
    BY <1>4, <2>1, RowsUnder
  <2>3. Bins * Cardinality(R) <= Bins * Cardinality(Missed(k))
    BY <2>2, BinsScale
  <2>4. Bins * Cardinality(R) \in Int /\ Bins * Cardinality(Missed(k)) \in Int
    BY <2>2, BinsScale
  <2> HIDE DEF n
  <2>5. QED
    BY <1>1, <1>4, <2>2, <2>3, <2>4
<1>5. CASE \A v \in T : v \in Int /\ v < Low(s)
  <2>1. PICK e \in I : Bins * Cardinality(DOMAIN s \ Before(s, e)) >= 2 * n - Bins + 3
    BY EdgeAbove
  <2>2. \A v \in T : BinOf(s, v) = 0
    <3>1. ASSUME NEW v \in T PROVE Reached(v) = {}
      <4>1. Bins * v < Bins * Low(s) /\ Bins * v \in Int
        BY <1>2, <1>5, BinsScale
      <4>2. \A d \in I : ~(d <= Bins * v)
        BY <1>1, <1>2, <4>1
      <4>3. QED
        BY <4>2
    <3>2. QED
      BY <1>3, <3>1, FS_EmptySet
  <2>3. DOMAIN s \ Before(s, e) \in SUBSET Missed(0)
    <3>1. ASSUME NEW r \in DOMAIN s, ~(Bins * s[r] < e) PROVE BinOf(s, s[r]) # 0
      <4>1. e \in Reached(s[r])
        BY <1>1, <1>2, <3>1
      <4>2. QED
        BY <1>3, <4>1, FS_EmptySet
    <3>2. QED
      BY <3>1 DEF Before
  <2>4. Cardinality(Missed(0)) \in Nat /\ Bins * Cardinality(Missed(0)) >= 2 * n - Bins + 3
    BY <1>4, <2>1, <2>3
  <2>5. 0 \in 0..Cardinality(I)
    BY <1>1
  <2>6. QED
    BY <2>2, <2>4, <2>5
<1>6. CASE \A v \in T : v \in Int /\ v > High(s)
  <2> DEFINE last == Cardinality(I)
  <2>1. PICK e \in I : Bins * Cardinality(Before(s, e)) >= 2 * n - Bins + 3
    BY EdgeBelow
  <2>2. \A v \in T : BinOf(s, v) = last
    <3>1. ASSUME NEW v \in T PROVE Reached(v) = I
      <4>1. Bins * High(s) < Bins * v /\ Bins * v \in Int
        BY <1>2, <1>6, BinsScale
      <4>2. \A d \in I : d <= Bins * v
        BY <1>1, <1>2, <4>1
      <4>3. QED
        BY <4>2
    <3>2. QED
      BY <1>3, <3>1
  <2>3. Before(s, e) \in SUBSET Missed(last)
    <3>1. ASSUME NEW r \in DOMAIN s, Bins * s[r] < e PROVE BinOf(s, s[r]) # last
      <4>1. e \notin Reached(s[r])
        BY <1>1, <1>2, <3>1
      <4>2. Reached(s[r]) # I
        BY <4>1
      <4>3. Reached(s[r]) \in SUBSET I /\ BinOf(s, s[r]) = Cardinality(Reached(s[r]))
        BY <1>3
      <4> HIDE DEF Reached, I
      <4>4. QED
        BY <1>1, <4>2, <4>3, FS_Subset
    <3>2. QED
      BY <3>1 DEF Before
  <2>4. Cardinality(Missed(last)) \in Nat /\ Bins * Cardinality(Missed(last)) >= 2 * n - Bins + 3
    BY <1>4, <2>1, <2>3
  <2>5. last \in 0..Cardinality(I)
    BY <1>1
  <2>6. QED
    BY <2>2, <2>4, <2>5
<1>7. QED
  BY <1>5, <1>6

----------------------------------------------------------------------------
(* The index reaches the threshold when classes are missed. *)

LEMMA LeastTermIsNatural ==
  ASSUME NEW r \in Nat, NEW c \in Nat, NEW whole \in Nat \ {0}
  PROVE  LeastTerm(r, c, whole) \in Nat
<1>1. CASE r = c
  BY <1>1 DEF LeastTerm
<1>2. CASE r # c /\ (r = 0 \/ c = 0)
  <2>1. LeastTerm(r, c, whole) = (9000 * (r + c)) \div whole
    BY <1>2 DEF LeastTerm
  <2>2. QED
    BY <2>1
<1>3. CASE r # c /\ r # 0 /\ c # 0
  <2>1. LeastTerm(r, c, whole) = (2000 * (c - r) * (c - r)) \div ((c + r) * whole)
    BY <1>3 DEF LeastTerm
  <2>2. 2000 * (c - r) * (c - r) \in Nat
    <3> DEFINE d == IF c >= r THEN c - r ELSE r - c
    <3>1. d \in Nat /\ d * d \in Nat
      <4>1. d \in Nat
        OBVIOUS
      <4> HIDE DEF d
      <4>2. QED
        BY <4>1, ProductsKeepOrder
    <3>2. 2000 * (c - r) * (c - r) = 2000 * (d * d)
      <4>1. CASE c >= r
        BY <4>1
      <4>2. CASE ~(c >= r)
        BY <4>2
      <4>3. QED
        BY <4>1, <4>2
    <3> HIDE DEF d
    <3>3. QED
      BY <3>1, <3>2
  <2>3. (c + r) * whole \in Nat \ {0}
    <3> DEFINE z == c + r
    <3>1. z \in Nat /\ z >= 1
      BY <1>3
    <3> HIDE DEF z
    <3>2. whole * 1 <= whole * z /\ whole * z \in Int
      BY <3>1, ProductsKeepOrder
    <3>3. z * whole = whole * z
      BY <3>1
    <3>4. QED
      BY <3>2, <3>3 DEF z
  <2> DEFINE x == 2000 * (c - r) * (c - r)
             y == (c + r) * whole
  <2> HIDE DEF x, y
  <2>4. x \div y \in Nat
    BY <2>2, <2>3 DEF x, y
  <2>5. QED
    BY <2>1, <2>4 DEF x, y
<1>4. QED
  BY <1>1, <1>2, <1>3

\* A term counts for the share of n that was missed, but for its rounding.
CountsFor(l, r, n) == n * l >= 9000 * r - n

LEMMA MissedTerm ==
  ASSUME NEW r \in Nat, NEW m \in Nat \ {0}, NEW n \in Nat \ {0}
  PROVE  CountsFor(LeastTerm(r * m, 0, n * m), r, n)
<1> DEFINE l == LeastTerm(r * m, 0, n * m)
<1>1. CASE r = 0
  <2>1. r * m = 0
    BY <1>1
  <2>2. l = 0
    BY <2>1 DEF LeastTerm
  <2>3. QED
    BY <1>1, <2>2 DEF CountsFor
<1>2. CASE r # 0
  <2>1. /\ r * m \in Nat \ {0} /\ n * m \in Nat \ {0} /\ m \in Nat /\ n \in Nat
        /\ m >= 1 /\ n >= 1 /\ r >= 1
    <3>1. m \in Nat /\ n \in Nat /\ m >= 1 /\ n >= 1 /\ r >= 1
      BY <1>2
    <3>2. m * 1 <= m * r /\ m * r \in Int /\ m * 1 <= m * n /\ m * n \in Int
      BY <3>1, ProductsKeepOrder
    <3>3. m * r = r * m /\ m * n = n * m /\ m * 1 = m
      BY <3>1
    <3>4. QED
      BY <3>1, <3>2, <3>3
  <2> DEFINE x == 9000 * (r * m + 0)
             y == n * m
  <2>2. l = x \div y
    BY <2>1 DEF LeastTerm
  <2>3. x \in Nat /\ y \in Nat \ {0} /\ x = 9000 * (r * m)
    BY <2>1
  <2> HIDE DEF x, y, l
  <2>4. l \in Nat /\ x = y * l + (x % y) /\ x % y \in 0..(y - 1)
    <3>1. /\ x \div y \in Nat
          /\ x = y * (x \div y) + (x % y)
          /\ x % y \in 0..(y - 1)
      BY <2>3
    <3>2. QED
      BY <2>2, <3>1
  <2>5. x < y * l + y
    <3>1. y * l \in Int
      BY <2>3, <2>4
    <3>2. x % y < y /\ x % y \in Int
      BY <2>3, <2>4
    <3>3. QED
      BY <2>3, <2>4, <3>1, <3>2
  <2>6. x = m * (9000 * r) /\ y * l + y = m * (n * l + n)
    BY <2>1, <2>3, <2>4 DEF y
  <2>7. 9000 * r \in Int /\ n * l + n \in Int /\ n * l \in Int
    BY <2>1, <2>4
  <2>8. 9000 * r < n * l + n
    <3>1. SUFFICES ASSUME n * l + n <= 9000 * r PROVE FALSE
      BY <2>7
    <3> DEFINE a == n * l + n
               b == 9000 * r
    <3> HIDE DEF a, b
    <3>2. m * a <= m * b /\ m * a \in Int /\ m * b \in Int
      <4>1. a \in Int /\ b \in Int /\ a <= b
        BY <2>7, <3>1 DEF a, b
      <4>2. QED
        BY <4>1, <2>1, ProductsKeepOrder
    <3>3. m * b < m * a
      BY <2>5, <2>6 DEF a, b
    <3>4. QED
      BY <3>2, <3>3
  <2>9. QED
    BY <2>1, <2>7, <2>8 DEF l, CountsFor
<1>3. QED
  BY <1>1, <1>2

LEMMA TermFacts ==
  ASSUME NEW r \in Nat, NEW c \in Nat, NEW n \in Nat \ {0}, NEW m \in Nat \ {0}
  PROVE  /\ LeastTerm(r * m, c * n, n * m) \in Nat
         /\ c = 0 => CountsFor(LeastTerm(r * m, c * n, n * m), r, n)
<1>1. n \in Nat /\ m \in Nat /\ n >= 1 /\ m >= 1
  OBVIOUS
<1>2. n * m \in Nat \ {0}
  <2>1. n * 1 <= n * m /\ n * m \in Int /\ n * 1 = n
    BY <1>1, ProductsKeepOrder
  <2>2. QED
    BY <1>1, <2>1
<1>3. r * m \in Nat /\ c * n \in Nat
  <2>1. /\ r * 0 <= r * m /\ r * m \in Int
        /\ c * 0 <= c * n /\ c * n \in Int
    BY <1>1, ProductsKeepOrder
  <2>2. r * 0 = 0 /\ c * 0 = 0
    OBVIOUS
  <2>3. QED
    BY <2>1, <2>2
<1>4. LeastTerm(r * m, c * n, n * m) \in Nat
  BY <1>2, <1>3, LeastTermIsNatural
<1>5. c = 0 => c * n = 0
  BY <1>1
<1>6. c = 0 => CountsFor(LeastTerm(r * m, c * n, n * m), r, n)
  <2>1. CountsFor(LeastTerm(r * m, 0, n * m), r, n)
    BY MissedTerm, Zenon
  <2>2. QED
    BY <1>5, <2>1
<1>7. QED
  BY <1>4, <1>6

\* More of n than an index below the greatest threshold leaves unobserved.
Heavy(x, n) == 9000 * x >= 1010 * n

LEMMA LeastIndex ==
  ASSUME NEW D, IsFiniteSet(D), NEW reference, NEW least, NEW n \in Nat \ {0},
         \A c \in D : reference[c] \in Nat /\ least[c] \in Nat,
         NEW O \in SUBSET D, Cardinality(O) <= 10,
         \A c \in O : CountsFor(least[c], reference[c], n),
         Heavy(Sum(reference, O), n)
  PROVE  Sum(least, D) \in Int /\ Sum(least, D) >= 1000
<1>2. \A c \in D : least[c] \in Nat
  OBVIOUS
<1>3. \A c \in O : n * least[c] >= 9000 * reference[c] - n
  BY DEF CountsFor
<1>4. IsFiniteSet(O) /\ Cardinality(O) \in Nat
  BY FS_Subset, FS_CardinalityType
<1> DEFINE scaled == [c \in O |-> n * least[c]]
           shares == [c \in O |-> 9000 * reference[c]]
           losses == [c \in O |-> -n]
           bound == [c \in O |-> 9000 * reference[c] + (-n)]
<1>5. Sum(scaled, O) = n * Sum(least, O)
  <2>1. n \in Int /\ \A c \in O : least[c] \in Int /\ scaled[c] = n * least[c]
    BY <1>2
  <2> HIDE DEF scaled
  <2>2. QED
    BY <1>4, <2>1, SumScaled
<1>6. Sum(shares, O) = 9000 * Sum(reference, O)
  <2>1. \A c \in O : reference[c] \in Int /\ shares[c] = 9000 * reference[c]
    OBVIOUS
  <2> HIDE DEF shares
  <2>2. QED
    BY <1>4, <2>1, SumScaled
<1>7. Sum(losses, O) = (-n) * Cardinality(O)
  <2>1. -n \in Int /\ \A c \in O : losses[c] = -n
    OBVIOUS
  <2> HIDE DEF losses
  <2>2. QED
    BY <1>4, <2>1, SumConstant
<1>8. Sum(bound, O) = Sum(shares, O) + Sum(losses, O)
  <2>1. \A c \in O : /\ shares[c] \in Int /\ losses[c] \in Int
                     /\ bound[c] = shares[c] + losses[c]
    OBVIOUS
  <2> HIDE DEF shares, losses, bound
  <2>2. QED
    BY <1>4, <2>1, SumOfSums
<1>9. Sum(bound, O) <= Sum(scaled, O)
  <2>1. \A c \in O : bound[c] \in Int /\ scaled[c] \in Int /\ bound[c] <= scaled[c]
    <3>1. ASSUME NEW c \in O PROVE bound[c] \in Int /\ scaled[c] \in Int /\ bound[c] <= scaled[c]
      <4>1. reference[c] \in Nat /\ least[c] \in Nat
        BY <1>2
      <4>2. n * least[c] >= 9000 * reference[c] - n
        BY <1>3
      <4> DEFINE l == least[c]
                 x == reference[c]
      <4>3. l \in Nat /\ x \in Nat /\ n * l >= 9000 * x - n
        BY <4>1, <4>2
      <4>4. bound[c] = 9000 * x + (-n) /\ scaled[c] = n * l
        OBVIOUS
      <4> HIDE DEF l, x
      <4>5. n * l \in Int /\ 9000 * x + (-n) \in Int /\ 9000 * x + (-n) <= n * l
        BY <4>3
      <4>6. QED
        BY <4>4, <4>5
    <3>2. QED
      BY <3>1
  <2> HIDE DEF scaled, bound
  <2>2. QED
    BY <1>4, <2>1, SumAtMost
<1> HIDE DEF scaled, shares, losses, bound
<1>10. Sum(least, O) \in Nat /\ Sum(reference, O) \in Nat
  <2>1. \A c \in O : least[c] \in Nat /\ reference[c] \in Nat
    BY <1>2
  <2>2. QED
    BY <1>4, <2>1, SumNat
<1>11. Sum(least, O) >= 1000
  <2> DEFINE l == Sum(least, O)
             r == Sum(reference, O)
             k == Cardinality(O)
  <2>1. n * k <= n * 10 /\ n * k \in Int
    BY <1>4, ProductsKeepOrder
  <2>2. (-n) * k = -(n * k)
    BY <1>4
  <2>3. 9000 * r + (-n) * k <= n * l
    BY <1>5, <1>6, <1>7, <1>8, <1>9
  <2>4. n * l \in Int
    BY <1>10
  <2>5. 9000 * r >= 1010 * n
    BY DEF Heavy
  <2>6. l \in Nat /\ r \in Nat
    BY <1>10
  <2> HIDE DEF l, r, k
  <2>7. n * 1000 <= n * l
    BY <2>1, <2>2, <2>3, <2>4, <2>5, <2>6
  <2>8. l >= 1000
    <3>1. SUFFICES ASSUME l + 1 <= 1000 PROVE FALSE
      BY <2>6
    <3>2. n * (l + 1) <= n * 1000
      BY <2>6, <3>1, ProductsKeepOrder
    <3>3. n * (l + 1) = n * l + n
      BY <2>6
    <3>4. QED
      BY <2>4, <2>7, <3>2, <3>3
  <2>9. QED
    BY <2>8 DEF l
<1>12. Sum(least, O) <= Sum(least, D) /\ Sum(least, D) \in Nat
  BY <1>2, SumSubset, SumNat
<1>13. QED
  BY <1>10, <1>11, <1>12

\* The class of a value against a baseline.
ClassIn(b, v) == ClassOf(Few(b), InnerEdges(b), v)

LEMMA ClassesHold ==
  ASSUME NEW b, Sample(b), NEW o, Sample(o)
  PROVE  /\ IsFiniteSet(Classes(b, o))
         /\ \A r \in DOMAIN b : ClassIn(b, b[r]) \in Classes(b, o)
         /\ \A r \in DOMAIN o : ClassIn(b, o[r]) \in Classes(b, o)
<1>1. CASE Few(b)
  <2>1. Classes(b, o) = ValuesOf(b) \cup ValuesOf(o) /\ \A v : ClassIn(b, v) = v
    BY <1>1 DEF Classes, ClassIn, ClassOf
  <2>2. IsFiniteSet(ValuesOf(b)) /\ IsFiniteSet(ValuesOf(o))
    BY SampleFacts
  <2>3. IsFiniteSet(ValuesOf(b) \cup ValuesOf(o))
    BY <2>2, FS_Union
  <2>4. QED
    BY <2>1, <2>3 DEF ValuesOf
<1>2. CASE ~Few(b)
  <2>1. Classes(b, o) = 0..Cardinality(InnerEdges(b)) /\ \A v : ClassIn(b, v) = BinOf(b, v)
    BY <1>2 DEF Classes, ClassIn, ClassOf, BinOf
  <2>2. /\ Cardinality(InnerEdges(b)) \in Nat
        /\ \A v : BinOf(b, v) \in 0..Cardinality(InnerEdges(b))
    BY BinsAreNumbered
  <2>3. IsFiniteSet(0..Cardinality(InnerEdges(b)))
    BY <2>2, FS_Interval
  <2>4. QED
    BY <2>1, <2>2, <2>3
<1>3. QED
  BY <1>1, <1>2

LEMMA CountsAddUp ==
  ASSUME NEW b, NEW o, IsFiniteSet(Classes(b, o)), NEW s, Sample(s),
         \A r \in DOMAIN s : ClassIn(b, s[r]) \in Classes(b, o)
  PROVE  /\ DOMAIN Counts(b, o, s) = Classes(b, o)
         /\ \A c \in Classes(b, o) :
              /\ Counts(b, o, s)[c] = Cardinality({r \in DOMAIN s : ClassIn(b, s[r]) = c})
              /\ Counts(b, o, s)[c] \in Nat
         /\ Sum(Counts(b, o, s), Classes(b, o)) = SizeOf(s)
<1> DEFINE D == Classes(b, o)
           class == [r \in DOMAIN s |-> ClassIn(b, s[r])]
           counts == [c \in D |-> Cardinality({r \in DOMAIN s : ClassIn(b, s[r]) = c})]
<1>1. IsFiniteSet(DOMAIN s) /\ SizeOf(s) \in Nat \ {0}
  BY SampleFacts DEF Sample
<1>2. \A c \in D : counts[c] = Cardinality(Fibre(DOMAIN s, class, c))
  <2>1. ASSUME NEW c \in D
        PROVE  {r \in DOMAIN s : ClassIn(b, s[r]) = c} = Fibre(DOMAIN s, class, c)
    BY DEF Fibre
  <2>2. QED
    BY <2>1
<1>3. \A c \in D : counts[c] \in Nat
  <2>1. ASSUME NEW c \in D PROVE Cardinality({r \in DOMAIN s : ClassIn(b, s[r]) = c}) \in Nat
    <3>1. {r \in DOMAIN s : ClassIn(b, s[r]) = c} \in SUBSET DOMAIN s
      OBVIOUS
    <3>2. QED
      BY <3>1, RowsUnder
  <2>2. QED
    BY <2>1
<1>4. SizeOf(s) = Sum(counts, D)
  <2>1. \A r \in DOMAIN s : class[r] \in D
    OBVIOUS
  <2> HIDE DEF counts, class
  <2>2. QED
    BY <1>1, <1>2, <2>1, CountByClass DEF SizeOf
<1>5. ~(\A c \in D : counts[c] = 0)
  <2>1. SUFFICES ASSUME \A c \in D : counts[c] = 0 PROVE FALSE
    OBVIOUS
  <2> HIDE DEF counts
  <2>2. Sum(counts, D) = 0 * Cardinality(D) /\ Cardinality(D) \in Nat
    BY <2>1, SumConstant, FS_CardinalityType
  <2>3. QED
    BY <1>1, <1>4, <2>2
<1>6. Counts(b, o, s) = Smoothed(counts)
  BY DEF Counts, ClassIn
<1>7. Smoothed(counts) = counts
  <2>1. DOMAIN counts = D
    OBVIOUS
  <2> HIDE DEF counts
  <2>2. QED
    BY <1>5, <2>1 DEF Smoothed
<1>8. QED
  BY <1>3, <1>4, <1>6, <1>7

\* Enough of the baseline lies in classes of which nothing was observed.
LEMMA MissedClasses ==
  ASSUME NEW b, Sample(b), NEW o, Sample(o),
         NEW O \in SUBSET Classes(b, o), Cardinality(O) <= 10,
         \A r \in DOMAIN o : ClassIn(b, o[r]) \notin O,
         Heavy(Cardinality({r \in DOMAIN b : ClassIn(b, b[r]) \in O}), SizeOf(b))
  PROVE  "ok" \notin ByIndex(b, o)
<1> DEFINE D == Classes(b, o)
           reference == Counts(b, o, b)
           current == Counts(b, o, o)
           n == SumFunction(reference)
           m == SumFunction(current)
           least == [c \in DOMAIN reference |->
                       LeastTerm(reference[c] * m, current[c] * n, n * m)]
           hit == {r \in DOMAIN b : ClassIn(b, b[r]) \in O}
<1>1. /\ IsFiniteSet(D)
      /\ \A r \in DOMAIN b : ClassIn(b, b[r]) \in D
      /\ \A r \in DOMAIN o : ClassIn(b, o[r]) \in D
  BY ClassesHold
<1>2. /\ DOMAIN reference = D
      /\ \A c \in D :
           /\ reference[c] = Cardinality({r \in DOMAIN b : ClassIn(b, b[r]) = c})
           /\ reference[c] \in Nat
      /\ Sum(reference, D) = SizeOf(b)
  BY <1>1, CountsAddUp
<1>3. /\ DOMAIN current = D
      /\ \A c \in D :
           /\ current[c] = Cardinality({r \in DOMAIN o : ClassIn(b, o[r]) = c})
           /\ current[c] \in Nat
      /\ Sum(current, D) = SizeOf(o)
  BY <1>1, CountsAddUp
<1>4. n = SizeOf(b) /\ m = SizeOf(o) /\ n \in Nat \ {0} /\ m \in Nat \ {0}
  <2>1. n = Sum(reference, D) /\ m = Sum(current, D)
    BY <1>2, <1>3, SumOfFunction
  <2>2. QED
    BY <1>2, <1>3, <2>1, SampleFacts
<1>5. \A c \in O : current[c] = 0
  <2>1. ASSUME NEW c \in O PROVE current[c] = 0
    <3>1. {r \in DOMAIN o : ClassIn(b, o[r]) = c} = {}
      OBVIOUS
    <3>2. QED
      BY <1>3, <3>1, FS_EmptySet
  <2>2. QED
    BY <2>1
<1>6. Sum(reference, O) = Cardinality(hit)
  <2> DEFINE class == [r \in hit |-> ClassIn(b, b[r])]
  <2>1. IsFiniteSet(hit) /\ IsFiniteSet(O)
    <3>1. hit \in SUBSET DOMAIN b
      OBVIOUS
    <3> HIDE DEF hit, D
    <3>2. IsFiniteSet(hit)
      BY <3>1, RowsUnder
    <3>3. O \in SUBSET D
      BY DEF D
    <3>4. IsFiniteSet(O)
      BY <1>1, <3>3, FS_Subset
    <3>5. QED
      BY <3>2, <3>4
  <2>2. \A r \in hit : class[r] \in O
    OBVIOUS
  <2>3. \A c \in O : reference[c] = Cardinality(Fibre(hit, class, c))
    <3>1. ASSUME NEW c \in O
          PROVE  Fibre(hit, class, c) = {r \in DOMAIN b : ClassIn(b, b[r]) = c}
      BY DEF Fibre
    <3>2. QED
      BY <1>2, <3>1
  <2> HIDE DEF hit, class, reference
  <2>4. QED
    BY <2>1, <2>2, <2>3, CountByClass
<1>7. Heavy(Sum(reference, O), n)
  BY <1>4, <1>6
<1> HIDE DEF reference, current, n, m
<1>8. \A c \in D : least[c] = LeastTerm(reference[c] * m, current[c] * n, n * m)
  BY <1>2
<1>9. DOMAIN least = D
  BY <1>2
<1> HIDE DEF least
<1>10. ASSUME NEW c \in D
       PROVE  least[c] \in Nat /\ (current[c] = 0 => CountsFor(least[c], reference[c], n))
  <2>1. reference[c] \in Nat /\ current[c] \in Nat /\ n \in Nat \ {0} /\ m \in Nat \ {0}
    BY <1>2, <1>3, <1>4
  <2>2. /\ LeastTerm(reference[c] * m, current[c] * n, n * m) \in Nat
        /\ current[c] = 0 =>
             CountsFor(LeastTerm(reference[c] * m, current[c] * n, n * m), reference[c], n)
    BY <2>1, TermFacts, Zenon
  <2>3. QED
    BY <1>8, <2>2, Zenon
<1>11. Sum(least, D) \in Int /\ Sum(least, D) >= 1000
  <2>1. \A c \in D : reference[c] \in Nat /\ least[c] \in Nat
    BY <1>2, <1>10
  <2>2. \A c \in O : CountsFor(least[c], reference[c], n)
    BY <1>5, <1>10
  <2> HIDE DEF D
  <2>3. O \in SUBSET D
    BY DEF D
  <2>4. QED
    BY <1>1, <1>4, <1>7, <2>1, <2>2, <2>3, LeastIndex
<1>12. SumFunction(least) = Sum(least, D)
  BY <1>9, SumOfFunction
<1>13. ~(SumFunction(least) < Threshold)
  BY <1>11, <1>12, DriftConstants DEF DriftConstants
<1>14. QED
  BY <1>13 DEF ByIndex, least, n, m, reference, current

LEMMA ShiftIsSeen ==
  ASSUME NEW b, Sample(b), NEW o, Sample(o), SizeOf(b) >= 8, Few(b) \/ Spread(b),
         \/ \A v \in ValuesOf(o) : v < Low(b)
         \/ \A v \in ValuesOf(o) : v > High(b)
  PROVE  "ok" \notin ByIndex(b, o)
<1> DEFINE n == SizeOf(b)
<1>1. /\ IsFiniteSet(ValuesOf(b)) /\ ValuesOf(b) # {}
      /\ \A v \in ValuesOf(b) : v \in Int
      /\ \A v \in ValuesOf(o) : v \in Int
      /\ n \in Nat /\ n >= 8 /\ Bins \in Nat /\ Bins >= 2 /\ Bins <= 10
  BY SampleFacts, BinsScale
<1>2. CASE Few(b)
  <2> DEFINE O == ValuesOf(b)
  <2>1. Classes(b, o) = ValuesOf(b) \cup ValuesOf(o) /\ \A v : ClassIn(b, v) = v
    BY <1>2 DEF Classes, ClassIn, ClassOf
  <2>2. O \in SUBSET Classes(b, o)
    BY <2>1
  <2>3. Cardinality(O) <= 10
    <3>1. Cardinality(O) <= Bins /\ Cardinality(O) \in Nat
      BY <1>1, <1>2, FS_CardinalityType DEF Few
    <3> HIDE DEF O
    <3>2. QED
      BY <1>1, <3>1
  <2>4. \A r \in DOMAIN o : ClassIn(b, o[r]) \notin O
    <3>1. /\ \A v \in O : Low(b) <= v /\ v <= High(b)
          /\ Low(b) \in Int /\ High(b) \in Int
      <4>1. /\ Low(b) \in O /\ \A v \in O : Low(b) <= v
            /\ High(b) \in O /\ \A v \in O : High(b) >= v
        BY <1>1, ExtremesExist DEF Low, High
      <4>2. QED
        BY <1>1, <4>1
    <3>2. \A v \in ValuesOf(o) : v \notin O
      BY <1>1, <3>1
    <3>3. \A r \in DOMAIN o : o[r] \in ValuesOf(o)
      BY DEF ValuesOf
    <3>4. QED
      BY <2>1, <3>2, <3>3
  <2>5. {r \in DOMAIN b : ClassIn(b, b[r]) \in O} = DOMAIN b
    BY <2>1 DEF ValuesOf
  <2>6. Heavy(Cardinality({r \in DOMAIN b : ClassIn(b, b[r]) \in O}), n)
    <3>1. Cardinality(DOMAIN b) = n
      BY DEF SizeOf
    <3> HIDE DEF n
    <3>2. QED
      BY <1>1, <2>5, <3>1 DEF Heavy
  <2> HIDE DEF O
  <2>7. QED
    BY <2>2, <2>3, <2>4, <2>6, MissedClasses
<1>3. CASE ~Few(b)
  <2> DEFINE K == Cardinality(InnerEdges(b))
             T == ValuesOf(o)
  <2>1. Classes(b, o) = 0..K /\ \A v : ClassIn(b, v) = BinOf(b, v)
    BY <1>3 DEF Classes, ClassIn, ClassOf, BinOf
  <2>2. \/ \A v \in T : v \in Int /\ v < Low(b)
        \/ \A v \in T : v \in Int /\ v > High(b)
    BY <1>1
  <2>3. PICK k \in 0..K :
          /\ \A v \in T : BinOf(b, v) = k
          /\ Cardinality({r \in DOMAIN b : BinOf(b, b[r]) # k}) \in Nat
          /\ Bins * Cardinality({r \in DOMAIN b : BinOf(b, b[r]) # k}) >= 2 * n - Bins + 3
    <3> HIDE DEF T
    <3>1. QED
      BY <1>3, <2>2, OtherBins
  <2> DEFINE O == (0..K) \ {k}
             missed == Cardinality({r \in DOMAIN b : BinOf(b, b[r]) # k})
  <2>4. K \in 0..(Bins - 1)
    BY InnerFacts
  <2>5. O \in SUBSET Classes(b, o)
    BY <2>1
  <2>6. Cardinality(O) <= 10
    <3>1. IsFiniteSet(0..K) /\ Cardinality(0..K) = K + 1
      <4> HIDE DEF K
      <4>1. K \in Int /\ 0 \in Int /\ ~(0 > K)
        BY <1>1, <2>4
      <4>2. QED
        BY <4>1, FS_Interval
    <3>2. O \in SUBSET (0..K)
      OBVIOUS
    <3> HIDE DEF O, K
    <3>3. Cardinality(O) <= Cardinality(0..K) /\ Cardinality(O) \in Nat
      BY <3>1, <3>2, FS_Subset, FS_CardinalityType
    <3>4. QED
      BY <1>1, <2>4, <3>1, <3>3
  <2>7. \A r \in DOMAIN o : ClassIn(b, o[r]) \notin O
    <3>1. \A r \in DOMAIN o : o[r] \in T
      BY DEF ValuesOf
    <3>2. QED
      BY <2>1, <2>3, <3>1
  <2>8. {r \in DOMAIN b : ClassIn(b, b[r]) \in O} = {r \in DOMAIN b : BinOf(b, b[r]) # k}
    <3>1. \A r \in DOMAIN b : BinOf(b, b[r]) \in 0..K
      BY BinsAreNumbered
    <3>2. QED
      BY <2>1, <3>1
  <2>9. Heavy(missed, n)
    <3>1. missed \in Nat /\ Bins * missed >= 2 * n - Bins + 3
      BY <2>3
    <3> HIDE DEF n, missed
    <3>2. missed * Bins <= missed * 10 /\ missed * Bins = Bins * missed
      BY <1>1, <3>1, ProductsKeepOrder
    <3>3. missed * Bins \in Int
      BY <1>1, <3>1
    <3>4. QED
      BY <1>1, <3>1, <3>2, <3>3 DEF Heavy
  <2> HIDE DEF O
  <2>10. QED
    BY <2>5, <2>6, <2>7, <2>8, <2>9, MissedClasses
<1>4. QED
  BY <1>2, <1>3

\* A baseline does not drift from itself.
LEMMA SameIsStable ==
  ASSUME NEW b, Sample(b)
  PROVE  "drifted" \notin ByIndex(b, b)
<1> DEFINE D == Classes(b, b)
           reference == Counts(b, b, b)
           n == SumFunction(reference)
           most == [c \in DOMAIN reference |->
                      MostTerm(reference[c] * n, reference[c] * n, n * n)]
<1>1. IsFiniteSet(D) /\ DOMAIN reference = D
  BY ClassesHold, CountsAddUp
<1>2. \A x, w : MostTerm(x, x, w) = 0
  BY DEF MostTerm
<1> HIDE DEF reference, n
<1>3. DOMAIN most = D /\ \A c \in D : most[c] = 0
  BY <1>1, <1>2
<1> HIDE DEF most, D
<1>4. SumFunction(most) = 0
  <2>1. SumFunction(most) = Sum(most, D)
    BY <1>3, SumOfFunction
  <2>2. Sum(most, D) = 0 * Cardinality(D) /\ Cardinality(D) \in Nat
    BY <1>1, <1>3, SumConstant, FS_CardinalityType
  <2>3. QED
    BY <2>1, <2>2
<1>5. ~(SumFunction(most) >= Threshold)
  BY <1>4, DriftConstants DEF DriftConstants
<1>6. QED
  BY <1>5 DEF ByIndex, most, n, reference

----------------------------------------------------------------------------
(* The finding that a drift report makes. *)

LEMMA ColumnIsASample ==
  ASSUME NEW f, IsFiniteSet(DOMAIN f), \A r \in DOMAIN f : f[r] \in Observations,
         NEW c \in Monitored, SizeOf(Column(f, c)) # 0
  PROVE  Sample(Column(f, c))
<1>1. ASSUME NEW r \in DOMAIN f PROVE TrainingRow(f[r])[c] \in Int
  <2>1. /\ f[r].price \in Int /\ f[r].stay \in Int /\ f[r].asOf \in Int /\ f[r].event \in Int
    BY DEF Observations
  <2>2. /\ Listed * f[r].price \in Int /\ f[r].stay - f[r].asOf \in Int
        /\ f[r].stay % 7 \in Int
        /\ OneIf(f[r].holiday) \in Int /\ OneIf(f[r].located) \in Int
    BY <2>1 DEF Listed, OneIf
  <2>3. QED
    BY <2>1, <2>2 DEF Monitored, TrainingRow, Assemble
<1>2. DOMAIN Column(f, c) = DOMAIN f /\ \A r \in DOMAIN f : Column(f, c)[r] \in Int
  BY <1>1 DEF Column
<1>3. DOMAIN Column(f, c) # {}
  BY FS_EmptySet DEF SizeOf
<1>4. QED
  BY <1>2, <1>3 DEF Sample

\* A finding compares two columns and has one of their statuses.
Found ==
  stage = "monitored" =>
    /\ drift.recent \in Recent
    /\ drift.feature \in Monitored
    /\ drift.status \in Statuses(Column(frame, drift.feature),
                                 Column(drift.recent, drift.feature))

LEMMA FoundStep == Found /\ [AttemptNext]_<<vars, attemptVars>> => Found'
<1> SUFFICES ASSUME Found, [AttemptNext]_<<vars, attemptVars>>
             PROVE  Found'
  OBVIOUS
<1>1. CASE Split
  BY <1>1 DEF Split, attemptVars, Found
<1>2. CASE MonitorDrift
  <2>1. PICK f \in Recent, c \in Monitored :
          \E status \in Statuses(Column(frame, c), Column(f, c)) :
            drift' = [feature |-> c, recent |-> f, status |-> status]
    BY <1>2 DEF MonitorDrift
  <2>2. PICK status \in Statuses(Column(frame, c), Column(f, c)) :
          drift' = [feature |-> c, recent |-> f, status |-> status]
    BY <2>1
  <2>3. drift'.feature = c /\ drift'.recent = f /\ drift'.status = status
    BY <2>2
  <2>4. frame' = frame
    BY <1>2 DEF MonitorDrift, Advance, vars
  <2>5. QED
    BY <2>2, <2>3, <2>4 DEF Found
<1>3. CASE \/ FitModel \/ EvaluateCandidate \/ SaveBundle \/ CompareWithChampion
           \/ ApplyGates \/ LogCandidate \/ ReviewStoredRun \/ Recheck
  <2>1. stage' # "monitored"
    BY <1>3 DEF FitModel, EvaluateCandidate, SaveBundle, CompareWithChampion,
       ApplyGates, LogCandidate, ReviewStoredRun, Recheck, Advance
  <2>2. QED
    BY <2>1 DEF Found
<1>4. CASE UNCHANGED <<vars, attemptVars>>
  BY <1>4 DEF vars, attemptVars, Found
<1>5. QED
  BY <1>1, <1>2, <1>3, <1>4 DEF AttemptNext

\* Values beyond a baseline are never reported stable, and the baseline itself
\* never drifted, whatever the frames, the number of bins and the threshold.
THEOREM DriftIsReported == AttemptSpec => []DriftIsSeen
<1>1. AttemptInit => Found
  BY DEF AttemptInit, Found
<1>2. TypeOK /\ Found => DriftIsSeen
  <2> SUFFICES ASSUME TypeOK, Found, stage = "monitored" PROVE DriftIsSeen
    BY DEF DriftIsSeen
  <2> DEFINE b == Column(frame, drift.feature)
             o == Column(drift.recent, drift.feature)
  <2>1. drift.feature \in Monitored /\ drift.status \in Statuses(b, o)
    BY DEF Found
  <2>2. /\ IsFiniteSet(DOMAIN frame) /\ \A r \in DOMAIN frame : frame[r] \in Observations
    BY SplitConstants DEF SplitConstants, TypeOK
  <2>3. /\ IsFiniteSet(DOMAIN drift.recent)
        /\ \A r \in DOMAIN drift.recent : drift.recent[r] \in Observations
    BY AttemptConstants DEF AttemptConstants, Found
  <2>4. SizeOf(b) # 0 => Sample(b)
    BY <2>1, <2>2, ColumnIsASample
  <2>5. SizeOf(o) # 0 => Sample(o)
    BY <2>1, <2>3, ColumnIsASample
  <2>6. DriftIsSeen <=>
          /\ Beyond(o, b) => Concentrated(b) \/ drift.status # "ok"
          /\ o = b => drift.status # "drifted"
    BY DEF DriftIsSeen
  <2> HIDE DEF b, o
  <2>7. CASE drift.status \notin {"ok", "drifted"}
    BY <2>6, <2>7
  <2>8. CASE drift.status \in {"ok", "drifted"}
    <3>1. NotComputable(b, o) \in SUBSET {"insufficient_reference", "insufficient_current",
                                          "constant_reference"}
      BY DEF NotComputable, Shortage
    <3>2. NotComputable(b, o) = {}
      <4>1. SUFFICES ASSUME NotComputable(b, o) # {} PROVE FALSE
        OBVIOUS
      <4>2. drift.status \in NotComputable(b, o)
        BY <2>1, <4>1 DEF Statuses
      <4>3. QED
        BY <2>8, <3>1, <4>2
    <3>3. drift.status \in ByIndex(b, o)
      BY <2>1, <3>2 DEF Statuses
    <3>4. Shortage(b, o, 2) = {} /\ Shortage(b, o, MinimumSamples) = {}
      BY <3>2 DEF NotComputable
    <3>5. ~(SizeOf(b) < 2) /\ ~(SizeOf(o) < 2) /\ ~(SizeOf(b) < MinimumSamples)
      BY <3>4 DEF Shortage
    <3>6. Sample(b) /\ Sample(o)
      BY <2>4, <2>5, <3>5
    <3>7. SizeOf(b) >= 8
      BY <3>5, <3>6, SampleFacts, DriftConstants DEF DriftConstants
    <3>8. Beyond(o, b) => Concentrated(b) \/ drift.status # "ok"
      <4>1. SUFFICES ASSUME Beyond(o, b), ~Concentrated(b) PROVE drift.status # "ok"
        OBVIOUS
      <4>2. Few(b) \/ Spread(b)
        <5>1. \A v : Trio(b, v) = {r \in DOMAIN b : b[r] \in {Min(ValuesOf(b)), v, Max(ValuesOf(b))}}
          BY DEF Trio, Low, High
        <5>2. ASSUME NEW v \in ValuesOf(b), ~Few(b)
              PROVE  Bins * Cardinality(Trio(b, v)) <= (Bins - 3) * SizeOf(b)
          <6>1. ~(Bins * Cardinality(Trio(b, v)) > (Bins - 3) * SizeOf(b))
            BY <4>1, <5>1, <5>2 DEF Concentrated
          <6>2. Bins * Cardinality(Trio(b, v)) \in Int
            <7>1. Trio(b, v) \in SUBSET DOMAIN b
              BY DEF Trio
            <7>2. Cardinality(Trio(b, v)) \in Nat
              BY <3>6, <7>1, RowsUnder, Zenon
            <7>3. QED
              BY <7>2, BinsScale
          <6>3. (Bins - 3) * SizeOf(b) \in Int
            BY <3>6, SampleFacts, BinsScale
          <6>4. QED
            BY <6>1, <6>2, <6>3
        <5>3. QED
          BY <5>2 DEF Spread
      <4>3. \/ \A v \in ValuesOf(o) : v < Low(b)
            \/ \A v \in ValuesOf(o) : v > High(b)
        BY <4>1 DEF Beyond, Low, High
      <4>4. QED
        BY <3>3, <3>6, <3>7, <4>2, <4>3, ShiftIsSeen
    <3>9. o = b => drift.status # "drifted"
      BY <3>3, <3>6, SameIsStable
    <3>10. QED
      BY <2>6, <3>8, <3>9
  <2>9. QED
    BY <2>7, <2>8
<1>3. QED
  BY <1>1, <1>2, FoundStep, AttemptSplits, SplitTypeCorrect, PTL DEF AttemptSpec

----------------------------------------------------------------------------
(* Evidence: scores, their weights and the totals over the holdout.        *)

Scores(m, h) == {Score(m, r, h[r]) : r \in DOMAIN h}
RowsOf(h, s) == {r \in DOMAIN h : StayOf(h[r]) = s}
ErrorOf(m, o) == Magnitude(o.occupancy - Expected(m, TrainingRow(o)))

LEMMA ScoreFields ==
  ASSUME NEW m, NEW r, NEW o
  PROVE  /\ Score(m, r, o).row = r
         /\ Score(m, r, o).stay = StayOf(o)
         /\ Score(m, r, o)["error"] = ErrorOf(m, o)
         /\ Score(m, r, o).lead = o.stay - o.asOf
         /\ Score(m, r, o).holiday = o.holiday
         /\ Score(m, r, o).event = o.event
         /\ Score(m, r, o).located = o.located
BY DEF Score, ErrorOf

\* One score for every row.
LEMMA ScoresAreRows ==
  ASSUME NEW m, NEW h, IsFiniteSet(DOMAIN h)
  PROVE  /\ [r \in DOMAIN h |-> Score(m, r, h[r])] \in Bijection(DOMAIN h, Scores(m, h))
         /\ IsFiniteSet(Scores(m, h))
         /\ Cardinality(Scores(m, h)) = Cardinality(DOMAIN h)
<1> DEFINE b == [r \in DOMAIN h |-> Score(m, r, h[r])]
<1>1. \A r, q \in DOMAIN h : b[r] = b[q] => r = q
  BY ScoreFields
<1>2. b \in Bijection(DOMAIN h, Scores(m, h))
  BY <1>1 DEF Scores, Bijection, Injection, Surjection, IsInjective
<1>3. QED
  BY <1>2, FS_Bijection DEF ExistsBijection

\* The rows of its stay, counted among the scores.
LEMMA SnapshotsAreCounted ==
  ASSUME NEW m, NEW h, IsFiniteSet(DOMAIN h), NEW r \in DOMAIN h
  PROVE  Cardinality(Snapshots(Scores(m, h), Score(m, r, h[r])))
           = Cardinality(RowsOf(h, StayOf(h[r])))
<1> DEFINE rows == RowsOf(h, StayOf(h[r]))
           those == Snapshots(Scores(m, h), Score(m, r, h[r]))
           b == [q \in rows |-> Score(m, q, h[q])]
<1>1. rows \in SUBSET DOMAIN h
  BY DEF RowsOf
<1>2. IsFiniteSet(rows)
  BY <1>1, FS_Subset
<1>3. \A q, p \in rows : b[q] = b[p] => q = p
  BY ScoreFields
<1>4. \A q \in rows : b[q] \in those
  BY <1>1, ScoreFields DEF Snapshots, Scores, RowsOf
<1>5. \A y \in those : \E q \in rows : b[q] = y
  <2>1. ASSUME NEW y \in those PROVE \E q \in rows : b[q] = y
    <3>1. PICK q \in DOMAIN h : y = Score(m, q, h[q])
      BY DEF Snapshots, Scores
    <3>2. y.stay = StayOf(h[r])
      BY ScoreFields DEF Snapshots
    <3>3. q \in rows
      BY <3>1, <3>2, ScoreFields DEF RowsOf
    <3>4. QED
      BY <3>1, <3>3
  <2>2. QED
    BY <2>1
<1>6. b \in Bijection(rows, those)
  <2>1. DOMAIN b = rows
    OBVIOUS
  <2> HIDE DEF rows, those
  <2>2. b \in [rows -> those]
    BY <1>4
  <2>3. QED
    BY <1>3, <1>5, <2>2 DEF Bijection, Injection, Surjection, IsInjective
<1>7. QED
  BY <1>2, <1>6, FS_Bijection DEF ExistsBijection

\* The common denominator of the weights.
UnitOf(m, h) ==
  ProductSet({Cardinality(Snapshots(Scores(m, h), x)) : x \in Scores(m, h)})

WeightOf(m, h, s) == UnitOf(m, h) \div Cardinality(RowsOf(h, s))

\* The snapshots of a stay share one unit equally.
LEMMA StaysWeighTheSame ==
  ASSUME NEW m, NEW h, IsFiniteSet(DOMAIN h), NEW s \in StaysIn(h)
  PROVE  /\ UnitOf(m, h) \in Nat \ {0}
         /\ WeightOf(m, h, s) \in Nat
         /\ Cardinality(RowsOf(h, s)) \in Nat
         /\ WeightOf(m, h, s) * Cardinality(RowsOf(h, s)) = UnitOf(m, h)
<1> DEFINE scores == Scores(m, h)
           counts == {Cardinality(Snapshots(scores, x)) : x \in scores}
<1>1. IsFiniteSet(scores)
  BY ScoresAreRows
<1>2. IsFiniteSet(counts)
  <2> DEFINE f == [x \in scores |-> Cardinality(Snapshots(scores, x))]
  <2>1. f \in Surjection(scores, counts)
    BY DEF Surjection
  <2>2. QED
    BY <1>1, <2>1, FS_Surjection
<1>3. counts \in SUBSET (Nat \ {0})
  <2>1. ASSUME NEW x \in scores PROVE Cardinality(Snapshots(scores, x)) \in Nat \ {0}
    <3>1. Snapshots(scores, x) \in SUBSET scores /\ x \in Snapshots(scores, x)
      BY DEF Snapshots
    <3>2. IsFiniteSet(Snapshots(scores, x)) /\ Snapshots(scores, x) # {}
      BY <1>1, <3>1, FS_Subset
    <3>3. QED
      BY <3>2, FS_CardinalityType, FS_EmptySet
  <2>2. QED
    BY <2>1
<1>4. PICK r \in DOMAIN h : StayOf(h[r]) = s
  BY DEF StaysIn
<1> DEFINE n == Cardinality(RowsOf(h, s))
<1>5. n \in counts
  <2>1. n = Cardinality(Snapshots(scores, Score(m, r, h[r])))
    BY <1>4, SnapshotsAreCounted
  <2>2. Score(m, r, h[r]) \in scores
    BY DEF Scores
  <2>3. QED
    BY <2>1, <2>2
<1>6. UnitOf(m, h) = ProductSet(counts)
  BY DEF UnitOf
<1> HIDE DEF counts, n
<1>7. UnitOf(m, h) \in Nat \ {0} /\ \E k \in Nat : UnitOf(m, h) = n * k
  BY <1>2, <1>3, <1>5, <1>6, ProductIsMultiple
<1>8. PICK k \in Nat : UnitOf(m, h) = n * k
  BY <1>7
<1>9. n \in Nat \ {0}
  BY <1>3, <1>5
<1>10. (n * k) \div n = k /\ k * n = n * k
  BY <1>9
<1>11. WeightOf(m, h, s) = k
  BY <1>8, <1>10 DEF WeightOf, n
<1>12. QED
  BY <1>7, <1>8, <1>9, <1>10, <1>11 DEF n

\* What a weighted row adds to the totals.
WeightsOf(m, h) == [r \in DOMAIN h |-> WeightOf(m, h, StayOf(h[r]))]
WeightedErrors(m, h) ==
  [r \in DOMAIN h |-> WeightOf(m, h, StayOf(h[r])) * ErrorOf(m, h[r])]

Numbered(m, h) ==
  /\ IsFiniteSet(DOMAIN h)
  /\ \A r \in DOMAIN h : ErrorOf(m, h[r]) \in Nat

LEMMA TotalsOverRows ==
  ASSUME NEW m, NEW h, Numbered(m, h)
  PROVE  /\ TotalWeight(EqualGroupWeights(Scores(m, h))) = Sum(WeightsOf(m, h), DOMAIN h)
         /\ Total(EqualGroupWeights(Scores(m, h)), "error")
              = Sum(WeightedErrors(m, h), DOMAIN h)
<1> DEFINE scores == Scores(m, h)
           weighted == EqualGroupWeights(scores)
           b == [r \in DOMAIN h |-> [score |-> Score(m, r, h[r]),
                                     weight |-> WeightOf(m, h, StayOf(h[r]))]]
           weights == [w \in weighted |-> w.weight]
           errors == [w \in weighted |-> w.weight * w.score["error"]]
<1>1. IsFiniteSet(DOMAIN h) /\ \A r \in DOMAIN h : ErrorOf(m, h[r]) \in Nat
  BY DEF Numbered
<1>2. weighted = {[score |-> x, weight |-> UnitOf(m, h) \div Cardinality(Snapshots(scores, x))] :
                    x \in scores}
  BY DEF EqualGroupWeights, UnitOf
<1>3. \A r \in DOMAIN h :
        [score |-> Score(m, r, h[r]),
         weight |-> UnitOf(m, h) \div Cardinality(Snapshots(scores, Score(m, r, h[r])))] = b[r]
  BY <1>1, SnapshotsAreCounted DEF WeightOf
<1>4. weighted = {b[r] : r \in DOMAIN h}
  <2>1. scores = {Score(m, r, h[r]) : r \in DOMAIN h}
    BY DEF Scores
  <2> DEFINE pair(x) == [score |-> x,
                         weight |-> UnitOf(m, h) \div Cardinality(Snapshots(scores, x))]
  <2>2. weighted = {pair(x) : x \in scores}
    BY <1>2
  <2>3. \A r \in DOMAIN h : pair(Score(m, r, h[r])) = b[r]
    BY <1>3
  <2> HIDE DEF weighted, pair, scores, b
  <2>4. QED
    BY <2>1, <2>2, <2>3
<1>5. \A r \in DOMAIN h : b[r].score = Score(m, r, h[r])
                          /\ b[r].weight = WeightOf(m, h, StayOf(h[r]))
  OBVIOUS
<1>6. DOMAIN b = DOMAIN h
  OBVIOUS
<1> HIDE DEF b, weighted
<1>7. \A r, q \in DOMAIN h : b[r] = b[q] => r = q
  BY <1>5, ScoreFields
<1>8. b \in Bijection(DOMAIN h, weighted)
  <2>1. b \in [DOMAIN h -> weighted]
    <3>1. b = [r \in DOMAIN h |-> b[r]]
      BY DEF b
    <3>2. QED
      BY <1>4, <3>1
  <2>2. QED
    BY <1>4, <1>7, <2>1 DEF Bijection, Injection, Surjection, IsInjective
<1>9. \A r \in DOMAIN h : WeightOf(m, h, StayOf(h[r])) \in Nat
  BY <1>1, StaysWeighTheSame DEF StaysIn
<1>10. \A w \in weighted : w.weight \in Nat /\ w.weight * w.score["error"] \in Nat
  <2>1. ASSUME NEW r \in DOMAIN h
        PROVE  b[r].weight \in Nat /\ b[r].weight * b[r].score["error"] \in Nat
    <3>1. b[r].score["error"] \in Nat
      BY <1>1, <1>5, ScoreFields
    <3>2. b[r].weight \in Nat
      BY <1>5, <1>9
    <3>3. \A x, y \in Nat : x * y \in Nat
      OBVIOUS
    <3>4. QED
      BY <3>1, <3>2, <3>3
  <2>2. QED
    BY <1>4, <2>1
<1>11. TotalWeight(weighted) = Sum(weights, weighted)
  BY SumOfFunction DEF TotalWeight
<1>12. Total(weighted, "error") = Sum(errors, weighted)
  BY SumOfFunction DEF Total
<1>13. \A r \in DOMAIN h : WeightsOf(m, h)[r] = weights[b[r]]
  BY <1>4, <1>5 DEF WeightsOf
<1>14. \A r \in DOMAIN h : WeightedErrors(m, h)[r] = errors[b[r]]
  <2>1. ASSUME NEW r \in DOMAIN h PROVE WeightedErrors(m, h)[r] = errors[b[r]]
    <3>1. b[r] \in weighted
      BY <1>4
    <3>2. errors[b[r]] = b[r].weight * b[r].score["error"]
      BY <3>1
    <3>3. b[r].score["error"] = ErrorOf(m, h[r])
      BY <1>5, ScoreFields
    <3>4. QED
      BY <1>5, <3>2, <3>3 DEF WeightedErrors
  <2>2. QED
    BY <2>1
<1>15. \A w \in weighted : weights[w] \in Int /\ errors[w] \in Int
  BY <1>10
<1> HIDE DEF weights, errors
<1>16. Sum(WeightsOf(m, h), DOMAIN h) = Sum(weights, weighted)
  BY <1>1, <1>8, <1>13, <1>15, SumReindexed
<1>17. Sum(WeightedErrors(m, h), DOMAIN h) = Sum(errors, weighted)
  BY <1>1, <1>8, <1>14, <1>15, SumReindexed
<1>18. QED
  BY <1>11, <1>12, <1>16, <1>17 DEF weighted, scores

\* The stays of the holdout, and the stay of a row.
StayClass(h) == [r \in DOMAIN h |-> StayOf(h[r])]

LEMMA StaysAreFinite ==
  ASSUME NEW h, IsFiniteSet(DOMAIN h)
  PROVE  /\ IsFiniteSet(StaysIn(h))
         /\ Cardinality(StaysIn(h)) \in Nat
         /\ \A r \in DOMAIN h : StayClass(h)[r] \in StaysIn(h)
         /\ \A s : Fibre(DOMAIN h, StayClass(h), s) = RowsOf(h, s)
<1>1. StayClass(h) \in Surjection(DOMAIN h, StaysIn(h))
  BY DEF StayClass, StaysIn, Surjection
<1>2. IsFiniteSet(StaysIn(h))
  BY <1>1, FS_Surjection
<1>3. QED
  BY <1>2, FS_CardinalityType DEF StayClass, StaysIn, Fibre, RowsOf

\* All weights together: one unit for every stay.
LEMMA WeightsAddUp ==
  ASSUME NEW m, NEW h, Numbered(m, h)
  PROVE  Sum(WeightsOf(m, h), DOMAIN h) = UnitOf(m, h) * Cardinality(StaysIn(h))
<1> DEFINE stays == StaysIn(h)
           sums == [s \in stays |-> UnitOf(m, h)]
           unit == UnitOf(m, h)
<1>1. IsFiniteSet(DOMAIN h)
  BY DEF Numbered
<1>2. CASE stays = {}
  <2>1. DOMAIN h = {}
    BY <1>2 DEF StaysIn
  <2>2. Sum(WeightsOf(m, h), DOMAIN h) = 0
    BY <2>1, SumEmpty
  <2>3. UnitOf(m, h) \in Nat
    <3>1. Scores(m, h) = {}
      BY <2>1 DEF Scores
    <3>2. UnitOf(m, h) = ProductSet({})
      BY <3>1 DEF UnitOf
    <3>3. ProductSet({}) \in Nat
      BY ProductIsMultiple, FS_EmptySet
    <3>4. QED
      BY <3>2, <3>3
  <2>4. Cardinality(stays) = 0
    BY <1>2, FS_EmptySet
  <2>5. QED
    BY <2>2, <2>3, <2>4
<1>3. CASE stays # {}
  <2>1. unit \in Nat
    BY <1>1, <1>3, StaysWeighTheSame
  <2>2. ASSUME NEW s \in stays
        PROVE  unit = Sum(WeightsOf(m, h), RowsOf(h, s))
    <3>1. IsFiniteSet(RowsOf(h, s))
      BY <1>1, FS_Subset DEF RowsOf
    <3>2. \A r \in RowsOf(h, s) : WeightsOf(m, h)[r] = WeightOf(m, h, s)
      BY DEF RowsOf, WeightsOf
    <3>3. /\ WeightOf(m, h, s) \in Nat
          /\ WeightOf(m, h, s) * Cardinality(RowsOf(h, s)) = UnitOf(m, h)
      <4>1. s \in StaysIn(h)
        OBVIOUS
      <4>2. QED
        BY <1>1, <4>1, StaysWeighTheSame
    <3>4. Sum(WeightsOf(m, h), RowsOf(h, s)) = WeightOf(m, h, s) * Cardinality(RowsOf(h, s))
      BY <3>1, <3>2, <3>3, SumConstant
    <3>5. QED
      BY <3>3, <3>4
  <2>3. ASSUME NEW r \in DOMAIN h PROVE WeightsOf(m, h)[r] \in Int
    <3>1. StayOf(h[r]) \in StaysIn(h)
      BY DEF StaysIn
    <3>2. WeightOf(m, h, StayOf(h[r])) \in Nat
      BY <1>1, <3>1, StaysWeighTheSame
    <3>3. QED
      BY <3>2 DEF WeightsOf
  <2>4. \A s \in stays : sums[s] = Sum(WeightsOf(m, h), Fibre(DOMAIN h, StayClass(h), s))
    BY <1>1, <2>2, StaysAreFinite
  <2>5. \A s \in stays : sums[s] = unit
    OBVIOUS
  <2> HIDE DEF sums, unit
  <2>6. Sum(WeightsOf(m, h), DOMAIN h) = Sum(sums, stays)
    BY <1>1, <2>3, <2>4, StaysAreFinite, SumByClass
  <2>7. Sum(sums, stays) = unit * Cardinality(stays)
    BY <1>1, <2>1, <2>5, StaysAreFinite, SumConstant
  <2>8. QED
    BY <2>6, <2>7 DEF unit
<1>4. QED
  BY <1>2, <1>3

\* The errors of the snapshots of a stay, and what lies between two of them.
ErrorsOf(m, h, s) == {ErrorOf(m, h[r]) : r \in RowsOf(h, s)}
Bracket(low, high, m, h) ==
  \A s \in StaysIn(h) :
    /\ low[s] \in Int /\ high[s] \in Int
    /\ \A e \in ErrorsOf(m, h, s) : low[s] <= e /\ e <= high[s]

\* The mean error lies between the means over the stays of their bounds.
LEMMA ErrorsAreBracketed ==
  ASSUME NEW m, NEW h, Numbered(m, h), NEW low, NEW high, Bracket(low, high, m, h),
         StaysIn(h) # {}
  PROVE  /\ UnitOf(m, h) * Sum(low, StaysIn(h)) <= Sum(WeightedErrors(m, h), DOMAIN h)
         /\ Sum(WeightedErrors(m, h), DOMAIN h) <= UnitOf(m, h) * Sum(high, StaysIn(h))
<1> DEFINE stays == StaysIn(h)
           unit == UnitOf(m, h)
           f == WeightedErrors(m, h)
           sums == [s \in stays |-> Sum(f, RowsOf(h, s))]
           lows == [s \in stays |-> unit * low[s]]
           highs == [s \in stays |-> unit * high[s]]
<1>1. IsFiniteSet(DOMAIN h) /\ \A r \in DOMAIN h : ErrorOf(m, h[r]) \in Nat
  BY DEF Numbered
<1>2. IsFiniteSet(stays)
  BY <1>1, StaysAreFinite
<1>3. unit \in Nat
  BY <1>1, StaysWeighTheSame
<1>4. \A r \in DOMAIN h : f[r] \in Int
  <2>1. ASSUME NEW r \in DOMAIN h PROVE f[r] \in Int
    <3>1. StayOf(h[r]) \in StaysIn(h)
      BY DEF StaysIn
    <3>2. WeightOf(m, h, StayOf(h[r])) \in Nat
      BY <1>1, <3>1, StaysWeighTheSame
    <3>3. f[r] = WeightOf(m, h, StayOf(h[r])) * ErrorOf(m, h[r])
      BY DEF WeightedErrors
    <3>4. \A x, y \in Nat : x * y \in Int
      OBVIOUS
    <3>5. QED
      BY <1>1, <3>2, <3>3, <3>4
  <2>2. QED
    BY <2>1
<1>5. ASSUME NEW s \in StaysIn(h)
      PROVE  /\ unit * low[s] <= Sum(f, RowsOf(h, s))
             /\ Sum(f, RowsOf(h, s)) <= unit * high[s]
  <2> DEFINE rows == RowsOf(h, s)
             w == WeightOf(m, h, s)
             lowest == [r \in rows |-> w * low[s]]
             highest == [r \in rows |-> w * high[s]]
  <2>1. w \in Nat /\ Cardinality(rows) \in Nat /\ w * Cardinality(rows) = unit
    BY <1>1, StaysWeighTheSame
  <2>2. low[s] \in Int /\ high[s] \in Int
    BY DEF Bracket
  <2>3. rows \in SUBSET DOMAIN h /\ IsFiniteSet(rows)
    BY <1>1, FS_Subset DEF RowsOf
  <2>4. ASSUME NEW r \in rows
        PROVE  w * low[s] <= f[r] /\ f[r] <= w * high[s]
    <3>1. f[r] = w * ErrorOf(m, h[r])
      BY <2>3 DEF RowsOf, WeightedErrors
    <3>2. ErrorOf(m, h[r]) \in ErrorsOf(m, h, s)
      BY DEF ErrorsOf
    <3>3. low[s] <= ErrorOf(m, h[r]) /\ ErrorOf(m, h[r]) <= high[s]
      BY <3>2 DEF Bracket
    <3>4. ErrorOf(m, h[r]) \in Int
      BY <1>1, <2>3
    <3> HIDE DEF w
    <3>5. /\ w * low[s] <= w * ErrorOf(m, h[r])
          /\ w * ErrorOf(m, h[r]) <= w * high[s]
      BY <2>1, <2>2, <3>3, <3>4, ProductsKeepOrder
    <3>6. QED
      BY <3>1, <3>5
  <2>5. w * low[s] \in Int /\ w * high[s] \in Int
    <3> HIDE DEF w
    <3>1. QED
      BY <2>1, <2>2
  <2>6. /\ \A r \in rows : lowest[r] = w * low[s] /\ highest[r] = w * high[s]
    OBVIOUS
  <2> HIDE DEF w, rows, f, lowest, highest
  <2>7. /\ Sum(lowest, rows) = (w * low[s]) * Cardinality(rows)
        /\ Sum(highest, rows) = (w * high[s]) * Cardinality(rows)
    BY <2>3, <2>5, <2>6, SumConstant
  <2>8. Sum(lowest, rows) <= Sum(f, rows) /\ Sum(f, rows) <= Sum(highest, rows)
    <3>1. \A r \in rows : /\ f[r] \in Int /\ lowest[r] \in Int /\ highest[r] \in Int
                          /\ lowest[r] <= f[r] /\ f[r] <= highest[r]
      BY <1>4, <2>3, <2>4, <2>5, <2>6
    <3>2. QED
      BY <2>3, <3>1, SumAtMost
  <2>9. \A x, y, z \in Int : (x * y) * z = (x * z) * y
    OBVIOUS
  <2>10. /\ (w * low[s]) * Cardinality(rows) = (w * Cardinality(rows)) * low[s]
         /\ (w * high[s]) * Cardinality(rows) = (w * Cardinality(rows)) * high[s]
    BY <2>1, <2>2, <2>9
  <2>11. QED
    BY <2>1, <2>7, <2>8, <2>10 DEF rows
<1>6. \A s \in stays : sums[s] = Sum(f, Fibre(DOMAIN h, StayClass(h), s))
  BY <1>1, StaysAreFinite
<1>7. \A s \in stays : /\ sums[s] = Sum(f, RowsOf(h, s))
                       /\ lows[s] = unit * low[s] /\ highs[s] = unit * high[s]
  OBVIOUS
<1>8. \A s \in stays : Sum(f, RowsOf(h, s)) \in Int
  <2>1. ASSUME NEW s \in stays PROVE Sum(f, RowsOf(h, s)) \in Int
    <3>1. RowsOf(h, s) \in SUBSET DOMAIN h
      BY DEF RowsOf
    <3>2. IsFiniteSet(RowsOf(h, s)) /\ \A r \in RowsOf(h, s) : f[r] \in Int
      BY <1>1, <1>4, <3>1, FS_Subset
    <3> HIDE DEF f
    <3>3. QED
      BY <3>2, SumInt
  <2>2. QED
    BY <2>1
<1>9. \A s \in stays : low[s] \in Int /\ high[s] \in Int
  BY DEF Bracket
<1> HIDE DEF f, sums, lows, highs, unit
<1>10. Sum(f, DOMAIN h) = Sum(sums, stays)
  BY <1>1, <1>2, <1>4, <1>6, StaysAreFinite, SumByClass
<1>11. \A s \in stays : unit * low[s] \in Int /\ unit * high[s] \in Int
  BY <1>3, <1>9
<1>12. \A s \in stays : /\ sums[s] \in Int /\ lows[s] \in Int /\ highs[s] \in Int
                        /\ lows[s] <= sums[s] /\ sums[s] <= highs[s]
  BY <1>5, <1>7, <1>8, <1>11
<1>13. Sum(lows, stays) <= Sum(sums, stays) /\ Sum(sums, stays) <= Sum(highs, stays)
  BY <1>2, <1>12, SumAtMost
<1>14. unit \in Int
  BY <1>3
<1>15. Sum(lows, stays) = unit * Sum(low, stays) /\ Sum(highs, stays) = unit * Sum(high, stays)
  BY <1>2, <1>7, <1>9, <1>14, SumScaled
<1>16. QED
  BY <1>10, <1>13, <1>15 DEF f, unit

\* The mean error of a holdout, against bounds of the errors of its stays.
MeanError(m, h) == Average(EqualGroupWeights(Scores(m, h)), "error", Full)

LEMMA NoStayOutvotes ==
  ASSUME NEW m, NEW h, Numbered(m, h), NEW low, NEW high, Bracket(low, high, m, h)
  PROVE  /\ Sum(low, StaysIn(h)) * MeanError(m, h).den
              <= MeanError(m, h).num * Full * Cardinality(StaysIn(h))
         /\ MeanError(m, h).num * Full * Cardinality(StaysIn(h))
              <= Sum(high, StaysIn(h)) * MeanError(m, h).den
<1> DEFINE n == Cardinality(StaysIn(h))
           unit == UnitOf(m, h)
           total == Sum(WeightedErrors(m, h), DOMAIN h)
           least == Sum(low, StaysIn(h))
           most == Sum(high, StaysIn(h))
<1>1. /\ MeanError(m, h).num = total
      /\ MeanError(m, h).den = (unit * n) * Full
  BY TotalsOverRows, WeightsAddUp DEF MeanError, Average
<1>2. IsFiniteSet(DOMAIN h) /\ IsFiniteSet(StaysIn(h)) /\ n \in Nat
  BY StaysAreFinite DEF Numbered
<1>3. Full \in Nat
  BY DemandConstants DEF DemandConstants
<1>4. least \in Int /\ most \in Int
  BY <1>2, SumInt DEF Bracket
<1>5. CASE StaysIn(h) = {}
  <2>1. n = 0
    BY <1>5, FS_EmptySet
  <2>2. least = 0 /\ most = 0
    BY <1>5, SumEmpty
  <2>3. total = 0
    <3>1. DOMAIN h = {}
      BY <1>5 DEF StaysIn
    <3>2. QED
      BY <3>1, SumEmpty
  <2>4. 0 * ((unit * n) * Full) = 0
    <3>1. unit \in Nat
      <4>1. Scores(m, h) = {}
        BY <1>5 DEF StaysIn, Scores
      <4>2. UnitOf(m, h) = ProductSet({})
        BY <4>1 DEF UnitOf
      <4>3. QED
        BY <4>2, ProductIsMultiple, FS_EmptySet
    <3> HIDE DEF unit, n
    <3>2. unit * n \in Int
      BY <1>2, <3>1
    <3>3. (unit * n) * Full \in Int
      BY <1>3, <3>2
    <3>4. \A x \in Int : 0 * x = 0
      OBVIOUS
    <3>5. QED
      BY <3>3, <3>4
  <2>5. 0 * Full * 0 = 0
    BY <1>3
  <2> HIDE DEF n, unit, total, least, most
  <2>6. QED
    BY <1>1, <2>1, <2>2, <2>3, <2>4, <2>5 DEF n, least, most
<1>6. CASE StaysIn(h) # {}
  <2>1. unit \in Nat
    BY <1>2, <1>6, StaysWeighTheSame
  <2>2. unit * least <= total /\ total <= unit * most
    BY <1>6, ErrorsAreBracketed
  <2>3. total \in Int
    <3>1. \A r \in DOMAIN h : WeightedErrors(m, h)[r] \in Int
      <4>1. ASSUME NEW r \in DOMAIN h PROVE WeightedErrors(m, h)[r] \in Int
        <5>1. StayOf(h[r]) \in StaysIn(h) /\ ErrorOf(m, h[r]) \in Nat
          BY DEF StaysIn, Numbered
        <5>2. WeightOf(m, h, StayOf(h[r])) \in Nat
          BY <1>2, <5>1, StaysWeighTheSame
        <5>3. \A x, y \in Nat : x * y \in Int
          OBVIOUS
        <5>4. QED
          BY <5>1, <5>2, <5>3 DEF WeightedErrors
      <4>2. QED
        BY <4>1
    <3>2. QED
      BY <1>2, <3>1, SumInt
  <2> HIDE DEF n, unit, total, least, most
  <2> DEFINE k == n * Full
  <2>3a. k \in Nat /\ unit * least \in Int /\ unit * most \in Int
    BY <1>2, <1>3, <1>4, <2>1
  <2> HIDE DEF k
  <2>4. /\ k * (unit * least) <= k * total
        /\ k * total <= k * (unit * most)
    BY <2>2, <2>3, <2>3a, ProductsKeepOrder
  <2>5. \A a, b, c, d \in Int : a * ((b * c) * d) = (c * d) * (b * a)
    OBVIOUS
  <2>6. /\ least * ((unit * n) * Full) = k * (unit * least)
        /\ most * ((unit * n) * Full) = k * (unit * most)
    BY <1>2, <1>3, <1>4, <2>1, <2>5 DEF k
  <2>7. \A a, b, c \in Int : a * b * c = (c * b) * a
    OBVIOUS
  <2>8. total * Full * n = k * total
    BY <1>2, <1>3, <2>3, <2>7 DEF k
  <2>9. QED
    BY <1>1, <2>4, <2>6, <2>8 DEF n, least, most
<1>7. QED
  BY <1>5, <1>6

\* The slices of a family are told apart by one field, each value of which
\* belongs to exactly one of them.
Sliceable(x) ==
  /\ x.lead \in Int /\ x.event \in Nat
  /\ x.holiday \in BOOLEAN /\ x.located \in BOOLEAN

LEMMA SlicesAreApart ==
  ASSUME NEW family \in SliceFamilies, NEW x, Sliceable(x)
  PROVE  /\ \E s \in family : InSlice(s, x)
         /\ \A s, t \in family : InSlice(s, x) /\ InSlice(t, x) => s = t
<1> USE DEF Sliceable, InSlice
<1>1. CASE family = {"lead_time/0_7_days", "lead_time/8_30_days", "lead_time/31_plus_days"}
  <2>1. InSlice("lead_time/0_7_days", x) <=> x.lead <= 7
    OBVIOUS
  <2>2. InSlice("lead_time/8_30_days", x) <=> x.lead \in 8..30
    OBVIOUS
  <2>3. InSlice("lead_time/31_plus_days", x) <=> x.lead >= 31
    OBVIOUS
  <2> HIDE DEF InSlice
  <2>4. x.lead <= 7 \/ x.lead \in 8..30 \/ x.lead >= 31
    OBVIOUS
  <2>5. /\ ~(x.lead <= 7 /\ x.lead \in 8..30)
        /\ ~(x.lead <= 7 /\ x.lead >= 31)
        /\ ~(x.lead \in 8..30 /\ x.lead >= 31)
    OBVIOUS
  <2>6. QED
    BY <1>1, <2>1, <2>2, <2>3, <2>4, <2>5, Zenon
<1>2. CASE family = {"holiday/yes", "holiday/no"}
  <2>1. (InSlice("holiday/yes", x) <=> x.holiday) /\ (InSlice("holiday/no", x) <=> ~x.holiday)
    OBVIOUS
  <2> HIDE DEF InSlice
  <2>2. QED
    BY <1>2, <2>1, Zenon
<1>3. CASE family = {"event/none", "event/active"}
  <2>1. (InSlice("event/none", x) <=> x.event = 0) /\ (InSlice("event/active", x) <=> x.event > 0)
    OBVIOUS
  <2>2. x.event > 0 <=> x.event # 0
    OBVIOUS
  <2> HIDE DEF InSlice
  <2>3. QED
    BY <1>3, <2>1, <2>2, Zenon
<1>4. CASE family = {"location/known", "location/unknown"}
  <2>1. /\ InSlice("location/known", x) <=> x.located
        /\ InSlice("location/unknown", x) <=> ~x.located
    OBVIOUS
  <2> HIDE DEF InSlice
  <2>2. QED
    BY <1>4, <2>1, Zenon
<1>5. QED
  BY <1>1, <1>2, <1>3, <1>4 DEF SliceFamilies

LEMMA FamiliesAreFinite ==
  ASSUME NEW family \in SliceFamilies
  PROVE  IsFiniteSet(family) /\ family \subseteq SliceNames
<1>1. family \subseteq SliceNames
  BY DEF SliceNames
<1>2. \A a, b : IsFiniteSet({a, b})
  <2>1. ASSUME NEW a, NEW b PROVE IsFiniteSet({a, b})
    <3>1. IsFiniteSet({a}) /\ {a, b} = {a} \cup {b}
      BY FS_Singleton
    <3>2. QED
      BY <3>1, FS_AddElement
  <2>2. QED
    BY <2>1
<1>3. \A a, b, c : IsFiniteSet({a, b, c})
  <2>1. ASSUME NEW a, NEW b, NEW c PROVE IsFiniteSet({a, b, c})
    <3>1. {a, b, c} = {a, b} \cup {c}
      OBVIOUS
    <3> DEFINE two == {a, b}
    <3>2. IsFiniteSet(two)
      BY <1>2
    <3> HIDE DEF two
    <3>3. IsFiniteSet(two \cup {c})
      BY <3>2, FS_AddElement
    <3>4. QED
      BY <3>1, <3>3 DEF two
  <2>2. QED
    BY <2>1
<1>4. CASE family = {"lead_time/0_7_days", "lead_time/8_30_days", "lead_time/31_plus_days"}
  BY <1>1, <1>3, <1>4
<1>5. CASE family = {"holiday/yes", "holiday/no"}
  BY <1>1, <1>2, <1>5
<1>6. CASE family = {"event/none", "event/active"}
  BY <1>1, <1>2, <1>6
<1>7. CASE family = {"location/known", "location/unknown"}
  BY <1>1, <1>2, <1>7
<1>8. QED
  BY <1>4, <1>5, <1>6, <1>7 DEF SliceFamilies

LEMMA FamiliesShareOutScores ==
  ASSUME NEW scores, IsFiniteSet(scores), \A x \in scores : Sliceable(x),
         NEW family \in SliceFamilies,
         NEW sizes, \A s \in family : sizes[s] = Cardinality(SliceOf(scores, s))
  PROVE  Sum(sizes, family) = Cardinality(scores)
<1> DEFINE class == [x \in scores |-> CHOOSE s \in family : InSlice(s, x)]
<1>1. \A x \in scores : class[x] \in family /\ InSlice(class[x], x)
  BY SlicesAreApart
<1> HIDE DEF class
<1>2. ASSUME NEW s \in family PROVE Fibre(scores, class, s) = SliceOf(scores, s)
  <2>1. \A x \in scores : class[x] = s <=> InSlice(s, x)
    BY <1>1, SlicesAreApart
  <2>2. QED
    BY <2>1 DEF Fibre, SliceOf
<1>3. \A s \in family : sizes[s] = Cardinality(Fibre(scores, class, s))
  BY <1>2
<1>4. \A x \in scores : class[x] \in family
  BY <1>1
<1>5. QED
  BY <1>3, <1>4, FamiliesAreFinite, CountByClass

----------------------------------------------------------------------------
(* The evidence of an attempt.                                             *)

\* The evidence is what a fitted model scores on the test partition.
Measured ==
  stage = "evaluated" =>
    /\ model.regressors \in Regressors
    /\ evidence = Evaluate(model, Test)

LEMMA MeasuredStep ==
  AttemptInv /\ Measured /\ [AttemptNext]_<<vars, attemptVars>> => Measured'
<1> SUFFICES ASSUME AttemptInv, Measured, [AttemptNext]_<<vars, attemptVars>>
             PROVE  Measured'
  OBVIOUS
<1>1. CASE EvaluateCandidate
  <2>1. /\ stage = "fitted" /\ evidence' = Evaluate(model, Test) /\ model' = model
        /\ UNCHANGED <<frame, trainEnd, calibrationEnd>>
    BY <1>1 DEF EvaluateCandidate, Advance, vars
  <2>2. Test' = Test
    BY <2>1 DEF Test, Partition, InWindow, Window, LabelKnown, NextStart,
       DateAt, Index, Dates
  <2>3. model.regressors \in Regressors
    BY <2>1 DEF AttemptInv, Remembered, Fitted
  <2>4. QED
    BY <2>1, <2>2, <2>3 DEF Measured
<1>2. CASE Split
  <2>1. stage' = "splitting"
    BY <1>2 DEF Split, attemptVars
  <2>2. QED
    BY <2>1 DEF Measured
<1>3. CASE \/ FitModel \/ SaveBundle \/ CompareWithChampion \/ ApplyGates
           \/ LogCandidate \/ ReviewStoredRun \/ Recheck \/ MonitorDrift
  <2>1. stage' # "evaluated"
    BY <1>3 DEF FitModel, SaveBundle, CompareWithChampion, ApplyGates,
       LogCandidate, ReviewStoredRun, Recheck, MonitorDrift, Advance
  <2>2. QED
    BY <2>1 DEF Measured
<1>4. CASE UNCHANGED <<vars, attemptVars>>
  <2>1. UNCHANGED <<frame, trainEnd, calibrationEnd, stage, model, evidence>>
    BY <1>4 DEF vars, attemptVars
  <2>2. Test' = Test
    BY <2>1 DEF Test, Partition, InWindow, Window, LabelKnown, NextStart,
       DateAt, Index, Dates
  <2>3. QED
    BY <2>1, <2>2 DEF Measured
<1>5. QED
  BY <1>1, <1>2, <1>3, <1>4 DEF AttemptNext

LEMMA TestRows ==
  ASSUME TypeOK
  PROVE  /\ IsFiniteSet(DOMAIN Test)
         /\ \A r \in DOMAIN Test :
              /\ r \in Rows
              /\ Test[r] = frame[r]
              /\ StayOf(Test[r]) = Stay(r)
              /\ frame[r] \in Observations
              /\ frame[r].occupancy \in Int
              /\ frame[r].event \in Nat
<1>1. DOMAIN Test = Partition("test")
  BY DEF Test, Restrict
<1>2. Partition("test") \subseteq Rows
  BY DEF Partition, InWindow
<1>3. IsFiniteSet(Rows) /\ \A r \in Rows : frame[r] \in Observations
  BY SplitConstants DEF SplitConstants, TypeOK
<1>4. \A r \in DOMAIN Test : Test[r] = frame[r] /\ StayOf(Test[r]) = Stay(r)
  BY DEF Test, Restrict, StayOf, Stay, StayAt
<1>5. \A r \in Rows : frame[r].event \in Nat
  BY AttemptConstants DEF AttemptConstants, TypeOK
<1>6. \A r \in Rows : frame[r].occupancy \in Int
  BY <1>3 DEF Observations
<1>7. QED
  BY <1>1, <1>2, <1>3, <1>4, <1>5, <1>6, FS_Subset

LEMMA HoldoutIsNumbered ==
  ASSUME TypeOK, NEW m, m.regressors \in Regressors
  PROVE  /\ Numbered(m, Test)
         /\ \A x \in Scores(m, Test) : Sliceable(x)
<1>1. ASSUME NEW r \in DOMAIN Test PROVE ErrorOf(m, Test[r]) \in Nat
  <2> DEFINE p == Predicted(m.regressors.central, TrainingRow(frame[r]))
  <2>1. r \in Rows /\ Test[r] = frame[r] /\ frame[r].occupancy \in Int
    BY TestRows
  <2>2. p \in Int /\ Full \in Nat
    BY <2>1, PredictionsAreNumbers, DemandConstants DEF DemandConstants
  <2>3. ErrorOf(m, Test[r]) = Magnitude(frame[r].occupancy - Clip(p))
    BY <2>1 DEF ErrorOf, Expected
  <2> HIDE DEF p
  <2>4. Clip(p) \in Int
    BY <2>2 DEF Clip
  <2>5. QED
    BY <2>1, <2>3, <2>4 DEF Magnitude
<1>2. ASSUME NEW x \in Scores(m, Test) PROVE Sliceable(x)
  <2>1. PICK r \in DOMAIN Test : x = Score(m, r, Test[r])
    BY DEF Scores
  <2>2. Test[r] = frame[r] /\ frame[r] \in Observations /\ frame[r].event \in Nat
    BY TestRows
  <2>3. /\ x.lead = frame[r].stay - frame[r].asOf
        /\ x.holiday = frame[r].holiday
        /\ x.event = frame[r].event
        /\ x.located = frame[r].located
    BY <2>1, <2>2, ScoreFields
  <2>4. /\ frame[r].stay \in Int /\ frame[r].asOf \in Int
        /\ frame[r].holiday \in BOOLEAN /\ frame[r].located \in BOOLEAN
    BY <2>2 DEF Observations
  <2>5. QED
    BY <2>2, <2>3, <2>4 DEF Sliceable
<1>3. QED
  BY <1>1, <1>2, TestRows DEF Numbered

\* What the two properties read in the evidence.
LEMMA EvidenceReads ==
  ASSUME NEW m, NEW h, IsFiniteSet(DOMAIN h)
  PROVE  /\ Evaluate(m, h).aggregate["occupancy_mae"] = MeanError(m, h)
         /\ DOMAIN Evaluate(m, h).slices
              = {s \in SliceNames : SliceOf(Scores(m, h), s) # {}}
         /\ \A s \in DOMAIN Evaluate(m, h).slices :
              Evaluate(m, h).slices[s]["sample_size"].num
                = Cardinality(SliceOf(Scores(m, h), s))
<1> DEFINE scores == Scores(m, h)
           judged == {s \in SliceNames : SliceOf(scores, s) # {}}
<1>1. Evaluate(m, h) = [aggregate |-> AggregateMetrics(scores),
                        slices |-> [s \in judged |-> SliceMetrics(SliceOf(scores, s))]]
  BY DEF Evaluate, Scores
<1> HIDE DEF scores, judged
<1>2. /\ Evaluate(m, h).aggregate = AggregateMetrics(scores)
      /\ DOMAIN Evaluate(m, h).slices = judged
      /\ \A s \in judged : Evaluate(m, h).slices[s] = SliceMetrics(SliceOf(scores, s))
  BY <1>1
<1>3. \A k : SliceMetrics(k)["occupancy_mae"] = Average(EqualGroupWeights(k), "error", Full)
  BY DEF SliceMetrics
<1>4. \A k : SliceMetrics(k)["sample_size"].num = Cardinality(k)
  BY DEF SliceMetrics, Count
<1>5. AggregateMetrics(scores)["occupancy_mae"] = SliceMetrics(scores)["occupancy_mae"]
  BY DEF AggregateMetrics, SliceMetrics
<1>6. QED
  BY <1>2, <1>3, <1>4, <1>5 DEF MeanError, scores, judged

LEMMA EvidenceCounted ==
  ASSUME TypeOK, model.regressors \in Regressors, evidence = Evaluate(model, Test)
  PROVE  EvidenceCountsOnce
<1> DEFINE stays == StaysIn(Test)
           errors == [s \in stays |->
             {Magnitude(frame[r].occupancy - Expected(model, TrainingRow(frame[r]))) :
                r \in {q \in DOMAIN Test : Stay(q) = s}}]
           Best(S) == CHOOSE x \in S : \A y \in S : x <= y
           Worst(S) == CHOOSE x \in S : \A y \in S : y <= x
           mae == evidence.aggregate["occupancy_mae"]
           Size(s) == IF s \in DOMAIN evidence.slices
                      THEN evidence.slices[s]["sample_size"].num ELSE 0
           low == [s \in stays |-> Best(errors[s])]
           high == [s \in stays |-> Worst(errors[s])]
<1>1. IsFiniteSet(DOMAIN Test) /\ Numbered(model, Test)
  BY TestRows, HoldoutIsNumbered
<1>2. ASSUME NEW s \in stays PROVE errors[s] = ErrorsOf(model, Test, s)
  <2> DEFINE err(r) == Magnitude(frame[r].occupancy - Expected(model, TrainingRow(frame[r])))
             rows == {q \in DOMAIN Test : Stay(q) = s}
  <2>1. rows = RowsOf(Test, s)
    BY TestRows DEF RowsOf
  <2>2. \A r \in DOMAIN Test : err(r) = ErrorOf(model, Test[r])
    BY TestRows DEF ErrorOf
  <2>3. rows \subseteq DOMAIN Test
    OBVIOUS
  <2>4. errors[s] = {err(r) : r \in rows}
    OBVIOUS
  <2> HIDE DEF err, rows, errors
  <2>5. QED
    BY <2>1, <2>2, <2>3, <2>4 DEF ErrorsOf
<1>3. ASSUME NEW s \in stays
      PROVE  /\ Best(errors[s]) \in Int /\ Worst(errors[s]) \in Int
             /\ \A e \in ErrorsOf(model, Test, s) : Best(errors[s]) <= e /\ e <= Worst(errors[s])
  <2> DEFINE V == ErrorsOf(model, Test, s)
  <2>1. V # {}
    BY DEF StaysIn, RowsOf, ErrorsOf
  <2>2. IsFiniteSet(V)
    <3> DEFINE f == [r \in RowsOf(Test, s) |-> ErrorOf(model, Test[r])]
    <3>1. IsFiniteSet(RowsOf(Test, s))
      BY <1>1, FS_Subset DEF RowsOf
    <3>2. f \in Surjection(RowsOf(Test, s), V)
      BY DEF Surjection, ErrorsOf
    <3>3. QED
      BY <3>1, <3>2, FS_Surjection
  <2>3. \A e \in V : e \in Int
    BY <1>1 DEF ErrorsOf, RowsOf, Numbered
  <2>4. errors[s] = V
    BY <1>2
  <2> HIDE DEF V, errors, stays
  <2>5. /\ \E x \in V : \A y \in V : x <= y
        /\ \E x \in V : \A y \in V : y <= x
    <3>1. /\ Min(V) \in V /\ \A v \in V : Min(V) <= v
          /\ Max(V) \in V /\ \A v \in V : Max(V) >= v
      BY <2>1, <2>2, <2>3, ExtremesExist
    <3>2. \A v \in V : v <= Max(V)
      BY <2>3, <3>1
    <3>3. QED
      BY <3>1, <3>2
  <2>6. Best(V) \in V /\ \A y \in V : Best(V) <= y
    BY <2>5
  <2>7. Worst(V) \in V /\ \A y \in V : y <= Worst(V)
    BY <2>5
  <2> HIDE DEF Best, Worst
  <2>8. QED
    BY <2>3, <2>4, <2>6, <2>7 DEF V
<1>4. \A s \in stays : low[s] = Best(errors[s]) /\ high[s] = Worst(errors[s])
  OBVIOUS
<1>5. DOMAIN low = stays /\ DOMAIN high = stays
  OBVIOUS
<1>6. EvidenceCountsOnce <=>
        (stage = "evaluated" =>
           /\ SumFunction(low) * mae.den <= mae.num * Full * Cardinality(stays)
           /\ mae.num * Full * Cardinality(stays) <= SumFunction(high) * mae.den
           /\ \A family \in SliceFamilies :
                SumFunction([s \in family |-> Size(s)]) = Cardinality(DOMAIN Test))
  BY DEF EvidenceCountsOnce
<1>7. mae = MeanError(model, Test)
  BY <1>1, EvidenceReads
<1>8. \A s \in SliceNames : Size(s) = Cardinality(SliceOf(Scores(model, Test), s))
  <2>1. ASSUME NEW s \in SliceNames
        PROVE  Size(s) = Cardinality(SliceOf(Scores(model, Test), s))
    <3>1. CASE s \in DOMAIN evidence.slices
      BY <1>1, <3>1, EvidenceReads
    <3>2. CASE s \notin DOMAIN evidence.slices
      <4>1. SliceOf(Scores(model, Test), s) = {}
        BY <1>1, <3>2, EvidenceReads
      <4>2. QED
        BY <3>2, <4>1, FS_EmptySet
    <3>3. QED
      BY <3>1, <3>2
  <2>2. QED
    BY <2>1
<1> HIDE DEF low, high, errors, Best, Worst, mae, Size
<1>9. Bracket(low, high, model, Test)
  BY <1>3, <1>4 DEF Bracket
<1>10. SumFunction(low) = Sum(low, stays) /\ SumFunction(high) = Sum(high, stays)
  BY <1>5, SumOfFunction
<1>11. /\ Sum(low, stays) * mae.den <= mae.num * Full * Cardinality(stays)
       /\ mae.num * Full * Cardinality(stays) <= Sum(high, stays) * mae.den
  BY <1>1, <1>7, <1>9, NoStayOutvotes
<1>12. ASSUME NEW family \in SliceFamilies
       PROVE  SumFunction([s \in family |-> Size(s)]) = Cardinality(DOMAIN Test)
  <2> DEFINE sizes == [s \in family |-> Size(s)]
  <2>1. \A s \in family : sizes[s] = Cardinality(SliceOf(Scores(model, Test), s))
    BY <1>8, FamiliesAreFinite
  <2>2. SumFunction(sizes) = Sum(sizes, family)
    BY SumOfFunction
  <2> HIDE DEF sizes
  <2>3. /\ IsFiniteSet(Scores(model, Test))
        /\ Cardinality(Scores(model, Test)) = Cardinality(DOMAIN Test)
    BY <1>1, ScoresAreRows
  <2>4. \A x \in Scores(model, Test) : Sliceable(x)
    BY HoldoutIsNumbered
  <2>5. Sum(sizes, family) = Cardinality(Scores(model, Test))
    BY <2>1, <2>3, <2>4, FamiliesShareOutScores
  <2>6. QED
    BY <2>2, <2>3, <2>5 DEF sizes
<1>13. QED
  BY <1>6, <1>10, <1>11, <1>12

\* No stay outvotes another in the mean error, and every family of slices
\* shares out the snapshots, whatever the frame, the regressors and the cut.
THEOREM StaysCountOnce == AttemptSpec => []EvidenceCountsOnce
<1>1. AttemptInit => Measured
  BY DEF AttemptInit, Measured
<1>2. TypeOK /\ Measured => EvidenceCountsOnce
  <2> SUFFICES ASSUME TypeOK, Measured, stage = "evaluated" PROVE EvidenceCountsOnce
    BY DEF EvidenceCountsOnce
  <2>1. QED
    BY EvidenceCounted DEF Measured
<1>3. QED
  BY <1>1, <1>2, MeasuredStep, AttemptInvariant, AttemptSplits, SplitTypeCorrect, PTL
  DEF AttemptSpec
============================================================================
