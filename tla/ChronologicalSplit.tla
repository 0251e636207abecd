------------------------- MODULE ChronologicalSplit -------------------------
(***************************************************************************)
(* From a frame of observations to the partitions a demand model is        *)
(* trained, calibrated and tested on: the data contract                    *)
(* (infrastructure/data_contracts.py, validate_training_frame), the scope  *)
(* checks of TrainDemandModel.execute, and the purged temporal split       *)
(* (application/training_service.py, ChronologicalSplitter).               *)
(*                                                                         *)
(* A frame maps row labels to observations; dates are day numbers, which   *)
(* is what _normalize_daily_dates leaves of them. The order of the rows    *)
(* decides nothing here, so the sort is left out. "signals" stands for the *)
(* columns only a regressor tells apart, and "located" for the two         *)
(* coordinates. The schema may reject any frame.                           *)
(***************************************************************************)
EXTENDS Integers, FiniteSets

CONSTANTS
  Rows,                \* row labels of the frame
  Frames,              \* the frames a caller may bring
  TrainPercent,        \* train_fraction, in per cent
  CalibrationPercent,  \* calibration_fraction, in per cent
  Embargo,             \* embargo_days
  MinRows,             \* minimum rows of each partition
  MinStays             \* minimum stays of each partition

MinimumDates == 10
Windows == {"train", "calibration", "test"}
Observations ==
  [tenant : STRING, property : STRING, currency : STRING,
   asOf : Int, stay : Int, outcome : Int, occupancy : Int, price : Int,
   competitor : Int, holiday : BOOLEAN, event : Int, located : BOOLEAN,
   signals : STRING]

\* What the constructor of the splitter accepts.
SplitterAccepts ==
  /\ TrainPercent \in 1..98
  /\ CalibrationPercent \in 1..98
  /\ TrainPercent + CalibrationPercent < 100
  /\ Embargo \in Nat
  /\ MinRows \in [Windows -> Nat \ {0}]
  /\ MinStays \in [Windows -> Nat \ {0}]

ASSUME SplitConstants ==
  /\ IsFiniteSet(Rows)
  /\ \A f \in Frames : /\ DOMAIN f = Rows
                       /\ \A r \in Rows : f[r] \in Observations
  /\ SplitterAccepts

VARIABLES
  phase,          \* how far the attempt got, or how it failed
  frame,          \* the observations
  trainEnd,       \* dates[:trainEnd] is the training window
  calibrationEnd  \* dates[trainEnd:calibrationEnd] is the calibration window

vars == <<phase, frame, trainEnd, calibrationEnd>>

Failures ==
  {"DataContractError", "too few dates", "no window", "empty partition",
   "insufficient evidence", "label not available", "stay crosses partitions"}
Phases == {"raw", "validated", "scoped", "cut", "purged", "evidenced", "split"}

----------------------------------------------------------------------------
(* The data contract *)

StayAt(f, r) == <<f[r].tenant, f[r].property, f[r].stay>>

\* One decision a day prices a stay, and its outcome is one.
SnapshotsAgree(f, r, q) ==
  /\ f[r].asOf = f[q].asOf => r = q
  /\ f[r].occupancy = f[q].occupancy
  /\ f[r].outcome = f[q].outcome
  /\ f[r].currency = f[q].currency

\* Mutant: a decision may come after the stay it prices.
ContractWithoutDecisionOrder(f) ==
  /\ \A r \in DOMAIN f : f[r].outcome > f[r].stay
  /\ \A r, q \in DOMAIN f : StayAt(f, r) = StayAt(f, q) => SnapshotsAgree(f, r, q)

Contract(f) ==
  /\ \A r \in DOMAIN f : f[r].asOf <= f[r].stay /\ f[r].stay < f[r].outcome
  /\ \A r, q \in DOMAIN f : StayAt(f, r) = StayAt(f, q) => SnapshotsAgree(f, r, q)

ContractHolds == Contract(frame)
Stay(r) == StayAt(frame, r)

----------------------------------------------------------------------------
(* Windows of dates *)

Dates == {frame[r].asOf : r \in Rows}

\* The index of a date among the sorted dates.
Index(d) == Cardinality({e \in Dates : e < d})

\* dates[i]
DateAt(i) == CHOOSE d \in Dates : Index(d) = i

\* int(n * fraction): a product that should be whole may be computed just
\* below it, as 90 * 0.7 is.
Truncated(n, percent) ==
  LET product == n * percent
  IN  {product \div 100} \cup
      {k \in {(product \div 100) - 1} : product % 100 = 0}

AtLeast(low, k) == IF k < low THEN low ELSE k

\* Mutant: the train window ends at an index counted from the end, which a
\* Python slice accepts.
TrainEndsFromTheEnd(n) == {k - n : k \in Truncated(n, TrainPercent)}

TrainEnds(n) == {AtLeast(1, k) : k \in Truncated(n, TrainPercent)}

CalibrationEnds(n, end) ==
  {IF c >= n THEN n - 1 ELSE c :
     c \in {AtLeast(end + 1, k) :
              k \in Truncated(n, TrainPercent + CalibrationPercent)}}

\* Mutant: the date at the boundary belongs to no window.
WindowWithGap(w) ==
  IF w = "train" THEN {d \in Dates : Index(d) < trainEnd}
  ELSE IF w = "calibration"
  THEN {d \in Dates : trainEnd < Index(d) /\ Index(d) < calibrationEnd}
  ELSE {d \in Dates : calibrationEnd <= Index(d)}

Window(w) ==
  IF w = "train" THEN {d \in Dates : Index(d) < trainEnd}
  ELSE IF w = "calibration"
  THEN {d \in Dates : trainEnd <= Index(d) /\ Index(d) < calibrationEnd}
  ELSE {d \in Dates : calibrationEnd <= Index(d)}

\* Mutant: both windows are purged against the start of the test window.
TestStart(w) == DateAt(calibrationEnd)

\* The first decision day of the window that follows w.
NextStart(w) == DateAt(IF w = "train" THEN trainEnd ELSE calibrationEnd)

----------------------------------------------------------------------------
(* Partitions *)

InWindow(w) ==
  LET window == Window(w)
  IN  {r \in Rows : frame[r].asOf \in window}

LabelKnown(r, w) == frame[r].outcome < NextStart(w) - Embargo

Partition(w) ==
  {r \in InWindow(w) : w # "test" => LabelKnown(r, w)}

Purged(w) == InWindow(w) \ Partition(w)

Stays(w) == {Stay(r) : r \in Partition(w)}

EnoughEvidence ==
  \A w \in Windows : /\ Cardinality(Partition(w)) >= MinRows[w]
                     /\ Cardinality(Stays(w)) >= MinStays[w]

----------------------------------------------------------------------------
(* The attempt, step by step: each check either passes or ends it *)

Step(from, to) == phase = from /\ phase' = to /\ UNCHANGED frame

Check(from, passes, to, failure) ==
  /\ Step(from, IF passes THEN to ELSE failure)
  /\ UNCHANGED <<trainEnd, calibrationEnd>>

Validate == Check("raw", ContractHolds, "validated", "DataContractError")

\* Missing columns, identifiers, dates with a time of day, numbers, schema.
SchemaRejects == Check("raw", FALSE, "validated", "DataContractError")

Scope ==
  Check("validated",
        /\ Cardinality({frame[r].currency : r \in Rows}) = 1
        /\ Cardinality({frame[r].tenant : r \in Rows}) = 1,
        "scoped", "DataContractError")

CutWindows ==
  LET n == Cardinality(Dates)
  IN  /\ n >= MinimumDates
      /\ trainEnd' \in TrainEnds(n)
      /\ calibrationEnd' \in CalibrationEnds(n, trainEnd')
      /\ Step("scoped", IF trainEnd' < calibrationEnd' /\ calibrationEnd' < n
                        THEN "cut" ELSE "no window")

TooFewDates ==
  /\ Cardinality(Dates) < MinimumDates
  /\ Check("scoped", FALSE, "cut", "too few dates")

Purge ==
  Check("cut", \A w \in Windows : Partition(w) # {}, "purged", "empty partition")

AssertMinimumEvidence ==
  Check("purged", EnoughEvidence, "evidenced", "insufficient evidence")

LabelsBeforeBoundary ==
  \A w \in {"train", "calibration"} : \A r \in Partition(w) :
    frame[r].outcome < NextStart(w) - Embargo

StaysApart ==
  \A w, x \in Windows : w # x => Stays(w) \cap Stays(x) = {}

AssertPartitionInvariants ==
  Check("evidenced", LabelsBeforeBoundary /\ StaysApart, "split",
        IF LabelsBeforeBoundary THEN "stay crosses partitions"
                                ELSE "label not available")

Init ==
  /\ phase = "raw"
  /\ frame \in Frames
  /\ trainEnd = 0
  /\ calibrationEnd = 0

Next ==
  \/ Validate
  \/ SchemaRejects
  \/ Scope
  \/ CutWindows
  \/ TooFewDates
  \/ Purge
  \/ AssertMinimumEvidence
  \/ AssertPartitionInvariants

Spec == Init /\ [][Next]_vars

----------------------------------------------------------------------------
(* Properties *)

TypeOK ==
  /\ phase \in Phases \cup Failures
  /\ frame \in Frames
  /\ trainEnd \in Nat
  /\ calibrationEnd \in Int

\* A partition is fitted or calibrated only on labels that were known, embargo
\* included, before every decision it is later applied to: no label leaks from
\* the future, whatever the dates and the rounding of the boundaries.
NoFutureLabel ==
  phase = "split" =>
    LET train == Partition("train")
        calibration == Partition("calibration")
        test == Partition("test")
    IN  /\ \A r \in train, q \in calibration \cup test :
             frame[r].outcome + Embargo < frame[q].asOf
        /\ \A r \in calibration, q \in test :
             frame[r].outcome + Embargo < frame[q].asOf

\* The fail-closed assertions of the splitter cannot fire: the data contract
\* and the purge together already keep the snapshots of a stay in one
\* partition, even of stays that straddle a boundary.
AssertionsNeverFire ==
  phase \notin {"label not available", "stay crosses partitions"}

\* From ten dates on, while less than 90 % of them are to train on, the three
\* windows exist, however the boundaries round.
WindowsExist == phase # "no window"

\* Used and purged rows add up to the frame: no observation falls between two
\* windows or is counted twice.
RowsAccountedFor ==
  phase = "split" =>
    Cardinality(Rows) =
      Cardinality(Partition("train")) + Cardinality(Purged("train"))
      + Cardinality(Partition("calibration")) + Cardinality(Purged("calibration"))
      + Cardinality(Partition("test"))

\* No cut of ten dates or more gives up or loses data while less than 90 % of
\* them are to train on (the default is 70 %): the three windows exist, and the
\* rows they use or purge are the rows of the frame.
WindowsShareOutRows == WindowsExist /\ RowsAccountedFor
============================================================================
