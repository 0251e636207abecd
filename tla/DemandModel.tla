---------------------------- MODULE DemandModel ----------------------------
(***************************************************************************)
(* The quantile demand model of infrastructure/models/lightgbm_demand.py:  *)
(* how fit calibrates three fitted regressors on held-out stays and what   *)
(* predict serves. The regressors themselves are LightGBM's: any function  *)
(* from feature rows to numbers, not confined to an occupancy. Occupancies *)
(* are whole numbers in 0..Full.                                           *)
(***************************************************************************)
EXTENDS FeatureFactory, FiniteSets

CONSTANTS
  Predicted(_, _),  \* what a regressor answers to a feature row
  Full,             \* the occupancy 1.0
  IntervalCoverage  \* interval_coverage, in per cent

ASSUME DemandConstants ==
  /\ Full \in Nat \ {0}
  /\ IntervalCoverage \in 1..99

\* One outcome: the nights of a tenant's property that several snapshots price.
StayOf(o) == <<o.tenant, o.property, o.stay>>
StaysIn(h) == {StayOf(h[r]) : r \in DOMAIN h}

Clip(x) == IF x < 0 THEN 0 ELSE IF x > Full THEN Full ELSE x
Larger(x, y) == IF x < y THEN y ELSE x
Smaller(x, y) == IF x < y THEN x ELSE y

----------------------------------------------------------------------------
(* Calibration: b holds the regressors, h the calibration observations *)

\* How far the outcome lies outside the clipped interval.
Residual(b, o) ==
  LET x == TrainingRow(o)
  IN  Larger(0, Larger(o.occupancy - Clip(Predicted(b.upper, x)),
                       Clip(Predicted(b.lower, x)) - o.occupancy))

\* Mutant: the residual of a stay is the smallest of its snapshots.
StaysWithinAny(b, h, v) ==
  {s \in StaysIn(h) : \E r \in DOMAIN h : StayOf(h[r]) = s /\ Residual(b, h[r]) <= v}

\* The stays whose residual, the largest of their snapshots, is at most v.
StaysWithin(b, h, v) ==
  {s \in StaysIn(h) : \A r \in DOMAIN h : StayOf(h[r]) = s => Residual(b, h[r]) <= v}

Ceiling(n, d) == (n + d - 1) \div d

\* ceil((n + 1) * interval_coverage): a whole product may be computed just
\* above it, as 3 * 0.1 is.
Ranks(n) ==
  LET product == (n + 1) * IntervalCoverage
  IN  {Ceiling(product, 100)} \cup {k \in {(product \div 100) + 1} : product % 100 = 0}

\* The index np.quantile(..., method="higher") reads among n sorted residuals
\* for the quantile min(1, k / n).
QuantileIndex(n, k) == IF k >= n THEN n - 1 ELSE Ceiling(k * (n - 1), n)

\* calibration_radius: the sorted residual at that index.
Radii(b, h) ==
  LET residuals == {Residual(b, h[r]) : r \in DOMAIN h}
      n == Cardinality(StaysIn(h))
      Reaches(v, i) == Cardinality(StaysWithin(b, h, v)) > i
  IN  {v \in residuals : \E k \in Ranks(n) :
         LET i == QuantileIndex(n, k)
         IN  /\ Reaches(v, i)
             /\ \A u \in residuals : u < v => ~Reaches(u, i)}

Fitted(b, radius) == [regressors |-> b, radius |-> radius]

----------------------------------------------------------------------------
(* Prediction: m is a fitted model, x a feature row *)

Expected(m, x) == Clip(Predicted(m.regressors.central, x))

\* The quantile regressors may cross the central one; that is repaired.
LowerEnd(m, x) ==
  Smaller(Clip(Predicted(m.regressors.lower, x) - m.radius), Expected(m, x))

UpperEnd(m, x) ==
  Larger(Clip(Predicted(m.regressors.upper, x) + m.radius), Expected(m, x))

\* What DemandEstimate demands of the three; it raises otherwise.
WellFormed(m, x) ==
  /\ 0 <= LowerEnd(m, x)
  /\ LowerEnd(m, x) <= Expected(m, x)
  /\ Expected(m, x) <= UpperEnd(m, x)
  /\ UpperEnd(m, x) <= Full

Covers(m, x, occupancy) == LowerEnd(m, x) <= occupancy /\ occupancy <= UpperEnd(m, x)
============================================================================
