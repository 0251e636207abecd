------------------------- MODULE HoldoutEvaluation -------------------------
(***************************************************************************)
(* Offline evaluation of a demand model on the test partition: the price   *)
(* grid of TrainDemandModel._evaluate_on_test_partition and the metrics of *)
(* evaluate_demand_predictions (application/evaluation.py), overall and on *)
(* the slices of _build_slice_memberships.                                 *)
(*                                                                         *)
(* A metric is a fraction [num, den]; 0/0 is NaN and n/0 is an infinity,   *)
(* so that comparing by cross-multiplication compares as floats do.        *)
(***************************************************************************)
EXTENDS DemandModel, FiniteSetsExt, Functions

Multipliers == {65 + 5 * i : i \in 0..14}
LowestPrice == 65
HighestPrice == 135

Magnitude(x) == IF x < 0 THEN -x ELSE x
Count(n) == [num |-> n, den |-> 1]
NotANumber == [num |-> 0, den |-> 0]

----------------------------------------------------------------------------
(* The decisions the model would have taken *)

RevenueAt(m, x, k) == k * Expected(m, GridRow(x, k))

\* np.argmax: of the prices that earn the most, the lowest.
SelectedPrice(m, x) ==
  LET grid == {[price |-> k, revenue |-> RevenueAt(m, x, k)] : k \in Multipliers}
      most == Max({g.revenue : g \in grid})
  IN  Min({g.price : g \in {h \in grid : h.revenue = most}})

\* What is measured on row r, observation o, of the holdout.
Score(m, r, o) ==
  LET x == TrainingRow(o)
      expected == Expected(m, x)
      error == Magnitude(o.occupancy - expected)
      response == Expected(m, GridRow(x, 90)) - Expected(m, GridRow(x, 110))
      selected == SelectedPrice(m, x)
  IN  [row |-> r, stay |-> StayOf(o), lead |-> o.stay - o.asOf,
       holiday |-> o.holiday, event |-> o.event, located |-> o.located,
       covered |-> Covers(m, x, o.occupancy), error |-> error, squaredError |-> error * error,
       actual |-> o.occupancy, squaredActual |-> o.occupancy * o.occupancy,
       revenue |-> o.price * o.occupancy, revenueError |-> o.price * error,
       width |-> UpperEnd(m, x) - LowerEnd(m, x),
       response |-> response, flat |-> OneIf(response * 1000 < 2 * Full),
       change |-> selected - Listed,
       upperEnd |-> OneIf(selected = HighestPrice),
       lowerEnd |-> OneIf(selected = LowestPrice),
       anyEnd |-> OneIf(selected \in {LowestPrice, HighestPrice})]

----------------------------------------------------------------------------
(* Averages over a set h of scores *)

Snapshots(h, x) == {y \in h : y.stay = x.stay}

\* Mutant: every snapshot weighs the same, whatever its stay.
SnapshotWeights(h) == {[score |-> x, weight |-> 1] : x \in h}

\* 1 / count for every row, over a common denominator.
EqualGroupWeights(h) ==
  LET unit == ProductSet({Cardinality(Snapshots(h, x)) : x \in h})
  IN  {[score |-> x, weight |-> unit \div Cardinality(Snapshots(h, x))] : x \in h}

Total(weighted, field) ==
  SumFunction([w \in weighted |-> w.weight * w.score[field]])

TotalWeight(weighted) == SumFunction([w \in weighted |-> w.weight])

\* np.average of field / scale.
Average(weighted, field, scale) ==
  [num |-> Total(weighted, field), den |-> TotalWeight(weighted) * scale]

\* The share of stays whose every snapshot is covered.
SimultaneousCoverage(h) ==
  LET stays == {x.stay : x \in h}
      missed == {x.stay : x \in {y \in h : ~y.covered}}
  IN  [num |-> Cardinality(stays \ missed), den |-> Cardinality(stays)]

\* Whole numbers are 0 exactly when they are at most 1e-12.
AbsolutePercentageError(weighted) ==
  LET errors == Total(weighted, "revenueError")
      revenue == Total(weighted, "revenue")
  IN  IF revenue # 0 THEN [num |-> errors, den |-> revenue]
      ELSE Count(OneIf(errors # 0))

\* r2_score: not defined on one row, and finite when the outcomes are equal.
R2(weighted) ==
  LET all == TotalWeight(weighted)
      sum == Total(weighted, "actual")
      spread == all * Total(weighted, "squaredActual") - sum * sum
      errors == Total(weighted, "squaredError")
  IN  IF Cardinality(weighted) < 2 THEN NotANumber
      ELSE IF spread # 0 THEN [num |-> spread - all * errors, den |-> spread]
      ELSE Count(OneIf(errors = 0))

----------------------------------------------------------------------------
(* Metrics *)

SliceMetrics(h) ==
  LET weighted == EqualGroupWeights(h)
  IN  [occupancy_mae |-> Average(weighted, "error", Full),
       interval_coverage |-> SimultaneousCoverage(h),
       expected_revenue_wape |-> AbsolutePercentageError(weighted),
       sample_size |-> Count(Cardinality(h)),
       unique_stays |-> Count(Cardinality({x.stay : x \in h})),
       mean_price_response |-> Average(weighted, "response", Full),
       flat_price_response_rate |-> Average(weighted, "flat", 1),
       upper_price_boundary_rate |-> Average(weighted, "upperEnd", 1),
       lower_price_boundary_rate |-> Average(weighted, "lowerEnd", 1),
       any_price_boundary_rate |-> Average(weighted, "anyEnd", 1),
       mean_selected_price_change_pct |-> Average(weighted, "change", 100)]

\* The metrics of a slice, and four more; occupancy_rmse stands for its square.
AggregateMetrics(h) ==
  LET weighted == EqualGroupWeights(h)
      shared == SliceMetrics(h)
      more == [occupancy_rmse |-> Average(weighted, "squaredError", Full * Full),
               occupancy_r2 |-> R2(weighted),
               mean_interval_width |-> Average(weighted, "width", Full),
               expected_revenue_mae |-> Average(weighted, "revenueError", Full)]
  IN  [x \in DOMAIN shared \cup DOMAIN more |->
         IF x \in DOMAIN shared THEN shared[x] ELSE more[x]]

SliceFamilies ==
  { {"lead_time/0_7_days", "lead_time/8_30_days", "lead_time/31_plus_days"},
    {"holiday/yes", "holiday/no"},
    {"event/none", "event/active"},
    {"location/known", "location/unknown"} }

SliceNames == UNION SliceFamilies

InSlice(s, x) ==
  \/ s = "lead_time/0_7_days" /\ x.lead <= 7
  \/ s = "lead_time/8_30_days" /\ x.lead \in 8..30
  \/ s = "lead_time/31_plus_days" /\ x.lead >= 31
  \/ s = "holiday/yes" /\ x.holiday
  \/ s = "holiday/no" /\ ~x.holiday
  \/ s = "event/none" /\ x.event = 0
  \/ s = "event/active" /\ x.event > 0
  \/ s = "location/known" /\ x.located
  \/ s = "location/unknown" /\ ~x.located

SliceOf(h, s) == {x \in h : InSlice(s, x)}

\* h maps the rows of the holdout to their observations. A slice without rows
\* is left out.
Evaluate(m, h) ==
  LET scores == {Score(m, r, h[r]) : r \in DOMAIN h}
  IN  [aggregate |-> AggregateMetrics(scores),
       slices |-> [s \in {t \in SliceNames : SliceOf(scores, t) # {}} |->
                     SliceMetrics(SliceOf(scores, s))]]
============================================================================
