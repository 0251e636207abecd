------------------------ MODULE MCRetrainingAttempt ------------------------
(***************************************************************************)
(* Frames, regressors, champions and stored runs for RetrainingAttempt.    *)
(* Ten rows of one property decide every third day, which gives the ten    *)
(* dates the splitter needs; five more of other properties decide on the   *)
(* last day, at the ends of the lead-time slices, and one of them has an   *)
(* outcome that no regressor covers; two rows are free around the          *)
(* boundaries: they may be snapshots of one stay, in one window or in two, *)
(* duplicates, or break the contract.                                      *)
(***************************************************************************)
EXTENDS RetrainingAttempt, TLC

SeventeenRows == 1..17

\* The outcome and the columns of a stay follow from the property and the day.
Observed(p, d, s, o) ==
  [tenant |-> "t1", property |-> p, currency |-> "EUR",
   asOf |-> d, stay |-> s, outcome |-> o,
   occupancy |-> (CASE p = "p2" -> 8 [] p = "p7" -> 16 [] OTHER -> 10) + (s % 3) * 4,
   price |-> 1 + (s % 2), competitor |-> 1 + (s % 2), holiday |-> s % 2 = 0, event |-> s % 3,
   located |-> p = "p1",
   signals |-> "as usual"]

\* Rows that satisfy the contract by themselves.
SoundRows ==
  {o \in {Observed("p2", d, s, s + lag) :
            d \in {17, 18, 24, 27, 30}, s \in {18, 24, 30}, lag \in {1, 2}} :
     o.asOf <= o.stay}

\* One row decided after its stay, one whose label is known before it.
UnsoundRows == {Observed("p2", 27, 18, 19), Observed("p2", 21, 24, 22)}

FreeRows == SoundRows \cup UnsoundRows

\* The free rows, in an order, so that a pair is tried once.
Later(x, y) ==
  \/ x.asOf < y.asOf
  \/ x.asOf = y.asOf /\ x.stay < y.stay
  \/ x.asOf = y.asOf /\ x.stay = y.stay /\ x.outcome <= y.outcome

FrameOf(lead, x, y) ==
  [r \in SeventeenRows |->
     IF r = 11 THEN x
     ELSE IF r = 12 THEN y
     ELSE IF r = 13 THEN Observed("p3", 30, 38, 39)
     ELSE IF r = 14 THEN Observed("p4", 30, 61, 62)
     ELSE IF r = 15 THEN Observed("p5", 30, 60, 61)
     ELSE IF r = 16 THEN Observed("p6", 30, 37, 38)
     ELSE IF r = 17 THEN Observed("p7", 30, 31, 32)
     ELSE Observed("p1", 3 * r, 3 * r + lead, 3 * r + lead + 1)]

BoundaryFrames ==
  {FrameOf(lead, xy[1], xy[2]) :
     lead \in {0, 1}, xy \in {p \in FreeRows \X FreeRows : Later(p[1], p[2])}}

Plain == FrameOf(0, Observed("p2", 18, 18, 19), Observed("p2", 30, 30, 31))

\* Frames the scope checks, the contract or the number of dates reject.
RejectedFrames ==
  { [Plain EXCEPT ![12].tenant = "t2"],
    [Plain EXCEPT ![12].currency = "USD"],
    [Plain EXCEPT ![11] = Observed("p2", 30, 30, 31), ![12].occupancy = 0],
    [r \in SeventeenRows |-> Observed("p1", 3, 3 + r, 20)] }

MCFrames == BoundaryFrames \cup RejectedFrames

Minimums == [train |-> 4, calibration |-> 2, test |-> 4]

----------------------------------------------------------------------------
(* Recent observations: the same, far ahead, short of lead, too few *)

MCRecent ==
  { Plain,
    [r \in 1..10 |-> Observed("p2", 3 * r, 3 * r + 60, 3 * r + 61)],
    [r \in 1..10 |-> [Observed("p4", 7 * r, 7 * r, 7 * r + 1)
                        EXCEPT !.price = 9, !.competitor = 9, !.event = 5]],
    [r \in 1..4 |-> Observed("p1", 3 * r, 3 * r, 3 * r + 1)] }

----------------------------------------------------------------------------
(* Regressors: demand curves over the price relative to the competitors *)

Curve(at, slope) == [at |-> at, slope |-> slope]

Curves(low, mid, high) == [lower |-> low, central |-> mid, upper |-> high]

Kinds(calm, early, busy) == [calm |-> calm, early |-> early, busy |-> busy]

\* The kind of a feature row: by its event, or by the day of the decision.
Kind(x) ==
  IF x.event_intensity = 2 THEN "busy"
  ELSE IF (x.day_of_year - x.lead_time_days) % 2 = 0 THEN "early" ELSE "calm"

\* Demand reacts to the price and, from far ahead, to the lead.
MCPredicted(curves, x) ==
  LET curve == curves[Kind(x)]
      ratio == x.price_to_competitor_ratio
  IN  curve.at - (curve.slope * ((ratio.num \div ratio.den) - Listed)) \div 5
               - 4 * (x.lead_time_days \div 40)

\* Close to the outcomes.
Useful ==
  Curves(Kinds(Curve(8, 1), Curve(10, 1), Curve(16, 1)),
         Kinds(Curve(10, 1), Curve(12, 1), Curve(18, 1)),
         Kinds(Curve(11, 1), Curve(13, 1), Curve(19, 1)))

\* The ends cross, and are no occupancies at all.
Crossed ==
  Curves(Kinds(Curve(23, 0), Curve(15, 0), Curve(11, 0)),
         Kinds(Curve(20, 3), Curve(2, 0), Curve(11, 0)),
         Kinds(Curve(-6, 0), Curve(14, 0), Curve(11, 0)))

MCRegressors == {Useful, Crossed}

Champion(tenant, currency, contract, b, radius) ==
  [tenant |-> tenant, currency |-> currency, contract |-> contract,
   version |-> "v0", model |-> Fitted(b, radius)]

MCChampions ==
  { Champion("t1", "EUR", "f2", Crossed, 4),
    Champion("t1", "EUR", "f2", Useful, 0),
    Champion("t1", "EUR", "f1", Useful, 0) }
----------------------------------------------------------------------------
(* The default criteria, with the counts scaled to a handful of rows *)

SevenSlices == SliceNames \ {"location/known", "location/unknown"}

ResponseLimits ==
  [mean_price_response |-> 5, flat_price_response_rate |-> 800,
   upper_price_boundary_rate |-> 800, lower_price_boundary_rate |-> 500,
   any_price_boundary_rate |-> 850, mean_selected_price_change_pct |-> 250]

DefaultCriteria ==
  [minTestSamples |-> 9, minUniqueStays |-> 9, minSliceSamples |-> 1,
   minSliceUniqueStays |-> 1, maxIntervalCoverage |-> 995,
   regression |-> 5, boundaryRegression |-> 10, priceChangeDelta |-> 10,
   aggregate |-> ResponseLimits @@
     [occupancy_mae |-> 200, occupancy_r2 |-> 200, interval_coverage |-> 820,
      mean_interval_width |-> 600, expected_revenue_wape |-> 350],
   slice |-> ResponseLimits @@
     [occupancy_mae |-> 300, expected_revenue_wape |-> 500,
      interval_coverage |-> 700]]

\* A pipeline that was given laxer criteria than the registry applies.
LaxCriteria == [DefaultCriteria EXCEPT !.minTestSamples = 7, !.minUniqueStays = 7]

----------------------------------------------------------------------------
(* Runs that earlier releases logged *)

Good ==
  [x \in Metrics |->
     CASE x \in {"sample_size", "unique_stays"} -> Count(9)
       [] x \in {"interval_coverage", "occupancy_r2"} -> [num |-> 9, den |-> 10]
       [] OTHER -> [num |-> 1, den |-> 10]]

Without(m, names) == Restrict(m, DOMAIN m \ names)

OldEvidence(aggregate, slice) ==
  [aggregate |-> aggregate,
   slices |-> [s \in SliceNames |-> IF s = "event/active" THEN slice ELSE Good]]

OldRun(aggregate, slice) == Logged([p \in {NoPrefix} |-> OldEvidence(aggregate, slice)])

MCStoredRuns ==
  { OldRun(Good, Good),
    OldRun(Without(Good, {"occupancy_r2"}), Good),
    OldRun([Good EXCEPT !["unique_stays"] = NotANumber], Good),
    OldRun(Good, Without(Good, {"unique_stays"})),
    OldRun(Good, [Good EXCEPT !["sample_size"] = NotANumber]),
    OldRun(Good, Without(Good, {"flat_price_response_rate"})),
    OldRun(Good, Without(Good, {"expected_revenue_wape"})),
    OldRun(Good, [Good EXCEPT !["mean_price_response"] = NotANumber]) }
============================================================================
