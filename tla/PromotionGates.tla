--------------------------- MODULE PromotionGates ---------------------------
(***************************************************************************)
(* The deterministic promotion gates (PromotionCriteria of                 *)
(* application/evaluation.py) and the flat mapping in which MLflow keeps   *)
(* the evidence they judge (as_dict, from_mapping).                        *)
(*                                                                         *)
(* Evidence e has e.aggregate, from metric names to fractions, and         *)
(* e.slices, from slice names to such functions; a metric that is None is  *)
(* not in the domain. Criteria c has limits in thousandths under the name  *)
(* of the metric they bound, c.aggregate and c.slice, and plain counts.    *)
(***************************************************************************)
EXTENDS Integers

CONSTANT RequiredSlices  \* required_slices

Finite(v) == v.den # 0
Below(v, limit) == v.num * 1000 < limit * v.den
Exceeds(v, limit) == v.num * 1000 > limit * v.den
FewerThan(v, n) == v.num < n * v.den
Unsigned(v) == [v EXCEPT !.num = IF v.num < 0 THEN -v.num ELSE v.num]

----------------------------------------------------------------------------
(* Controlled price response: six metrics that are judged together *)

PriceResponse ==
  {"mean_price_response", "flat_price_response_rate", "upper_price_boundary_rate",
   "lower_price_boundary_rate", "any_price_boundary_rate",
   "mean_selected_price_change_pct"}

BoundaryRates ==
  {"upper_price_boundary_rate", "lower_price_boundary_rate", "any_price_boundary_rate"}

ResponseWithinLimits(m, limit) ==
  /\ ~Below(m["mean_price_response"], limit["mean_price_response"])
  /\ \A x \in BoundaryRates \cup {"flat_price_response_rate"} : ~Exceeds(m[x], limit[x])
  /\ ~Exceeds(Unsigned(m["mean_selected_price_change_pct"]),
              limit["mean_selected_price_change_pct"])

\* Mutant: evidence that is missing is not held against the model.
ResponsePassesIfMeasured(m, limit) ==
  PriceResponse \subseteq DOMAIN m =>
    /\ \A x \in PriceResponse : Finite(m[x])
    /\ ResponseWithinLimits(m, limit)

ResponsePasses(m, limit) ==
  /\ PriceResponse \subseteq DOMAIN m
  /\ \A x \in PriceResponse : Finite(m[x])
  /\ ResponseWithinLimits(m, limit)

----------------------------------------------------------------------------
(* The gates *)

AlwaysMeasured ==
  {"occupancy_mae", "occupancy_rmse", "occupancy_r2", "interval_coverage",
   "mean_interval_width", "expected_revenue_mae"}

AggregatePasses(a, c) ==
  /\ \A x \in AlwaysMeasured : Finite(a[x])
  /\ ~FewerThan(a["sample_size"], c.minTestSamples)
  /\ "unique_stays" \in DOMAIN a /\ ~FewerThan(a["unique_stays"], c.minUniqueStays)
  /\ ~Exceeds(a["occupancy_mae"], c.aggregate["occupancy_mae"])
  /\ ~Below(a["occupancy_r2"], c.aggregate["occupancy_r2"])
  /\ ~Below(a["interval_coverage"], c.aggregate["interval_coverage"])
  /\ ~Exceeds(a["interval_coverage"], c.maxIntervalCoverage)
  /\ ~Exceeds(a["mean_interval_width"], c.aggregate["mean_interval_width"])
  /\ "expected_revenue_wape" \in DOMAIN a /\ Finite(a["expected_revenue_wape"])
  /\ ~Exceeds(a["expected_revenue_wape"], c.aggregate["expected_revenue_wape"])
  /\ ResponsePasses(a, c.aggregate)

RequiredSlicesPass(slices, c) ==
  \A s \in RequiredSlices :
    /\ s \in DOMAIN slices
    /\ ~FewerThan(slices[s]["sample_size"], c.minSliceSamples)
    /\ "unique_stays" \in DOMAIN slices[s]
    /\ ~FewerThan(slices[s]["unique_stays"], c.minSliceUniqueStays)

\* A slice of little evidence is not judged by its metrics.
TooThinToJudge(m, c) ==
  \/ FewerThan(m["sample_size"], c.minSliceSamples)
  \/ FewerThan(m[IF "unique_stays" \in DOMAIN m THEN "unique_stays" ELSE "sample_size"],
               c.minSliceUniqueStays)

SlicePasses(m, c) ==
  /\ \A x \in {"occupancy_mae", "interval_coverage", "expected_revenue_wape"} : Finite(m[x])
  /\ \/ TooThinToJudge(m, c)
     \/ /\ ~Exceeds(m["occupancy_mae"], c.slice["occupancy_mae"])
        /\ ~Exceeds(m["expected_revenue_wape"], c.slice["expected_revenue_wape"])
        /\ ~Below(m["interval_coverage"], c.slice["interval_coverage"])
        /\ ResponsePasses(m, c.slice)

\* v > w * (1 + percent / 100)
RegressesBy(v, w, percent) == v.num * w.den * 100 > w.num * v.den * (100 + percent)

\* v - w > percent / 100
Outgrows(v, w, percent) ==
  (v.num * w.den - w.num * v.den) * 100 > percent * v.den * w.den

\* Candidate a against champion b, on the same holdout.
NoRegression(a, b, c) ==
  LET Both(x) == x \in DOMAIN a \cap DOMAIN b
      change == "mean_selected_price_change_pct"
  IN  /\ ~RegressesBy(a["occupancy_mae"], b["occupancy_mae"], c.regression)
      /\ Both("expected_revenue_wape") =>
           ~RegressesBy(a["expected_revenue_wape"], b["expected_revenue_wape"], c.regression)
      /\ \A x \in BoundaryRates : Both(x) => ~Outgrows(a[x], b[x], c.boundaryRegression)
      /\ Both(change) => /\ ~Outgrows(a[change], b[change], c.priceChangeDelta)
                         /\ ~Outgrows(b[change], a[change], c.priceChangeDelta)

\* Without the comparison, for which there may be no champion.
PassesAlone(e, c) ==
  /\ AggregatePasses(e.aggregate, c)
  /\ RequiredSlicesPass(e.slices, c)
  /\ \A s \in DOMAIN e.slices : SlicePasses(e.slices[s], c)

----------------------------------------------------------------------------
(* Storage: a run maps <<prefix, owner, metric>> to a value *)

SliceEssentials ==
  {"occupancy_mae", "interval_coverage", "expected_revenue_wape", "sample_size"}

Metrics ==
  AlwaysMeasured \cup PriceResponse \cup SliceEssentials \cup {"unique_stays"}

\* The prefix of the metrics that are read back.
NoPrefix == ""

Owners(e) == {"aggregate"} \cup DOMAIN e.slices
Of(e, owner) == IF owner = "aggregate" THEN e.aggregate ELSE e.slices[owner]

\* The run that logs, under each prefix p, the evidence tables[p].
Logged(tables) ==
  LET KeysOf(p, owner) == {<<p, owner, x>> : x \in DOMAIN Of(tables[p], owner)}
      AllKeysOf(p) == UNION {KeysOf(p, owner) : owner \in Owners(tables[p])}
      keys == UNION {AllKeysOf(p) : p \in DOMAIN tables}
  IN  [key \in keys |-> Of(tables[key[1]], key[2])[key[3]]]

\* The metrics of an owner, by the names that carry no prefix.
Unflattened(run, owner) ==
  [x \in {y \in Metrics : <<NoPrefix, owner, y>> \in DOMAIN run} |-> run[<<NoPrefix, owner, x>>]]

\* A slice without its essential metrics is dropped.
WholeSlices(run) ==
  LET owners == {key[2] : key \in {k \in DOMAIN run : k[1] = NoPrefix}}
  IN  {s \in owners \ {"aggregate"} : SliceEssentials \subseteq DOMAIN Unflattened(run, s)}

FromMapping(run) ==
  [aggregate |-> Unflattened(run, "aggregate"),
   slices |-> [s \in WholeSlices(run) |-> Unflattened(run, s)]]

\* int() of a count that is not a number raises.
CountsAreFinite(m) ==
  \A x \in {"sample_size", "unique_stays"} \cap DOMAIN m : Finite(m[x])

\* from_mapping raises otherwise.
Readable(run) ==
  /\ \A x \in AlwaysMeasured \cup {"sample_size"} : <<NoPrefix, "aggregate", x>> \in DOMAIN run
  /\ \A owner \in {"aggregate"} \cup WholeSlices(run) :
       CountsAreFinite(Unflattened(run, owner))
============================================================================
