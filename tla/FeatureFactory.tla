--------------------------- MODULE FeatureFactory ---------------------------
(***************************************************************************)
(* The feature rows a demand model is trained, evaluated and served on     *)
(* (infrastructure/features.py): build_training_features for observations, *)
(* for_candidate_prices for a pricing context, and the price grid that     *)
(* _evaluate_on_test_partition makes by editing test rows.                 *)
(*                                                                         *)
(* Observations and contexts are records of the same columns. "signals"    *)
(* stands for the five columns passed through unchanged (occupancy, pace,  *)
(* bedrooms, accommodates, review score), coordinates are known or not,    *)
(* and month and season are functions of the day of the year. Rows hold    *)
(* prices in hundredths of the unit of the columns.                        *)
(***************************************************************************)
EXTENDS Integers

\* The candidate price is the price that was listed.
Listed == 100

OneIf(condition) == IF condition THEN 1 ELSE 0

Ratio(price, competitor) == [num |-> price, den |-> competitor]

\* _assemble
Assemble(price, lead, c) ==
  [candidate_price |-> price,
   lead_time_days |-> lead,
   signals |-> c.signals,
   competitor_price_median |-> c.competitor,
   price_to_competitor_ratio |-> Ratio(price, c.competitor),
   is_holiday |-> OneIf(c.holiday),
   event_intensity |-> c.event,
   location_known |-> OneIf(c.located),
   stay_day_of_week |-> c.stay % 7,
   day_of_year |-> c.stay % 365]

\* build_training_features, for one observation.
TrainingRow(o) == Assemble(Listed * o.price, o.stay - o.asOf, o)

\* for_candidate_prices, for one price in hundredths.
CandidateRow(context, price) ==
  Assemble(price, context.stay - context.asOf, context)

\* A test row with the listed price changed to k per cent of itself.
GridRow(x, k) ==
  LET price == (x.candidate_price \div Listed) * k
  IN  [x EXCEPT !.candidate_price = price,
                !.price_to_competitor_ratio = Ratio(price, x.competitor_price_median)]
============================================================================
