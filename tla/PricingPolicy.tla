--------------------------- MODULE PricingPolicy ---------------------------
(***************************************************************************)
(* RecommendPrice.execute (application/recommendation_service.py) and the  *)
(* PricingPolicy it calls (domain/policies.py): one request of the         *)
(* performance-aware profile, from the context that is built of it         *)
(* (domain/models.py) through its scope checks to the price.               *)
(*                                                                         *)
(* Money is a whole number of the smallest unit, a change limit and an     *)
(* occupancy are per cent. The code computes the bounds of the grid with   *)
(* decimals that are exact for such amounts; here they are hundredths.     *)
(***************************************************************************)
EXTENDS Integers, FiniteSets, FiniteSetsExt

CONSTANTS
  Predictors,        \* what the loaded models declare: tenants and currency
  Payloads,          \* the requests as they arrive, valid or not
  Occupancies,       \* expected occupancies a predictor returns, per cent
  NoModel,           \* no champion is loaded
  NoMinimum,         \* min_expected_occupancy is not given
  MaximumCandidates  \* recommendation_max_candidates

ASSUME PolicyConstants ==
  /\ \A c \in Payloads : {c.asOf, c.stay} \subseteq Int
  /\ Occupancies \subseteq 0..100
  /\ NoMinimum \notin Int
  /\ NoModel \notin Predictors
  /\ MaximumCandidates \in Nat

VARIABLES
  context,    \* PricingContext
  predictor,  \* the predictor of the container's service
  progress,   \* where the use case stands, or how it ended
  prices,     \* the candidate grid
  demand,     \* demand[p]: expected occupancy at p, as predicted
  selected    \* the recommended price, 0 until there is one

policyVars == <<context, predictor, progress, prices, demand, selected>>

----------------------------------------------------------------------------
(* The schema of a request, and the context that is built of it *)

\* PriceConstraints and the current price.
PricesHold(c) ==
  /\ {c.current, c.minimum, c.maximum, c.increment} \subseteq Nat \ {0}
  /\ c.minimum <= c.maximum
  /\ c.change \in 0..35
  /\ c.occupancy \in (0..100) \cup {NoMinimum}

Coordinates == [latitude |-> -90..90, longitude |-> -180..180]
SignalRange ==
  [historical_occupancy_7d |-> 0..100, booking_pace_7d |-> 0..100,
   competitor_price_median |-> Nat \ {0}, event_intensity |-> 0..5,
   review_score |-> 0..5, bedrooms |-> 0..20, accommodates |-> 1..50]

\* Every signal in its range, and coordinates both or neither.
SignalsHold(s) ==
  /\ DOMAIN s \in {DOMAIN SignalRange, DOMAIN SignalRange \cup DOMAIN Coordinates}
  /\ \A x \in DOMAIN SignalRange : s[x] \in SignalRange[x]
  /\ \A x \in DOMAIN s \cap DOMAIN Coordinates : s[x] \in Coordinates[x]

\* PricingRecommendationRequest
SchemaAccepts(c) == PricesHold(c) /\ SignalsHold(c.signals)

\* PricingContext asks for the same again, and for more.
ContextHolds(c) ==
  /\ SchemaAccepts(c)
  /\ c.printable
  /\ c.asOf <= c.stay

----------------------------------------------------------------------------
(* feasible_prices *)

Floor(n, d) == n \div d
Ceiling(n, d) == -((-n) \div d)

\* The tightest bounds, in hundredths.
LowerBound(c) == Max({100 * c.minimum, c.current * (100 - c.change)})
UpperBound(c) == Min({100 * c.maximum, c.current * (100 + c.change)})

\* Mutant: the upper bound is rounded like the lower one.
LastMultipleUp(c) == Ceiling(UpperBound(c), 100 * c.increment)

FirstMultiple(c) == Ceiling(LowerBound(c), 100 * c.increment)
LastMultiple(c) == Floor(UpperBound(c), 100 * c.increment)

Grid(c) == {k * c.increment : k \in FirstMultiple(c)..LastMultiple(c)}
GridSize(c) == LastMultiple(c) - FirstMultiple(c) + 1

----------------------------------------------------------------------------
(* select *)

Revenue(p) == p * demand[p]

OccupancySuffices(p) ==
  context.occupancy = NoMinimum \/ demand[p] >= context.occupancy

Feasible == {p \in prices : OccupancySuffices(p)}

\* Mutant: of two equal revenues the later candidate wins.
PrefersHigher(p, q) ==
  Revenue(p) > Revenue(q) \/ (Revenue(p) = Revenue(q) /\ p >= q)

\* The key of max: the revenue, then the lower price.
Prefers(p, q) ==
  Revenue(p) > Revenue(q) \/ (Revenue(p) = Revenue(q) /\ p <= q)

----------------------------------------------------------------------------
(* execute *)

End(how) ==
  progress' = how /\ UNCHANGED <<context, predictor, prices, demand, selected>>

RefuseContext ==
  /\ progress = "requested"
  /\ ~ContextHolds(context)
  /\ End("invalid")

CheckScope ==
  /\ progress = "requested"
  /\ ContextHolds(context)
  /\ predictor # NoModel
  /\ context.tenant \in predictor.tenants
  /\ context.currency = predictor.currency
  /\ progress' = "scoped"
  /\ UNCHANGED <<context, predictor, prices, demand, selected>>

RefuseScope ==
  /\ progress = "requested"
  /\ ContextHolds(context)
  /\ \/ predictor = NoModel /\ End("model unavailable")
     \/ /\ predictor # NoModel
        /\ context.tenant \notin predictor.tenants \/ context.currency # predictor.currency
        /\ End("out of scope")

FeasiblePrices ==
  /\ progress = "scoped"
  /\ FirstMultiple(context) <= LastMultiple(context)
  /\ GridSize(context) <= MaximumCandidates
  /\ prices' = Grid(context)
  /\ progress' = "priced"
  /\ UNCHANGED <<context, predictor, demand, selected>>

RefuseGrid ==
  /\ progress = "scoped"
  /\ \/ FirstMultiple(context) > LastMultiple(context) /\ End("no price")
     \/ GridSize(context) > MaximumCandidates /\ End("too many prices")

\* External: the model predicts any occupancy for any price.
Predict ==
  /\ progress = "priced"
  /\ demand' \in [prices -> Occupancies]
  /\ progress' = "predicted"
  /\ UNCHANGED <<context, predictor, prices, selected>>

\* External: it raises what the use case does not expect.
PredictionFails == progress = "priced" /\ End("failed")

Select ==
  /\ progress = "predicted"
  /\ \E p \in Feasible :
       /\ \A q \in Feasible : Prefers(p, q)
       /\ selected' = p
  /\ progress' = "selected"
  /\ UNCHANGED <<context, predictor, prices, demand>>

\* External: the explanation of the selected price, with which the use case ends.
Explain == progress = "selected" /\ End("recommended")

\* A price without its explanation is not recommended.
ExplanationFails == progress = "selected" /\ End("unexplained")

RefuseDemand ==
  /\ progress = "predicted"
  /\ Feasible = {}
  /\ End("no demand")

----------------------------------------------------------------------------
PolicyIdle ==
  /\ progress = "not called"
  /\ context = <<>> /\ predictor = <<>> /\ prices = {} /\ demand = <<>> /\ selected = 0

\* The call of the use case, with the predictor of the container's service.
Execute(c, p) ==
  /\ progress = "not called"
  /\ context' = c
  /\ predictor' = p
  /\ progress' = "requested"
  /\ UNCHANGED <<prices, demand, selected>>

PolicyNext ==
  \/ RefuseContext
  \/ CheckScope
  \/ RefuseScope
  \/ FeasiblePrices
  \/ RefuseGrid
  \/ Predict
  \/ PredictionFails
  \/ Select
  \/ Explain
  \/ ExplanationFails
  \/ RefuseDemand

----------------------------------------------------------------------------
(* Properties *)

Steps == {"requested", "scoped", "priced", "predicted", "selected", "recommended",
          "invalid", "model unavailable", "out of scope", "no price",
          "too many prices", "no demand", "failed", "unexplained"}

PolicyTypeOK ==
  /\ {context.current, context.minimum, context.maximum} \subseteq Nat \ {0}
  /\ predictor \in Predictors \cup {NoModel}
  /\ progress \in Steps
  /\ prices \subseteq Nat \ {0}
  /\ progress \in {"predicted", "selected", "recommended", "unexplained", "no demand"} =>
       demand \in [prices -> 0..100]
  /\ selected \in Nat

\* What a price of a request must satisfy, said without a grid: whole steps of
\* the increment, within the bounds, and within the change limit of the current
\* price.
Permitted(c, p) ==
  /\ p % c.increment = 0
  /\ c.minimum <= p /\ p <= c.maximum
  /\ c.current * (100 - c.change) <= 100 * p
  /\ 100 * p <= c.current * (100 + c.change)

\* A recommended price is permitted, for a tenant and a currency the model is
\* scoped to, and no other permitted price with enough occupancy earns more, or
\* as much at a lower price: rounding the bounds to the increment loses none.
BestPermittedPrice ==
  progress = "recommended" =>
    /\ context.tenant \in predictor.tenants /\ context.currency = predictor.currency
    /\ Permitted(context, selected) /\ OccupancySuffices(selected)
    /\ \A p \in 1..context.maximum :
         Permitted(context, p) =>
           /\ p \in DOMAIN demand
           /\ OccupancySuffices(p) =>
                /\ Revenue(p) <= Revenue(selected)
                /\ Revenue(p) = Revenue(selected) => selected <= p

\* A request is refused for want of a price only if none is permitted, and for
\* too many only if there are too many. What the schema let through is refused
\* as a context only for its dates or an identifier.
RefusedForCause ==
  LET permitted == {p \in 1..context.maximum : Permitted(context, p)}
  IN  /\ progress = "no price" => permitted = {}
      /\ progress = "too many prices" => Cardinality(permitted) > MaximumCandidates
      /\ progress = "no demand" => \A p \in permitted : ~OccupancySuffices(p)
      /\ progress = "invalid" => ~context.printable \/ context.asOf > context.stay
============================================================================
