------------------------- MODULE StatisticalProfile -------------------------
(***************************************************************************)
(* MarketEvidenceStatisticalV1 (application/statistical_service.py): one   *)
(* request of the stable profile, from the contract checks through the     *)
(* evidence gates to a recommendation or a typed abstention.               *)
(*                                                                         *)
(* A price is a whole number of 0.0001, the contract's finest amount.      *)
(* Similarities are whole numbers, so their sums are exact. Normalized     *)
(* weights are not: the code computes them in a decimal context of 28      *)
(* digits, rounding half up after every operation. The model does the same *)
(* with the digits that Unit leaves: TLC's integers have ten, a proof as   *)
(* many as it takes.                                                       *)
(***************************************************************************)
EXTENDS Integers, Sequences, FiniteSets, FiniteSetsExt, SequencesExt

CONSTANTS
  Requests,  \* the requests as they arrive, valid or not
  MaximumComparables,  \* MAX_COMPARABLES
  AsOf,      \* the cutoff, in ticks
  DayTicks,  \* ticks in a day
  Offset,    \* ticks the market's day begins before the UTC day
  Unit       \* one, in units of the last digit of the decimal context between
             \* 0.001 and 0.01: 10^30 with DECIMAL_PRECISION digits

Elements(s) == {s[i] : i \in DOMAIN s}
Ids(s) == {s[i].id : i \in DOMAIN s}

\* A request is a record of lists. The ids stand for strings and, like them, are
\* in a total order.
ASSUME ProfileConstants ==
  /\ {DayTicks, Unit, MaximumComparables} \subseteq Nat \ {0}
  /\ {AsOf, Offset} \subseteq Nat
  /\ \A r \in Requests :
       /\ r.profile \in {"statistical", "experimental"}
       /\ r.comparables \in Seq(Elements(r.comparables))
       /\ r.lineage \in Seq(Elements(r.lineage))
       /\ Ids(r.comparables) \subseteq Nat

VARIABLES
  request,     \* StatisticalPricingRequest
  phase,       \* where the evaluation stands
  evidence,    \* the comparables not excluded so far, by id
  exclusions,  \* exclusions[id]: the reasons why a comparable is not used
  outliers,    \* ids of the price outliers
  answer       \* the response

profileVars == <<request, phase, evidence, exclusions, outliers, answer>>

----------------------------------------------------------------------------
(* StatisticalPricingRequest: what the schema lets through. Formats of dates, *)
(* time zones, decimals, digests and identifiers are taken as well formed.    *)

\* staysMatch: the stay dates are number_of_nights apart.
ComparableAccepted(c) ==
  /\ c.similarity \in 0..100
  /\ c.price \in Nat \ {0}
  /\ c.observed \in Nat /\ c.known \in Nat /\ c.observed <= c.known
  /\ c.staysMatch

\* unpublished: publication_allowed and commercial_validation are false.
RequestAccepted(r) ==
  /\ {Len(r.comparables), Len(r.lineage)} \subseteq 1..MaximumComparables
  /\ \A i \in DOMAIN r.comparables : ComparableAccepted(r.comparables[i])
  /\ r.staysMatch
  /\ r.observed <= AsOf
  /\ r.unpublished

----------------------------------------------------------------------------
(* Decimals *)

HalfUp(n, d) == (2 * n + d) \div (2 * d)

\* n/d units, rounded to the digits of the context: the last digit of a value
\* from 0.001 to 9.99 is worth 1, 10, 100 or 1000 units. The least weight of 50
\* comparables of similarities from 40 to 100 is 40/4940, above 0.001.
Rounded(n, d) ==
  LET reaches(part) == n >= d * (Unit \div part)
      digit == IF reaches(1) THEN 1000 ELSE IF reaches(10) THEN 100
               ELSE IF reaches(100) THEN 10 ELSE 1
  IN  HalfUp(n, d * digit) * digit

\* n/d of raw similarities is exact; of normalized weights it is rounded.
Calculated(kind, n, d) == IF kind = "exact" THEN n \div d ELSE Rounded(n, d)

\* A comparison of two rounded numbers whose exact values are equal may go
\* either way.
AtLeast(n, m) == IF n = m THEN BOOLEAN ELSE {n > m}

----------------------------------------------------------------------------
(* Statistics of a sequence of comparables *)

Total(s) == SumFunction([i \in DOMAIN s |-> s[i].similarity])
Squares(s) == SumFunction([i \in DOMAIN s |-> s[i].similarity * s[i].similarity])

\* What s holds at these places, each behind what precedes it.
Arranged(s, places, precedes) ==
  [n \in 1..Cardinality(places) |->
     s[CHOOSE i \in places : Cardinality({j \in places : <<j, i>> \in precedes}) = n - 1]]

Pairs(s) == (DOMAIN s) \X (DOMAIN s)
ById(s) == {p \in Pairs(s) : s[p[1]].id < s[p[2]].id}
\* sorted is stable: equal prices stay in the order of their ids.
ByPrice(s) ==
  {p \in Pairs(s) : \/ s[p[1]].price < s[p[2]].price
                    \/ s[p[1]].price = s[p[2]].price /\ p[1] < p[2]}

\* What s holds at these places, in the order it has there.
At(s, places) == Arranged(s, places, {p \in Pairs(s) : p[1] < p[2]})

\* Hundredths, so that quarters of a sum are exact.
RawWeights(s) == [i \in DOMAIN s |-> 100 * s[i].similarity]
NormalizedWeights(s) == [i \in DOMAIN s |-> Rounded(Unit * s[i].similarity, Total(s))]

\* Mutant: the prices are sorted and the weights stay where they were.
SortedPricesOnly(s, weights) ==
  LET sorted == Arranged(s, DOMAIN s, ByPrice(s))
  IN  [i \in DOMAIN s |-> [price |-> sorted[i].price, weight |-> weights[i]]]

Sorted(s, weights) ==
  Arranged([i \in DOMAIN s |-> [price |-> s[i].price, weight |-> weights[i]]],
           DOMAIN s, ByPrice(s))

\* The sums of the first weights.
Cumulative(pairs, kind) ==
  LET sum[k \in 0..Len(pairs)] ==
        IF k = 0 THEN 0 ELSE Calculated(kind, sum[k - 1] + pairs[k].weight, 1)
  IN  sum

WeightedPercentile(s, weights, percent, kind) ==
  LET pairs == Sorted(s, weights)
      sum == Cumulative(pairs, kind)
      threshold == Calculated(kind, percent * sum[Len(pairs)], 100)
      reaching == {k \in DOMAIN pairs : sum[k] >= threshold}
  IN  pairs[Min(reaching \cup {Len(pairs)})].price

\* Mutant: the fences are drawn from the quartiles of the prices' order.
UnweightedOutliers(s) ==
  LET ones == [i \in DOMAIN s |-> 100]
      q25 == WeightedPercentile(s, ones, 25, "exact")
      q75 == WeightedPercentile(s, ones, 75, "exact")
  IN  IF Len(s) < 4 THEN {}
      ELSE {s[i].id : i \in {j \in DOMAIN s :
             \/ 2 * s[j].price < 2 * q25 - 3 * (q75 - q25)
             \/ 2 * s[j].price > 2 * q75 + 3 * (q75 - q25)}}

Outliers(s) ==
  LET q25 == WeightedPercentile(s, RawWeights(s), 25, "exact")
      q75 == WeightedPercentile(s, RawWeights(s), 75, "exact")
  IN  IF Len(s) < 4 THEN {}
      ELSE {s[i].id : i \in {j \in DOMAIN s :
             \/ 2 * s[j].price < 2 * q25 - 3 * (q75 - q25)
             \/ 2 * s[j].price > 2 * q75 + 3 * (q75 - q25)}}

----------------------------------------------------------------------------
(* validate *)

\* Mutant: the lineage may hold more than the evidence.
LineageCovers(r) ==
  /\ IsInjective([i \in DOMAIN r.lineage |-> r.lineage[i].id])
  /\ {r.comparables[i].source : i \in DOMAIN r.comparables}
       \subseteq {r.lineage[i].source : i \in DOMAIN r.lineage}

LineageMatches(r) ==
  /\ IsInjective([i \in DOMAIN r.lineage |-> r.lineage[i].id])
  /\ IsInjective([i \in DOMAIN r.lineage |-> r.lineage[i].source])
  /\ {r.comparables[i].source : i \in DOMAIN r.comparables}
       = {r.lineage[i].source : i \in DOMAIN r.lineage}

\* agrees: same currency, timezone, dates, nights and guests as the request.
ComparableHolds(c) == c.agrees /\ c.observed <= AsOf /\ c.known <= AsOf /\ c.usable

ContractHolds(r) ==
  /\ r.current
  /\ IsInjective([i \in DOMAIN r.comparables |-> r.comparables[i].id])
  /\ IsInjective([i \in DOMAIN r.comparables |-> r.comparables[i].source.observation])
  /\ LineageMatches(r)
  /\ \A i \in DOMAIN r.comparables : ComparableHolds(r.comparables[i])

----------------------------------------------------------------------------
(* _recommend *)

NoAnswer == [status |-> "none", reason |-> "none", band |-> <<>>,
             recommendation |-> 0, quality |-> "none"]

\* Mutant: an abstention is graded like a recommendation.
AbstainGraded(reason) ==
  /\ phase' = "done"
  /\ answer' = [NoAnswer EXCEPT !.status = "abstained", !.reason = reason, !.quality = "LOW"]

Abstain(reason) ==
  /\ phase' = "done"
  /\ answer' = [NoAnswer EXCEPT !.status = "abstained", !.reason = reason,
                                !.quality = "INSUFFICIENT"]

RejectContract ==
  /\ phase = "received"
  /\ request.profile = "statistical"
  /\ ~ContractHolds(request)
  /\ phase' = "done"
  /\ answer' = [NoAnswer EXCEPT !.status = "contract error"]
  /\ UNCHANGED <<request, evidence, exclusions, outliers>>

AbstainFromProfile ==
  /\ phase = "received"
  /\ request.profile # "statistical"
  /\ Abstain("UNSUPPORTED_PROFILE")
  /\ exclusions' = [id \in Ids(request.comparables) |-> {"UNSUPPORTED_PROFILE"}]
  /\ UNCHANGED <<request, evidence, outliers>>

MarketDay(tick) == (tick + Offset) \div DayTicks
AgeDays(c) == MarketDay(AsOf) - MarketDay(c.observed)

Faults(c) ==
  {f \in {"STALE_EVIDENCE", "LOW_SIMILARITY"} :
     \/ f = "STALE_EVIDENCE" /\ AgeDays(c) > 90
     \/ f = "LOW_SIMILARITY" /\ c.similarity < 40}

\* The comparables in the order of their ids, and the places of those at fault.
Ordered(r) == Arranged(r.comparables, DOMAIN r.comparables, ById(r.comparables))
FaultyPlaces(s) == {i \in DOMAIN s : Faults(s[i]) # {}}

Screen ==
  /\ phase = "received"
  /\ request.profile = "statistical"
  /\ ContractHolds(request)
  /\ LET byId == Ordered(request)
         faulty == FaultyPlaces(byId)
     IN  /\ evidence' = At(byId, DOMAIN byId \ faulty)
         /\ exclusions' = [id \in {byId[i].id : i \in faulty} |->
                             UNION {Faults(byId[i]) : i \in {j \in faulty : byId[j].id = id}}]
         /\ \/ evidence' # <<>> /\ phase' = "screened" /\ UNCHANGED answer
            \/ /\ evidence' = <<>>
               /\ IF \E i \in faulty : "STALE_EVIDENCE" \in Faults(byId[i])
                  THEN Abstain("STALE_EVIDENCE") ELSE Abstain("LOW_SIMILARITY")
  /\ UNCHANGED <<request, outliers>>

\* Mutant: an outlier is left out without a reason.
NoReasonGiven(ids) == exclusions

WithOutliers(ids) ==
  [id \in DOMAIN exclusions \cup ids |->
     IF id \in ids THEN {"OUTLIER_EXCLUDED_BY_WEIGHTED_TUKEY_V1"} ELSE exclusions[id]]

ExcludeOutliers ==
  /\ phase = "screened"
  /\ LET ids == Outliers(evidence)
     IN  /\ outliers' = ids
         /\ exclusions' = WithOutliers(ids)
         /\ evidence' = At(evidence, {i \in DOMAIN evidence : evidence[i].id \notin ids})
  /\ \/ Len(evidence') < 3 /\ Abstain("INSUFFICIENT_COMPARABLES")
     \/ Len(evidence') >= 3 /\ phase' = "trimmed" /\ UNCHANGED answer
  /\ UNCHANGED request

\* Similarities are 40 or more here, so the weights never add up to nothing.
EffectiveSampleSize(numerator, denominator) ==
  AtLeast(denominator * Total(evidence) * Total(evidence), numerator * Squares(evidence))

WeighEvidence ==
  /\ phase = "trimmed"
  /\ \E effective \in EffectiveSampleSize(5, 2) :
       \/ ~effective /\ Abstain("LOW_EFFECTIVE_SAMPLE_SIZE")
       \/ /\ effective /\ Total(evidence) < 55 * Len(evidence)
          /\ Abstain("LOW_SIMILARITY")
       \/ /\ effective /\ Total(evidence) >= 55 * Len(evidence)
          /\ phase' = "weighed" /\ UNCHANGED answer
  /\ UNCHANGED <<request, evidence, exclusions, outliers>>

Percentile(percent) ==
  WeightedPercentile(evidence, NormalizedWeights(evidence), percent, "rounded")

\* Is the dispersion (p75 - p25) / p50 at most this many hundredths?
DispersionWithin(hundredths) ==
  100 * (Percentile(75) - Percentile(25)) <= hundredths * Percentile(50)

Qualifies(count, size, similarity, hundredths) ==
  IF /\ Len(evidence) >= count
     /\ Total(evidence) >= similarity * Len(evidence)
     /\ DispersionWithin(hundredths)
  THEN EffectiveSampleSize(size, 1) ELSE {FALSE}

\* _quality
Qualities ==
  {IF high THEN "HIGH" ELSE IF moderate THEN "MODERATE" ELSE "LOW" :
     high \in Qualifies(8, 6, 80, 35), moderate \in Qualifies(5, 4, 65, 60)}

\* Money is rounded to 0.01, a hundred units of 0.0001.
Money(amount) == 100 * HalfUp(amount, 100)
Band == <<Money(Percentile(25)), Money(Percentile(50)), Money(Percentile(75))>>

StrategyPoint == [conservative |-> 1, balanced |-> 2, premium |-> 3]

Recommend ==
  /\ phase = "weighed"
  /\ \/ ~DispersionWithin(100) /\ Abstain("EXCESSIVE_DISPERSION")
     \/ /\ DispersionWithin(100)
        /\ \E quality \in Qualities :
             answer' = [status |-> "recommended", reason |-> "none", band |-> Band,
                        recommendation |-> Band[StrategyPoint[request.strategy]],
                        quality |-> quality]
        /\ phase' = "done"
  /\ UNCHANGED <<request, evidence, exclusions, outliers>>

----------------------------------------------------------------------------
ProfileIdle ==
  /\ phase = "not called"
  /\ request = <<>> /\ evidence = <<>> /\ exclusions = <<>> /\ outliers = {}
  /\ answer = NoAnswer

\* The call of recommend.
Receive(r) ==
  /\ phase = "not called"
  /\ request' = r
  /\ phase' = "received"
  /\ UNCHANGED <<evidence, exclusions, outliers, answer>>

ProfileNext ==
  \/ RejectContract
  \/ AbstainFromProfile
  \/ Screen
  \/ ExcludeOutliers
  \/ WeighEvidence
  \/ Recommend

----------------------------------------------------------------------------
(* Properties *)

Reasons == {"STALE_EVIDENCE", "LOW_SIMILARITY", "UNSUPPORTED_PROFILE",
            "OUTLIER_EXCLUDED_BY_WEIGHTED_TUKEY_V1"}

ProfileTypeOK ==
  /\ request.profile \in {"statistical", "experimental"}
  /\ phase \in {"received", "screened", "trimmed", "weighed", "done"}
  /\ Elements(evidence) \subseteq Elements(request.comparables)
  /\ exclusions \in [DOMAIN exclusions -> SUBSET Reasons]
  /\ outliers \subseteq Ids(request.comparables)
  /\ answer.status \in {"none", "contract error", "abstained", "recommended"}
  /\ answer.status = "none" <=> phase # "done"
  /\ Len(answer.band) = (IF answer.status = "recommended" THEN 3 ELSE 0)
  /\ answer.quality = "INSUFFICIENT" <=> answer.status = "abstained"

\* A price rests only on evidence that was observed, then known, no later than
\* the cutoff, that is usable and whose stay is consistent; and every piece of
\* it has one entry in a lineage that names nothing else.
SoundEvidence ==
  answer.status = "recommended" =>
    /\ Len(request.lineage) = Len(request.comparables)
    /\ \A i \in DOMAIN evidence :
         /\ evidence[i].observed <= evidence[i].known /\ evidence[i].known <= AsOf
         /\ evidence[i].usable /\ evidence[i].agrees /\ evidence[i].staysMatch
         /\ Cardinality({j \in DOMAIN request.lineage :
                           request.lineage[j].source = evidence[i].source}) = 1

\* In every response, abstentions included, a comparable is either used or
\* excluded with a reason, and the outliers are among the excluded.
ExclusionsExplained ==
  answer.status \in {"abstained", "recommended"} =>
    /\ DOMAIN exclusions = Ids(request.comparables) \ Ids(evidence)
    /\ \A id \in DOMAIN exclusions : exclusions[id] # {}
    /\ outliers \subseteq DOMAIN exclusions

\* The weight of the evidence at or below a price, and the two weighted
\* quantiles it defines: left-continuous, as documented, and right-continuous.
Mass(s, p) ==
  SumFunction([i \in {j \in DOMAIN s : s[j].price <= p} |-> s[i].similarity])
Prices(s) == {s[i].price : i \in DOMAIN s}
LeftQuantile(s, percent) ==
  Min({p \in Prices(s) : 100 * Mass(s, p) >= percent * Total(s)})
RightQuantile(s, percent) ==
  Min({p \in Prices(s) : 100 * Mass(s, p) > percent * Total(s)})

\* Rounding the normalized weights never moves a point of the band past the
\* next observed price, nor below the quantile: each point lies between the two
\* quantiles of the similarities as they were sent.
BandBetweenQuantiles ==
  answer.status = "recommended" =>
    /\ answer.band[1] <= answer.band[2] /\ answer.band[2] <= answer.band[3]
    /\ \A i \in 1..3 :
         /\ Money(LeftQuantile(evidence, 25 * i)) <= answer.band[i]
         /\ answer.band[i] <= Money(RightQuantile(evidence, 25 * i))

\* The band holds the left-continuous quantiles of the similarities: dividing
\* them by their sum leaves the percentiles unchanged.
BandIsExact ==
  answer.status = "recommended" =>
    \A i \in 1..3 : answer.band[i] = Money(LeftQuantile(evidence, 25 * i))

\* The comparables the evidence policy leaves of a request, said without the
\* stages that find them.
Eligible(r) ==
  LET s == r.comparables
  IN  At(s, {i \in DOMAIN s : AgeDays(s[i]) <= 90 /\ s[i].similarity >= 40})
InsideFences(s) ==
  LET q25 == LeftQuantile(s, 25)
      q75 == LeftQuantile(s, 75)
  IN  At(s, {i \in DOMAIN s : /\ 2 * s[i].price >= 2 * q25 - 3 * (q75 - q25)
                              /\ 2 * s[i].price <= 2 * q75 + 3 * (q75 - q25)})
Kept(r) ==
  IF Len(Eligible(r)) < 4 THEN Eligible(r) ELSE InsideFences(Eligible(r))

Gates(s) ==
  /\ Len(s) >= 3
  /\ 2 * Total(s) * Total(s) >= 5 * Squares(s)
  /\ Total(s) >= 55 * Len(s)

\* There is no fallback and no second chance: a recommendation uses exactly the
\* comparables the policy leaves and these pass every gate; evidence that passes
\* every gate with room to spare is never turned down.
GatesDecide ==
  /\ answer.status = "recommended" =>
       Elements(evidence) = Elements(Kept(request)) /\ Gates(evidence)
  /\ answer.status = "abstained" /\ request.profile = "statistical" =>
       LET kept == Kept(request)
       IN  \/ ~Gates(kept)
           \/ 2 * Total(kept) * Total(kept) = 5 * Squares(kept)
           \/ RightQuantile(kept, 75) - LeftQuantile(kept, 25) > LeftQuantile(kept, 50)
============================================================================
