------------------------- MODULE RetrainingAttempt -------------------------
(***************************************************************************)
(* The offline commands train, retrain and the gate of promote, end to     *)
(* end: TrainDemandModel.execute splits a frame (ChronologicalSplit), fits *)
(* and calibrates a model (DemandModel), evaluates it and the champion on  *)
(* the test partition (HoldoutEvaluation); RetrainingPipeline.execute and  *)
(* log_candidate apply the gates and store the evidence, and promote reads *)
(* the evidence back and judges it again (PromotionGates). The command     *)
(* drift compares a frame, as a baseline, with recent ones (DriftReport).  *)
(*                                                                         *)
(* What the registry does with versions, tags and aliases is ModelRegistry.*)
(***************************************************************************)
EXTENDS ChronologicalSplit, HoldoutEvaluation, PromotionGates, DriftReport

CONSTANTS
  Regressors,        \* what fitting may produce
  Champions,         \* the champion models a registry may hold
  FeatureContract,   \* VERSION and SCHEMA_HASH of the feature factory
  PipelineCriteria,  \* the criteria of RetrainingPipeline
  RegistryCriteria,  \* the default criteria, which the registry applies
  StoredRuns,        \* metrics of runs that earlier releases logged
  Recent             \* frames of recent observations

\* What the schema leaves of a frame, and what a regressor is defined on.
ASSUME AttemptConstants ==
  /\ \A f \in Frames : \A r \in Rows :
       f[r].occupancy \in 0..Full /\ f[r].event \in Nat
       /\ f[r].price \in Nat \ {0} /\ f[r].competitor \in Nat \ {0}
  /\ \A b \in Regressors : \A f \in Frames : \A r \in Rows :
       LET x == TrainingRow(f[r])
       IN  {Predicted(b.lower, x), Predicted(b.central, x), Predicted(b.upper, x)}
             \subseteq Int
  /\ \A f \in Recent : IsFiniteSet(DOMAIN f) /\ \A r \in DOMAIN f : f[r] \in Observations
  /\ RequiredSlices \subseteq SliceNames

VARIABLES
  stage,      \* how far the command got, after the split
  model,      \* the fitted model
  evidence,   \* its metrics on the test partition
  benchmark,  \* the champion's, and how the comparison ended
  run,        \* the metrics of the MLflow run under review
  drift       \* one finding of a drift report

attemptVars == <<stage, model, evidence, benchmark, run, drift>>

None == [status |-> "none"]
Calibration == Restrict(frame, Partition("calibration"))
Test == Restrict(frame, Partition("test"))

----------------------------------------------------------------------------
(* TrainDemandModel.execute, after the split *)

Advance(from, to) == stage = from /\ stage' = to /\ UNCHANGED vars

FitModel ==
  /\ phase = "split"
  /\ Advance("splitting", "fitted")
  /\ \E b \in Regressors : \E radius \in Radii(b, Calibration) :
       model' = Fitted(b, radius)
  /\ UNCHANGED <<evidence, benchmark, run, drift>>

EvaluateCandidate ==
  /\ Advance("fitted", "evaluated")
  /\ evidence' = Evaluate(model, Test)
  /\ UNCHANGED <<model, benchmark, run, drift>>

\* The command train ends here: its model goes to a local bundle, ungated.
SaveBundle ==
  /\ Advance("evaluated", "saved")
  /\ UNCHANGED <<model, evidence, benchmark, run, drift>>

Compatible(champion) ==
  /\ \A r \in Rows : /\ champion.tenant = frame[r].tenant
                     /\ champion.currency = frame[r].currency
  /\ champion.contract = FeatureContract

\* retrain loads the champion, if there is one, before it trains.
CompareWithChampion ==
  /\ Advance("evaluated", "compared")
  /\ \/ benchmark' = [status |-> "not_available"]
     \/ \E champion \in Champions :
          benchmark' =
            IF Compatible(champion)
            THEN [status |-> "evaluated", version |-> champion.version,
                  evidence |-> Evaluate(champion.model, Test)]
            ELSE [status |-> "incompatible_contract", version |-> champion.version]
  /\ UNCHANGED <<model, evidence, run, drift>>

----------------------------------------------------------------------------
(* Gates and registration *)

BeatsChampion(c) ==
  benchmark.status = "evaluated" =>
    NoRegression(evidence.aggregate, benchmark.evidence.aggregate, c)

Accepts(c) == PassesAlone(evidence, c) /\ BeatsChampion(c)

ApplyGates ==
  /\ Advance("compared", IF Accepts(PipelineCriteria) THEN "accepted" ELSE "rejected")
  /\ UNCHANGED <<model, evidence, benchmark, run, drift>>

\* _validate_benchmark_evidence
BenchmarkIsConsistent ==
  LET measured == "evidence" \in DOMAIN benchmark
      named == "version" \in DOMAIN benchmark
  IN  CASE benchmark.status = "evaluated" -> measured /\ named
        [] benchmark.status = "not_available" -> ~measured /\ ~named
        [] benchmark.status = "incompatible_contract" -> ~measured /\ named

\* Whose metrics are logged under which prefix.
CandidatePrefixes == {NoPrefix, "candidate.current_holdout"}
BenchmarkPrefixes == {p \in {"benchmark.current_holdout"} : "evidence" \in DOMAIN benchmark}

\* Mutant: the champion's metrics are logged under the candidate's names.
LoggedWithoutPrefix ==
  Logged([p \in CandidatePrefixes |->
            IF p = NoPrefix /\ BenchmarkPrefixes # {} THEN benchmark.evidence ELSE evidence])

LoggedMetrics ==
  Logged([p \in CandidatePrefixes \cup BenchmarkPrefixes |->
            IF p \in CandidatePrefixes THEN evidence ELSE benchmark.evidence])

LogCandidate ==
  /\ stage = "accepted"
  /\ IF BenchmarkIsConsistent /\ Accepts(RegistryCriteria)
     THEN Advance("accepted", "registered") /\ run' = LoggedMetrics
     ELSE Advance("accepted", "rejected") /\ UNCHANGED run
  /\ UNCHANGED <<model, evidence, benchmark, drift>>

\* promote may name a version that an earlier release registered.
ReviewStoredRun ==
  /\ phase = "raw"
  /\ Advance("splitting", "registered")
  /\ run' \in StoredRuns
  /\ UNCHANGED <<model, evidence, benchmark, drift>>

\* from_mapping, then evaluate without a champion.
Recheck ==
  /\ Advance("registered",
             IF ~Readable(run) THEN "unreadable"
             ELSE IF PassesAlone(FromMapping(run), RegistryCriteria) THEN "promotable"
             ELSE "refused")
  /\ UNCHANGED <<model, evidence, benchmark, run, drift>>

----------------------------------------------------------------------------
(* The command drift *)

\* Features of two, three, seven and of more values.
Monitored ==
  {"candidate_price", "lead_time_days", "is_holiday", "event_intensity",
   "location_known", "stay_day_of_week"}

Column(f, c) == [r \in DOMAIN f |-> TrainingRow(f[r])[c]]

\* The finding about one feature: no finding depends on another. The recent
\* frame is held to the contract too.
MonitorDrift ==
  /\ phase = "validated"
  /\ Advance("splitting", "monitored")
  /\ \E f \in {g \in Recent : Contract(g)}, c \in Monitored :
       \E status \in Statuses(Column(frame, c), Column(f, c)) :
         drift' = [feature |-> c, recent |-> f, status |-> status]
  /\ UNCHANGED <<model, evidence, benchmark, run>>

----------------------------------------------------------------------------

AttemptInit ==
  /\ Init
  /\ stage = "splitting"
  /\ model = None
  /\ evidence = None
  /\ benchmark = None
  /\ run = None
  /\ drift = None

Split == stage = "splitting" /\ Next /\ UNCHANGED attemptVars

AttemptNext ==
  \/ Split
  \/ FitModel
  \/ EvaluateCandidate
  \/ SaveBundle
  \/ CompareWithChampion
  \/ ApplyGates
  \/ LogCandidate
  \/ ReviewStoredRun
  \/ Recheck
  \/ MonitorDrift

AttemptSpec == AttemptInit /\ [][AttemptNext]_<<vars, attemptVars>>

----------------------------------------------------------------------------
(* Properties *)

\* The row the API would price for a caller who asks, at the same date, for the
\* listed price of an observation.
ServedRow(o) ==
  CandidateRow([asOf |-> o.asOf, stay |-> o.stay, signals |-> o.signals,
                competitor |-> o.competitor, holiday |-> o.holiday,
                event |-> o.event, located |-> o.located],
               Listed * o.price)

\* The interval is a coverage promise on the stays it was calibrated on: at
\* least the rank that interval_coverage asks for, all of them when there are
\* fewer, have the outcome within the interval the API serves at every one of
\* their snapshots, on features built for serving and not for training, with
\* three numbers that DemandEstimate accepts. A raw end beyond the possible
\* occupancies is the exception: it is clipped before it is calibrated but not
\* before it is widened.
CalibrationPromiseKept ==
  stage = "fitted" =>
    LET b == model.regressors
        stays == StaysIn(Calibration)
        Kept(r) == LET x == ServedRow(frame[r])
                   IN  WellFormed(model, x) /\ Covers(model, x, frame[r].occupancy)
        kept == {s \in stays : \A r \in DOMAIN Calibration : Stay(r) = s => Kept(r)}
        beyond == {s \in stays : \E r \in DOMAIN Calibration : Stay(r) = s /\
                     \/ Predicted(b.upper, TrainingRow(frame[r])) < 0
                     \/ Predicted(b.lower, TrainingRow(frame[r])) > Full}
        asked == Ceiling((Cardinality(stays) + 1) * IntervalCoverage, 100)
    IN  Cardinality(kept \cup beyond) >= Smaller(asked, Cardinality(stays))

\* However many snapshots the stays of the test partition have, each stay
\* weighs the same: the mean error lies between the averages over the stays of
\* their best and of their worst snapshot. And the slices of a family share out
\* the rows: no snapshot escapes them or is judged twice.
EvidenceCountsOnce ==
  stage = "evaluated" =>
    LET stays == StaysIn(Test)
        errors == [s \in stays |->
                     {Magnitude(frame[r].occupancy - Expected(model, TrainingRow(frame[r]))) :
                        r \in {q \in DOMAIN Test : Stay(q) = s}}]
        Best(S) == CHOOSE x \in S : \A y \in S : x <= y
        Worst(S) == CHOOSE x \in S : \A y \in S : y <= x
        mae == evidence.aggregate["occupancy_mae"]
        Size(s) == IF s \in DOMAIN evidence.slices
                   THEN evidence.slices[s]["sample_size"].num ELSE 0
    IN  /\ SumFunction([s \in stays |-> Best(errors[s])]) * mae.den
             <= mae.num * Full * Cardinality(stays)
        /\ mae.num * Full * Cardinality(stays)
             <= SumFunction([s \in stays |-> Worst(errors[s])]) * mae.den
        /\ \A family \in SliceFamilies :
             SumFunction([s \in family |-> Size(s)]) = Cardinality(DOMAIN Test)

\* The two loops over slices leave no gap: whatever a run recorded, whatever it
\* left out, a version becomes promotable only when every required slice was
\* judged, on enough stays, and no price response there is unknown.
NoSliceUnjudged ==
  stage = "promotable" =>
    \A s \in RequiredSlices :
      LET Has(x) == <<NoPrefix, s, x>> \in DOMAIN run
          At(x) == run[<<NoPrefix, s, x>>]
      IN  /\ Has("unique_stays")
          /\ ~FewerThan(At("unique_stays"), RegistryCriteria.minSliceUniqueStays)
          /\ \A x \in PriceResponse \cup (SliceEssentials \ {"sample_size"}) :
               Has(x) /\ Finite(At(x))
          /\ ~Exceeds(At("occupancy_mae"), RegistryCriteria.slice["occupancy_mae"])
          /\ ~Below(At("interval_coverage"), RegistryCriteria.slice["interval_coverage"])

\* Storage does not change the verdict: a candidate that passed the gates when
\* it was registered passes them again when promote reads its run, and is
\* judged on its own metrics though the champion's are logged beside them.
VerdictSurvivesStorage ==
  evidence # None => stage \notin {"unreadable", "refused"}

\* The values of one sample all lie beyond those of another, on one side.
Beyond(observed, baseline) ==
  \/ \A v \in ValuesOf(observed) : v < Min(ValuesOf(baseline))
  \/ \A v \in ValuesOf(observed) : v > Max(ValuesOf(baseline))

\* Of a sample with more values than bins, so much lies at its ends and at one
\* more value that quantiles coincide and few bins are left.
Concentrated(s) ==
  /\ ~Few(s)
  /\ \E v \in ValuesOf(s) :
       Bins * Cardinality({r \in DOMAIN s : s[r] \in {Min(ValuesOf(s)), v, Max(ValuesOf(s))}})
         > (Bins - 3) * SizeOf(s)

\* Recent values that the baseline never reached are not reported stable, in
\* whichever direction they moved and however few values the baseline has; the
\* baseline itself has not drifted. What a concentrated baseline hides is
\* excepted: one bin may then hold nearly all of it and all that was observed.
DriftIsSeen ==
  stage = "monitored" =>
    LET baseline == Column(frame, drift.feature)
        observed == Column(drift.recent, drift.feature)
    IN  /\ Beyond(observed, baseline) => Concentrated(baseline) \/ drift.status # "ok"
        /\ observed = baseline => drift.status # "drifted"
============================================================================
