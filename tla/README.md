# TLA+ models of the pricing recommendation engine

This directory holds TLA+ specifications of the pricing engine, TLC
configurations that check them on small instances, and theorems about them that
TLAPS proves for every value of the constants. Paths such as
`infrastructure/model_registry.py` are relative to `src/pricing_engine/` of the
repository.

## The system

| Part | State | Operations | Talks to |
|---|---|---|---|
| Model registry (`infrastructure/model_registry.py`) | in MLflow: the `champion` alias, tags of versions and of the namespace, immutable run parameters | `log_candidate`, `load_champion`, `promote`, `rollback`, `load` | MLflow, one network call per step |
| Retraining (`application/retraining_service.py`) | none of its own | `execute`: load champion, train and evaluate, gate, log | registry, trainer |
| Training and split (`application/training_service.py`) | none | chronological split, fit, calibrate, evaluate on the test window | model, evaluation |
| Evaluation and gates (`application/evaluation.py`) | none | metrics, slices, `PromotionCriteria.evaluate` | retraining, promotion |
| Demand model (`infrastructure/models/lightgbm_demand.py`) | boosters, calibration, lazily built SHAP explainer behind a lock | `fit`, `predict`, `explain` | worker threads |
| API (`interfaces/api/app.py`) | a semaphore of recommendation permits, one task per recommendation, the process's worker threads | recommendation endpoint, probes, metrics, body-limit middleware | container, services |
| Serving container (`interfaces/api/container.py`) | predictor, service, profile state | initialise, load, publish, clear | registry (at startup only) |
| Statistical profile (`application/statistical_service.py`) | none | validate, weigh, grade, abstain or recommend | API |
| Pricing policy (`domain/policies.py`, `application/recommendation_service.py`) | none | candidate grid, prediction, selection | API |
| Settings (`config.py`) | immutable | `validate_security_posture` | API |
| Data contract (`infrastructure/data_contracts.py`), features (`infrastructure/features.py`) | none | `validate_training_frame`; rows for training and for serving | training, demand model |
| Drift report (`infrastructure/monitoring.py`) | none | `_build_feature_drift` for every feature of a baseline and of recent frames | command line |
| Schemas and domain objects (`interfaces/api/schemas.py`, `domain/`) | none | parse a payload, build the context of a request | API, services |
| Command line (`cli.py`) | none | `train`, `retrain`, `promote`, `rollback`, `drift` | training, registry, drift report |

Parts meet in three ways. Retraining, the promotion/rollback commands and API
starts share one MLflow namespace and see each other only through it. The API
process shares its permits and its threads between all requests. Everything else
is a function call.

### What is hard, and what makes each part correct

- **Registry.** A decision is up to eight remote writes without a transaction;
  any call may fail with or without effect, and the process may die between two.
  Retraining reads the champion twice, a training apart; promotion compares the
  evidence several calls before it moves the alias. Correct means: evidence is
  about the champion it names; no stale candidate is promoted; a decision that
  reports "restored" restored everything; whatever a crash leaves behind is
  recoverable and an API start fails closed; tenants never share a namespace.
- **Endpoint.** A request may end (503, 504, cancellation) before, while or
  after its work runs. Correct means: permits are neither lost nor made up, work
  is bounded even when its requests are gone, nobody starves in the queue,
  everybody is answered.
- **Request body.** A client may cut its body anywhere, stall or leave; the
  deadline may pass at any await. Correct means: the limit is exact, a body cut
  short never looks complete, a deadline ends with the reading, nobody holds a
  request open for ever.
- **Split.** No label from the future, no stay in two windows, and boundaries
  computed from fractions of few dates.
- **Serving container and tenant routing.** Four stages may fail before a predictor
  is published; a tenant goes through settings, container, route and service,
  each comparing another pair. Correct means: what is published passed
  everything; nobody is answered for another tenant; a READY process keeps its
  promise to those it authorizes.
- **Pricing requests.** The stable profile passes its evidence through a chain of
  filters and gates and ends in a price or a typed abstention; the model-based
  one rounds bounds to a grid, predicts and selects. Correct means: a price rests
  on sound evidence and lies where the documented quantiles are although the
  weights are rounded; nothing is excluded without a reason; the grid loses and
  adds no permitted price; a refusal states a fact.
- **Demand model.** Ends of an interval are clipped, widened by a residual at a
  rank, clipped again and repaired, over stays with several snapshots. Correct
  means: what the interval was calibrated to cover it covers when it is served.
- **Evaluation and gates.** Metrics over snapshots weighted by stay, slices whose
  families overlap, two loops that judge slices, and evidence that is flattened
  into a run beside the champion's and read back. Correct means: no stay outvotes
  another, no required slice goes unjudged, storage changes no verdict.
- **Drift.** Quantile bins of a baseline with few distinct values may swallow what
  they should show. Correct means: values the baseline never had are not called
  stable.
- **Payloads.** Three layers check overlapping limits: the schema, the domain
  object and the service. Correct means: what the first lets through the next
  refuses only for what the first does not look at.

`PROJECT.json` lists every component, and every hazard with its source line and
the properties that cover it.

## Modules

| Module | Models | Checked by | Proved in |
|---|---|---|---|
| `ModelRegistry` | registry protocol with retraining, commands, API starts, hand edits | `serial`, `crash`, `late`, `rollback`, `restored` | `ModelRegistryProofs`, `RegistryRepairProofs` |
| `ChampionPointer` | abstract: what a governed champion may do | refined by `ModelRegistry` in `crash` | `RegistryRepairProofs` |
| `RetrainingAttempt` | the offline commands `train`, `retrain`, `drift` and the review of `promote`, end to end; composes the six modules below | `split` | `RetrainingAttemptProofs` |
| `ChronologicalSplit` | data contract, scope checks and purged temporal split | `split` | `RetrainingAttemptProofs` |
| `FeatureFactory` | the feature rows of training, evaluation and serving | `split` | `RetrainingAttemptProofs` |
| `DemandModel` | calibration and prediction of the quantile model | `split` | `RetrainingAttemptProofs` |
| `HoldoutEvaluation` | metrics over the test partition and its slices | `split` | `RetrainingAttemptProofs` |
| `PromotionGates` | the gates of `PromotionCriteria` and the stored form of their evidence | `split` | `RetrainingAttemptProofs` |
| `DriftReport` | the population stability index and the status of a feature | `split` | `RetrainingAttemptProofs` |
| `RecommendationEndpoint` | the bulkhead of the recommendation endpoint, deadlines, threads, probes | `endpoint`, `deadlines` | `RecommendationEndpointProofs` |
| `RequestBody` | the body-limit middleware and one request | `body`, `response` | `RequestBodyProofs` |
| `StatisticalProfile` | one request of the stable profile, from schema and contract to recommendation or abstention | `requests`, `quantile` | `StatisticalProfileProofs` |
| `PricingPolicy` | one request of the performance-aware profile: schema, context, scope, grid, prediction, selection | `requests` | `PricingRequestsProofs` |
| `ServingAccess` | one process: settings posture, model loading, and the authorization of one call | `requests` | `PricingRequestsProofs` |
| `PricingRequests` | composes the three as the recommendation route does, up to the status of the response | `requests`, `quantile` | `PricingRequestsProofs`, `StatisticalProfileProofs` |
| `MCModelRegistry`, `MCRetrainingAttempt`, `MCRecommendationEndpoint`, `MCRequestBody`, `MCPricingRequests` | small instances | | |
| `SumTheorems` | no code: what finite sums and products are, for the proofs | | itself |

`FeatureFactory`, `DemandModel`, `HoldoutEvaluation`, `PromotionGates` and
`DriftReport` are operators: the code behind them is pure. `RetrainingAttempt`
supplies the state and the steps.

### ModelRegistry

One action is one MLflow call, or a run of code without one. The state is the
registry as MLflow stores it (`alias`, `tags`, `bench`, `owner`, `binding`), the
place where each pipeline stands (`trainer`), the local variables of the one
`_set_champion` call in progress (`session`) and the writes still under way
(`late`). `compared`, `audited`, `former` are history variables: they record what
really happened and no action reads them.

| Action | Code |
|---|---|
| `LoadChampion`, `EnsureTenantBinding`, `ResolveBenchmark`, `RegisterCandidate` | `load_champion`; `_ensure_registered_model_tenant_binding`; `_resolve_benchmark_registry_version`; the run and `register_model` of `log_candidate` |
| `TrainerStops` | a gate that rejects, an exception, the end of the process |
| `BeginDecision`, `ReadPrevious`, `TakeSnapshot`, `Reject` | the checks of `_set_champion`, the stale-evidence check, `originals` |
| `ForwardStep`, `ForwardFails` | the writes of the `try` block in `Order`; a call that raises |
| `ReadAliasBack`, `ResetAlias`, `ReadTags`, `RestoreTag`, `RepairFails` | the `except` branch and `restore_tags` |
| `Crash` | the process ends anywhere (the `except Exception` does not see an interrupt) |
| `ManualAlias`, `LateWriteLands` | external: the alias edited in MLflow; a write applied after its caller gave up |

What is abstracted: bundles, checksums, metrics and the feature contract are
immutable once registered, so a version either always or never passes those
checks, and only versions that pass are modelled. An approver stands for the
instant of his decision (`approved_at`). Bundle versions carry a fingerprint and a
timestamp, so comparing them is comparing registry versions. The README,
`docs/architecture.md` and the runbook demand one serialized promotion/rollback
writer, so there is one `session`.

### ChampionPointer

The promise in six actions: the champion moves only by a promotion whose evidence
names the current champion, or by a rollback to a former champion; a move may be
undone as long as it is not settled, and undoing brings back exactly the champion
it replaced. `ImplementsChampionPointer` maps the alias to the champion; a command
that is about to repair and finds its version aliased is an unsettled move.

### RecommendationEndpoint

| Action | Code |
|---|---|
| `Arrive`, `FinishDependencies` | synchronous dependencies of the route, one job on a worker thread for all of them |
| `AcquireAtOnce`, `AwaitPermit`, `Resume`, `CapacityTimeout`, `CancelQueued` | `wait_for(recommendation_slots.acquire(), ...)` |
| `RunTask`, `FinishWork` | `execute_with_slot` and its `finally` |
| `Respond`, `InferenceTimeout`, `CancelExecuting` | `wait_for(shield(task), ...)` |
| `FinishProbe` | `/health/live`, `/health/ready`: `get_container` is synchronous and needs a thread |
| `StartJob`, `Locked`, `Abandon`, `Release`, `WakeUp` | external: AnyIO's thread limiter and `asyncio.Semaphore` of CPython 3.12, the image's interpreter |

Time is abstract: an armed deadline may pass at any moment, also in the instant a
permit is handed over. A client is an identifier that returns after its request
was answered and its work ended; a client that retries earlier is another
identifier. The three synchronous dependencies are one job, and a handler cancelled
while it waits for that job is left out: it holds no permit and has no task yet.

### ChronologicalSplit

One behaviour is one training attempt: `phase` says how far it got or which
exception ended it, `frame` is what the caller brought, `trainEnd` and
`calibrationEnd` are the two indices into the sorted dates. Everything else
(windows, masks, groups) is computed from these, as in the code.

| Action | Code |
|---|---|
| `Validate`, `SchemaRejects` | `validate_training_frame`: its row and stay rules; the column checks before and after them |
| `Scope` | one currency, one tenant, in `TrainDemandModel.execute` |
| `CutWindows`, `TooFewDates` | `split` up to the three windows |
| `Purge` | the masks and the empty-partition check |
| `AssertMinimumEvidence` | rows and stays of each partition |
| `AssertPartitionInvariants` | the two fail-closed assertions |

Fractions are per cent. `int(n * fraction)` truncates a floating point product,
and a product that should be whole may come out just below (90 * 0.7 is
62.99...), so `Truncated` allows both. Column checks that no property
depends on are one action that may reject any frame. Features and targets follow
the same masks as the rows and are left out. What happens to a frame that was
split is `RetrainingAttempt`.

### RetrainingAttempt and its parts

One behaviour is one offline command. `ChronologicalSplit` runs first; `stage`
says how far the command got after it, `model` is what was fitted, `evidence` its
metrics, `benchmark` the champion's with the status of the comparison, `run` the
metrics of the MLflow run under review, `drift` one finding of a drift report.

| Action | Code |
|---|---|
| `Split` | `TrainDemandModel.execute` up to the partitions |
| `FitModel` | `QuantileLightGBMDemandModel.fit`: three regressors and the radius calibrated on the calibration stays |
| `EvaluateCandidate` | `_evaluate_on_test_partition`: predictions, the price grid, metrics and slices |
| `SaveBundle` | the command `train` ends with a local bundle, ungated |
| `CompareWithChampion` | no champion, an incompatible one, or its metrics on the same test partition |
| `ApplyGates` | `RetrainingPipeline.execute` with its own criteria |
| `LogCandidate` | `log_candidate`: benchmark consistency, the registry's criteria, the metrics logged under their prefixes |
| `ReviewStoredRun`, `Recheck` | `promote` reads the metrics of a run back, also one an earlier release logged, and judges them again |
| `MonitorDrift` | the command `drift`: both frames meet the data contract, then the status of one feature |

- *Features.* `TrainingRow` and `CandidateRow` are the two ways the code builds a
  row; `GridRow` is the third, the evaluation's edit of a test row. Columns that
  are only passed through are one value.
- *Regressors* are LightGBM's: any function from rows to integers, also one that
  crosses or leaves the possible occupancies. Occupancies are whole numbers in
  `0..Full`. `Radii` is a set: the product of the rank may be computed just above
  a whole number.
- *Metrics* are exact fractions, so equal shares and limits met exactly are seen
  as such; a metric that is NaN has the denominator 0. `EqualGroupWeights` gives
  every row of a stay with `n` snapshots the weight `1/n`. The selected price is
  the cheapest of the best ones; two floats that should tie may not, which can
  move it, and no property depends on that.
- *Gates.* Limits are thousandths. A metric the code leaves `None` is missing from
  the function. A stored run maps prefix, owner and metric to a value, so that
  what the names keep apart is visible: evidence logged under one prefix and read
  under another, or of one owner read as another's. That the code's dotted names
  (`evaluation.py:121-128`) tell the three parts apart is taken for granted.
- *Drift.* The index is a sum of logarithms. It lies between two rational bounds
  (`LeastTerm`, `MostTerm`), and every status the bounds allow is possible. The
  bounds of the logarithm of a smoothed share hold for samples of up to ten million
  rows, neither a hundred times as large as the other.

### RequestBody

One behaviour is one request. `stream` is what the client has sent, `messages`
what the middleware has read of it, `replayed` what the application has read of
that; `timer` is the `asyncio.timeout` of the reading loop, `out` the response as
the server sees it.

| Action | Code |
|---|---|
| `ClientSends`, `ClientLeaves` | external: the client and the ASGI server; nothing follows the end of a body but a disconnect |
| `Bypass`, `RefuseUnread`, `StartReading` | the path check; the key check and the declared length; the empty buffer and the armed deadline |
| `Receive` | one turn of the reading loop |
| `DeadlineFires` | the timeout cancels what the block awaits, and `_reject_timeout` |
| `SendStart`, `SendBody`, `Return` | `_reject_unauthorized`, `_reject`, `_reject_timeout`: `JSONResponse` sends two messages and is suspended at each, since the telemetry middleware around it hands messages on through a stream without a buffer |
| `ApplicationReads`, `ApplicationResponds` | `replay_receive`; external: the application behind it |

A request says whether its path is guarded, whether its key passes (also when no
key is configured) and which length it declares. `NoLength` is a header that is
absent or no number.

### StatisticalProfile

One behaviour is one request. `phase` says how far the evaluation got,
`evidence` is what the filters have left, `exclusions` gives the reasons of what
they took, `answer` is the response.

| Action | Code |
|---|---|
| `RequestAccepted`, used by `ParsePayload` | `StatisticalPricingRequest` and `StatisticalComparable`: limits of numbers, order of times, consistency of stays, safety flags |
| `RejectContract` | `validate`: policy, cutoff, unique comparables, lineage, every comparable against the request |
| `AbstainFromProfile` | an unsupported profile excludes every comparable |
| `Screen` | age and similarity, all reasons of each comparable; no evidence left |
| `ExcludeOutliers` | weighted Tukey fences; fewer than three left |
| `WeighEvidence` | effective sample size and mean similarity, in this order |
| `Recommend` | weighted percentiles, dispersion, `_quality`, the band and the strategy's point of it |

Decimals are modelled by what they do. The code computes normalized weights in a
decimal context of 28 digits that rounds half up after every operation;
`Rounded` does this with the digits `Unit` leaves, 4 in the runs, since TLC's
integers have ten decimal digits, for values from 0.001 on: the least weight among
50 comparables that passed the screening is 40/4940. The market's day is a fixed
number of ticks before the UTC day; a change to daylight saving time is left out. Sorting and filtering are one operator:
`Arranged` takes the places of a sequence in the order of a relation, `At` in the
order they have. Sums of raw similarities and quarters of them are exact
in both. Where the code compares two rounded numbers that are equal exactly (the
effective sample size with its minimum), the rounding may tip the comparison, so
`AtLeast` allows both.

### PricingPolicy

| Action | Code |
|---|---|
| `Execute` | the call of `RecommendPrice.execute` with the container's predictor |
| `RefuseContext` | `PriceConstraints` and `PricingContext` check what the schema let through: the same again, the dates and the identifiers |
| `CheckScope`, `RefuseScope` | the service property of the container; tenant and currency checks |
| `FeasiblePrices`, `RefuseGrid` | `feasible_prices`: rounded bounds, the empty grid, the limit on candidates |
| `Predict`, `PredictionFails` | external: the model returns any occupancy for any candidate, or raises, which is a 500 |
| `Select`, `RefuseDemand` | `select`: the occupancy floor, the largest revenue, the lower of two equal prices |
| `Explain`, `ExplanationFails` | external: `explain` for the selected price; when SHAP raises, the call ends with `ModelUnavailableError`, a 503 without a price, in a process that is READY |

### ServingAccess and PricingRequests

One behaviour is one process that is started with a `scenario` (the settings,
what the configured URI holds) and gets one call. `stage` is how far the start
got, `container` what it published, `decision` and `authorized` what the route's
dependencies say of the call.

| Action | Code |
|---|---|
| `AcceptSettings`, `RefuseSettings` | `validate_security_posture` |
| `NotConfigured`, `LoadPredictor`, `ValidateContract`, `WarmUp`, `Publish`, `InitializationFails` | `initialize_optional_experimental_profile` and `load_configured_model`, one action per stage |
| `RejectKey`, `RejectIdentity`, `RejectRoute`, `ResolveTenant` | `authenticate_api_key`, `resolve_authorized_tenant` |
| `ParsePayload` | FastAPI validates the body by one of the two schemas, after the dependencies have run; a failure is a 422 |
| `Authorize`, `RejectTenant` | `authorize_pricing_request` |
| `ExecuteRecommendation` | `execute_recommendation`: the type of the payload decides which profile answers |

`Response` is the status the exception handlers give every end of a call. A body
that is no JSON at all is refused before the dependencies and left out. Change
limits are whole per cents.

A tenant is an identifier after normalisation; a header that holds no identifier
is `BadIdentity`. A model URI is absent, the governed alias, or something else.
The process runs its start before it takes calls, so the stages do not interleave
with calls; permits and deadlines of the route are `RecommendationEndpoint`'s. A
predictor that a test hands to the container is left out.

## Runs and bounds

| Run | Bounds | Shows |
|---|---|---|
| `serial` | 3 versions, 2 pipelines of 2 tenants, failing calls | `SingleTenantNamespace`, `EvidenceMatchesEvaluation`, `NoStalePromotion`, `TypeOK`. Three versions are a champion, its challenger and a candidate that becomes stale; the namespace is created by either tenant |
| `crash` | 2 versions, 2 approvers, 1 command that dies or gives up its repair | `CleanRegistry`, `RecoverableAlias`, `RestoredMeansRestored`, refinement of `ChampionPointer`. Two versions suffice for a previous and a new champion; two approvers tell one decision's tags from another's |
| `late` | 2 versions, 1 hand edit, 1 late write | `FailClosedServing`. Deadlock is not checked: with the one hand edit spent, a registry whose aliased version fails governance waits for an operator |
| `rollback` | 3 versions, 1 hand edit | violated: `RollbackRestoresChampions` |
| `restored` | 2 versions, 1 late write | violated: `RestoredAliasStays` |
| `requests` | nearly seven thousand processes with one call each: similarities 39/40, 54/55/56 and weights whose quarters meet a sum exactly; ages 90 and 91 days; every fault of one comparable and its lineage; 3, 4, 5 and 8 comparables with ties and outliers, and 9 where 8 are allowed; grids from bounds 1 to 20, increments 1, 2, 3, 7, limits 0, 20, 35 %, at most 4 candidates; payloads of both schemas with each single field just out of its limits, and just within; every way to name two tenants in settings, model, key, header and payload; each single fault of settings and model, and a payload in another currency than the production model's; predictions and explanations that fail | `SoundEvidence`, `ExclusionsExplained`, `BandBetweenQuantiles`, `GatesDecide`, `BestPermittedPrice`, `RefusedForCause`, `PublishedIsWhole`, `AnsweredForTheirTenant`, `ReadyMeansInScope`, `TypeOK`. Each threshold of the code is met from both sides. Deadlock is not checked: a call ends |
| `quantile` | the same | violated: `BandIsExact` |
| `endpoint` | 4 clients, 2 permits, 3 threads | `PermitsConserved`, `BoundedWork`, `NoLostWakeup`, `QueuedIsServed`, `TypeOK`. Two permits and two waiters are the least for a woken and a sleeping waiter beside a free permit |
| `deadlines` | 3 clients, 1 probe, 1 permit, 2 threads | `EveryRequestAnswered`, `EveryProbeAnswered` |
| `split` | 17 rows over 10 dates three days apart, 2 of them free and five at the ends of the lead-time slices (7, 8, 30 and 31 days), split 50/30 with an embargo of 1 day; two kinds of regressors, three champions, two sets of criteria, eight stored runs, four recent frames; occupancies in 20ths, coverage 50 %, 4 bins and 8 samples for drift | `NoFutureLabel`, `AssertionsNeverFire`, `WindowsShareOutRows`, `CalibrationPromiseKept`, `EvidenceCountsOnce`, `NoSliceUnjudged`, `VerdictSurvivesStorage`, `DriftIsSeen`, `TypeOK`. Deadlock is not checked: an attempt ends |
| `body` | limit 2, pieces of 0 to 3, 4 messages, 6 reads, declared length 1 to 3 or none | `LimitIsExact`, `FaithfulReplay`, `ServedOrRefused`, `EveryRequestDecided`, `TypeOK`. The limit is met exactly and crossed by one piece and by several; 6 reads go beyond the longest replay. Deadlock is not checked: a request ends |
| `response` | the same | violated: `OneResponse` |

`split` is one run because its parts share the frame: a stay seen from two windows
is a stay with two snapshots for the calibration and for the metrics. Ten is the
least number of dates the splitter takes; two free rows around the boundaries are
the least for one stay in two windows or with two snapshots in one. With a split
of 50/30 the calibration window holds several stays, so that a rank of 50 % is
neither the smallest nor the largest residual; with the code's 90 % it would
always be the largest. The counts of the criteria (in the code 50 samples and
stays, 20 of each in a slice) are scaled to a handful of rows, the other limits are
the code's. One test row has an outcome that no interval covers, since full
coverage is refused too (`max_interval_coverage`). One regressor set
is close to the outcomes and passes the gates, the other crosses, leaves the
possible occupancies and fails them. One champion is beaten, one equal to the
candidate, one of another feature contract. The stored runs lack one kind of
evidence each, as runs of earlier releases do, or hold a count that is no number,
at which reading them raises. Recent frames are the baseline
itself, one from far ahead, one with no lead and higher prices and events, one too
short. Four bins and
eight samples stand for the code's ten and thirty: the features then have fewer
values than bins, and more.

The four violated runs are disagreements between code and text:

- `rollback`: the next decision tags whatever version the alias points to as
  superseded, also one that somebody aliased by hand. Rollback accepts it and
  makes champion a version that never was, past the benchmark check.
- `restored`: the repair reads the alias once. An alias write whose answer was
  lost can land after that read: the command has reported that alias and tags
  were restored, and the alias then names a version tagged candidate. API starts
  refuse it (`late` shows that), so the failure is closed, not silent.
- `response`: the 413 of a body that turned out too large is sent inside the
  timeout block of the reading loop. The deadline may pass while it is being sent:
  the send is cut off and a 408 starts on the same request, although the runbook
  calls the deadline one of body receipt.
- `quantile`: the specification of the profile defines the weighted percentile as
  left-continuous over similarities divided by their sum. The quotients are
  rounded, and so is their sum: where the similarities up to a price are exactly
  half of all, the rounded sum may stay below the rounded half, and the median is
  the next price. The instance (similarities 40, 40, 70, 70, 80) behaves the same
  with the code's 28 digits: 130 instead of 120 for prices 100, 110, ... 140.
  `BandBetweenQuantiles` bounds the damage: a band never leaves the interval
  between the left- and the right-continuous quantile.

Other observations, without a run of their own:

- `calibration_radius` is computed from ends clipped to an occupancy
  (`lightgbm_demand.py:194-209`), `predict` clips after widening
  (`lightgbm_demand.py:298-312`). A raw upper end below 0, or a raw lower end
  above 1, is widened from where it is, so that stays calibrated on it may lie
  outside of what is served. `CalibrationPromiseKept` excepts such ends by name.
- `docs/architecture.md:186`, `docs/runbook.md:211` and `docs/model-card.md:86` say
  location slices are required; `required_slices` (`application/evaluation.py:238-246`)
  has none. The runs use the seven slices of the code.
- The quantiles of a baseline with more than ten distinct values may all coincide
  with an end (`monitoring.py:109-116`): there is one bin, and the index is about 0
  and the status "ok" whatever was observed. The guard `len(edges) < 2` cannot be
  reached. One bin is not needed for it: when nearly all rows lie at the ends and at
  one value between them, a shift moves between bins that hold hardly any of the
  baseline, or stays in the one that does. `DriftIsSeen` excepts such baselines by
  name (`Concentrated`): `bins - 3` of `bins` parts of the rows at the two ends and one
  more value. The property first excepted the single bin only; what its proof asked
  for beyond that was the counterexample.
- `np.quantile(..., method="higher")` at `k/n` reads one rank higher than `k`, which
  is conservative.
- A NaN among the champion's metrics lets the comparison pass
  (`_compare_with_champion`), since no comparison with it is true.
- `docs/runbook.md:318` names a status `insufficient_data`; the code has
  `insufficient_reference` and `insufficient_current`.

## Fairness

The registry has no liveness property: commands are typed by people and nothing
restarts them. In the endpoint, `LoopFairness` assumes that the event loop runs
ready callbacks, that the pool starts queued jobs when a thread is free, and that
the synchronous dependencies end (they compare headers and settings).
`DeadlineSpec` adds that timers fire, and nothing about recommendations: requests
and probes are answered even if no recommendation ever ends, provided there are
more threads than permits. `EndingSpec` adds instead that recommendations end
(they compute without I/O), and nothing about timers: the queue serves everybody
by itself. The settings do not enforce more threads than permits:
`recommendation_max_concurrency` may be 64 while AnyIO starts 40 threads.

In `RequestBody`, `LoopFairness` assumes that the loop resumes what can go on, that
timers fire, and that a refusal, a few hundred bytes, gets sent. It assumes
nothing about the client or the application.

## Proofs

Every invariant a passing run checks is a theorem here, and so are its action
properties (`NoStalePromotion`, `RestoredMeansRestored`) and the refinement of
`ChampionPointer`.

`ModelRegistryProofs` holds five theorems, for any number of versions, pipelines,
tenants, approvers, crashes, hand edits and late writes. They assume only
`RegistryConstants`.

- `TypeCorrect`: `Spec => []TypeOK`. `TypeOK` is not inductive: what a step
  writes is typed because the step counter stays inside the list its phase
  indexes and because a running command knows its version. `TypeInv` adds that.
- `EvidenceIsTrue`: `Spec => []EvidenceMatchesEvaluation`, from `EvidenceInv`: a
  resolved pipeline's benchmark is what it compared with, and both are copied to
  the version in one step.
- `PromotionsAreCurrent`: `Spec => NoStalePromotion`, under `OneWriter` (no hand
  edit, no late write; the single session is the serialized writer the README,
  `docs/architecture.md` and the runbook demand). From
  `CurrentInv`: from the moment the evidence is compared until the alias is
  written the previous champion is the alias, and the benchmark of the version
  is the previous champion. It needs that the version stays registered, hence
  that no forward write takes its lifecycle tag away. The premise is needed: a
  hand edit between the two makes the promotion stale.
- `TenantsNeverMix`: `Spec => []SingleTenantNamespace`, from `TenantInv`:
  registered versions are owned, owners are the binding, and every place tags
  come back from (a command's snapshot, late writes, the alias it resets) names
  only owned versions.
- `ServingFailsClosed`: `Spec => []FailClosedServing`, from `AuditInv`: wherever a
  `champion` lifecycle can be found (tags, a command's snapshot, late writes), the
  audit of that version was completed before. That is the reason why
  an API start may trust one tag: no crash, edit or late write makes it come
  before the rest.

`RegistryRepairProofs` goes on from there to what compensation leaves behind.
`Undisturbed` says that so far nobody edited the alias and no write outlived its
caller; under `OneWriter` it always holds, and where a theorem has no such premise
the invariant is stated for as long as it holds.

- `RestoredIsRestored`: `Spec => RestoredMeansRestored`, under `OneWriter`. From
  `RepairInv`: between its snapshot and its end a command touches tags of two
  versions only (`SnapshotInv`), the alias is the old or the new champion
  (`AliasInv`), and `restore_tags` has put back every key before its step, having
  seen every tag that is still there (`RestoreInv`). `RestoredMeansRestored` alone
  says nothing about a command under way. `RestoredAliasIsLeftAlone` adds that the
  alias then stays: what the run `restored` shows broken is the late write's doing.
- `DeadCommandsAreRecoverable`: `Spec => []RecoverableAlias`, for any number of
  crashes. From `RecoverInv`: which audit keys are written by which step, and that a
  previous champion loses its lifecycle only to "superseded", which the rollback
  command accepts.
- `QuietRegistryIsClean`: `Spec => []CleanRegistry`. From `CleanInv`: a command holds a
  snapshot of a clean registry, so that both its success and its full repair end in
  one. Neither theorem assumes `OneWriter`: the two invariants speak of registries
  that nobody edited and no late write reached (`manual = 0`, `lates = 0`) also where
  such things are possible.
- `RollbacksRestoreChampions`, under `OneWriter`: what the run `rollback` shows
  broken holds without hand edits. From `FormerInv`: whatever is tagged superseded,
  compared against or remembered as previous has been champion.
- `RegistryImplementsPointer`: `Spec => ImplementsChampionPointer`, under
  `OneWriter`, one lemma per kind of step: a pipeline's registration gives a
  version its evidence, the alias write is a promotion or a rollback, the write
  that resets the alias undoes it, the end of a command settles it, and everything
  else stutters. The guards of the abstract moves come from `CurrentInv` and
  `FormerInv` (`RegistrationIsAllowed`, `AliasWriteIsAMove`, `CommandIsAllowed`,
  `StepIsAllowed`).

`RecommendationEndpointProofs` holds four, for any number of clients, probes,
permits and threads, from `EndpointConstants` only: `TypeCorrect`,
`PermitsAreConserved`, `WorkIsBounded` and `NoWakeupIsLost`.

- First come facts about sequences: the rank of a sleeping waiter (the sleepers up
  to it) is a bijection onto `1..n`. So a wake-up with budget `b` wakes at most
  `b` waiters (`BudgetIsKept`), at least one if one sleeps (`BudgetIsUsed`), and
  all of them if some budget is left (`SpareBudgetLeavesNobodyAsleep`).
- `PermitsConserved` is not inductive: a request that started a second task while
  its first is pooled would take two permits and count once. `Shape` adds that a
  handler that has not got a permit has no work yet, that every job is in the pool
  at most once and belongs to a handler waiting for it or a task that runs, and
  that the queue holds each queued request once.
- `NoLostWakeup` needs the queue without repetitions as well: the budget counts
  places in the queue, the permits count requests.
- `BoundedWork` follows: who runs holds a permit.

`RetrainingAttemptProofs` begins with the split, for any frames, fractions, embargo
and minimums, from `SplitConstants`: `SplitTypeCorrect`, `NoLabelLeaks`,
`AssertionsAreRedundant` and `NoCutLosesRows`.

- `Index` is a monotone bijection of the dates onto `0..n-1`, so `DateAt` is well
  defined and a window after an index holds only dates not before it
  (`IndicesAreABijection`, `DatesFromIndex`, `WindowsAreOrdered`).
- The inductive invariant `SplitInv` says that past the cut the indices satisfy
  `0 < trainEnd < calibrationEnd < n`, and past validation the contract holds.
- `LabelsLieBefore`: a label used in a window lies before every decision of later
  windows. Two snapshots of one stay share their label day, which is after the
  stay; a decision is not after the stay. Hence no stay is in two partitions
  (`StaysLieApart`) and `_assert_partition_invariants` cannot fail.
- `NoCutLosesRows` joins `TenDatesSuffice` and `RowsAddUp`. It has the premise
  `TrainPercent < 90`, and needs it: with fractions 95 and 2, ten dates give
  `trainEnd = calibrationEnd = 9`, and the code reports that there is no
  calibration window.

It goes on with the commands, for any frames, regressors, champions, criteria,
stored runs, recent frames, bins and thresholds, from `AttemptConstants` and the
assumptions on the constants of the parts.

- `AttemptImplementsSplit`: every step of a command is a step of the split or
  leaves it alone, so what is proved of the split holds of the commands.
- `IntervalPromise`: `AttemptSpec => []CalibrationPromiseKept`. The argument:
  residuals within the radius are reached by as many stays as the rank asks for
  (`np.quantile`'s index is at least the rank minus one); a residual within the
  radius puts the outcome within the served interval, unless a raw end is no
  occupancy; and the row the API builds is the row of training.
- `EverySliceJudged`: `AttemptSpec => []NoSliceUnjudged`. A slice that is present,
  large enough and not too thin has been judged by every gate; that the two
  conditions on size complement each other is what the proof rests on.
- `StorageIsFaithful`: `AttemptSpec => []VerdictSurvivesStorage`, from
  `FromMapping(Logged(...)) = evidence` for evidence of the shape evaluation
  leaves it in: prefixes keep candidate and champion apart, and no slice of the
  candidate lacks what reading back requires.

The inductive invariant `AttemptInv` remembers, per stage, where things came from:
a fitted model is one of the fits, evidence has its shape, a registered run reads
back as the evidence that passed the registry's gates, a promotable one passed
them again. Two invariants beside it say where evidence and findings come from.

- `StaysCountOnce`: `AttemptSpec => []EvidenceCountsOnce`, with `Measured`: evidence is
  what a fitted model scores on the test partition. The common denominator of the
  weights is a multiple of every count (`ProductIsMultiple`), so the snapshots of a
  stay share one unit equally (`StaysWeighTheSame`). Summed stay by stay
  (`SumByClass`), the weights are one unit per stay, and the weighted errors lie
  between the unit times the stay's least and its greatest error
  (`ErrorsAreBracketed`). Each snapshot has exactly one slice of each family
  (`SlicesAreApart`), so the sizes add up (`CountByClass`).
- `DriftIsReported`: `AttemptSpec => []DriftIsSeen`, with `Found`: a finding compares
  two columns of frames. A quantile lies at a rank (`QuantileRank`), so an edge has so
  many rows below it and so many up to it; were the bins that a shift vacates light,
  all but a few rows would lie at the ends and at one value more (`EdgeAbove`,
  `EdgeBelow`, `OtherBins`). A class that holds its share of the baseline and none
  of the recent values, or the other way round, brings the index to the threshold by
  itself (`MissedTerm`, `LeastIndex`). `DriftConstants` asks for at most ten bins, at
  least eight samples and a threshold from 0.01 to 1: the code has ten, thirty
  (`monitoring.py:11`, `:65`) and the range of the option (`cli.py:329`).

`RequestBodyProofs` holds four, for any limit, piece sizes, lengths and numbers of
messages, from `BodyConstants`: `BodyTypeCorrect`, `ReplayIsFaithful`,
`ServedNeverRefused` and `LimitHolds`. The inductive invariant `BodyInv` says that
the buffer is a prefix of the stream, that it ends with a closing message once the
application runs, that the replay is the buffer and then empty ends, and that an
armed timer means that the reading block is not left. `FaithfulReplay` alone is not
inductive: it does not know what is still to be replayed. `LimitHolds` adds
`LimitInv`: the running count is the size of the buffer (`BytesOfAppend`), within
the limit as long as the loop goes on, what the client sends later does not make
its body smaller (`BytesOfPrefix`), and a 413 on its way means a header or a body
too large.

`PricingRequestsProofs` holds five. Two are about the policy, for any bounds,
increments, limits, predictions and number of candidates, from `PolicyConstants`
and `AccessConstants`: `BestPriceWins` and `RefusalsAreTrue`. Payloads are not
assumed to be valid: `ParsedInv` says that what is authorized was parsed, and what
reached the grid held as a context.

- `GridIsPermitted`: the multiples between the rounded bounds are exactly the
  prices that satisfy the constraints as stated, without a grid. `GridIsCounted`
  counts them by a bijection onto the multipliers.
- The inductive invariant `PolicyInv` carries the grid, the domain of the
  predictions and the scope from step to step; the selected price is a maximum of
  `Prefers`.

Three are about access, for any tenants, settings, models, headers and payloads,
from `AccessConstants`: `PublicationIsWhole`, `AnswersKeepTenantsApart` and
`ReadinessIsKept`. The inductive invariant `ServingInv` has three layers: what each
stage of the start has established (`StageInv`), by what a resolved call is bound
(`DecisionInv`), and that nothing is computed for a call before it was authorized,
and then from its payload and the published predictor (`DispatchInv`).
`ReadinessIsKept` needs all of them, and that past the load a 503 has one cause
left, an explanation that failed (`UnavailableOrUnexplained`): the settings force the key's tenant and the
serving tenant to agree, the container checked the serving tenant against the
model, the route the caller against the payload. Outside production the first
comparison is not made, and a process whose key is bound to another tenant than it
serves is READY and refuses every authorized call of the performance-aware profile.

`StatisticalProfileProofs` holds five, for any requests, from `ProfileConstants` and
the constants of the composition: `EvidenceIsSound`, `ExclusionsAreExplained`,
`RequestsAreTyped` (`TypeOK` of `PricingRequests`), and, with `PrecisionSuffices`,
`BandStaysBetweenQuantiles` and `GatesAlwaysDecide`.

- `Arranged` permutes (`RanksAreABijection`, `ArrangedPermutes`), so sums,
  identifiers and prices of a filtered or sorted sequence are those of its members
  (`StatisticsOfMembers`), and sorting by price puts the right weight beside each
  (`SortedHolds`).
- Every rounding is off by half of the last digit at most (`RoundedIsClose`), the
  sums by no more than that per term (`SumsAreClose`). Exact sums of whole
  similarities that differ, differ by more than all of it together if the context
  has enough digits; so a rounded percentile lies between the left- and the
  right-continuous quantile, which differ only where a sum meets the threshold
  exactly (`RoundedIsBetween`).
- `PrecisionSuffices` is `Unit >= 30000000 * MaximumComparables^2`. The code has 28
  digits, a `Unit` of 10^30, and at most 50 comparables, which asks for 7.5 * 10^10.
  The runs do not satisfy it: TLC's integers hold a `Unit` of 10^6 at most. There
  the two properties are checked on the inputs of the instance; the premise is what
  makes them hold for all inputs.
- `ProfileInv` says what each phase has established: `evidence` is the screened,
  then the trimmed comparables of the request, as functions of it, and an answer is
  an abstention with its reason or the band of that evidence.

`SumTheorems` states what the others need of finite sums. The library's induction
theorems take an operator as a parameter, which the provers cannot instantiate;
`SubsetInduction` and `CountingUp` take a set instead, and are proved by choosing a
least counterexample. `SumUnfolds` ties them to the fold of the community modules.

Only model-checked:

- Liveness (`QueuedIsServed`, `EveryRequestAnswered`, `EveryProbeAnswered`,
  `EveryRequestDecided`), which with fairness is out of the prover's reach.
- The four properties that the runs show violated. `RollbackRestoresChampions` and
  `RestoredAliasStays` are proved under `OneWriter`, the premise their
  counterexamples break.

No module has a RECURSIVE operator; `Cumulative` is a recursive function.

## Plan

Left to prove, in this order:

1. What `HoldoutEvaluation` promises of the metrics beside the mean error, first that
   the selected price is one that earns the most.
2. The registry's properties with late writes, as far as they hold: which tags a
   late write may bring back, and that a later command repairs them.
3. What the models' invariants imply for the response of a call (`Response`): that
   each failure has the status its handler gives it.

## Not modelled

- Booster training, SHAP values and the support score: LightGBM's and SHAP's
  floating point code, whose results nothing decides on; that they may fail is in
  `PricingPolicy`. The warm-up builds the
  explainer before the predictor is published, so its lock is not contended.
- Training weights: they only reach LightGBM.
- Float rounding of metrics, quantiles and revenues; where a float may cross a
  whole number that decides an index, the models allow both.
- Column types, normalizers and the smaller contracts of `data_contracts.py`: one
  action that may reject any frame.
- Slice names in the percent-encoded form of older runs, and the tags of a run
  that `promote` compares before it reads the metrics (the latter are part of what
  `ModelRegistry` takes as immutable).
- Demonstration data (random numbers), the capabilities endpoint (constants).
- Formats and defaults of request fields, the layout of responses, argument
  parsing, logging, counters, request identifiers and headers: no state that is
  read again.
- Bundle files, checksums and hashes: immutable once registered.
- `application/ports.py` holds interfaces without code.
