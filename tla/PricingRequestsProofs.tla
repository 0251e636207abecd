----------------------- MODULE PricingRequestsProofs -----------------------
(***************************************************************************)
(* Theorems about PricingRequests, and proofs the TLA+ proof system        *)
(* checks: about tenants and publication in one API process, for any       *)
(* settings, models and calls; and about the pricing policy, for any       *)
(* payloads, predictors, occupancies and limit of candidates.              *)
(***************************************************************************)
EXTENDS PricingRequests, FiniteSetTheorems, TLAPS

----------------------------------------------------------------------------
(* What is true of the process once a stage is passed *)

Loading == {"loaded", "validated", "warm"}

PostureInv == stage \notin {"configuring", "refused"} => Posture(settings)

LoadingInv ==
  /\ stage \in Loading => source # NoModel /\ settings.uri # "none"
  /\ stage \in {"validated", "warm"} => PredictorContractHolds(source)
  /\ stage = "warm" => source.warm

Ready == [predictor |-> source, state |-> "READY", failure |-> "none"]

ContainerInv ==
  stage = "serving" =>
    \/ container = Cleared("NOT_CONFIGURED", "none") /\ settings.uri = "none"
    \/ container = Cleared("UNAVAILABLE", "MODEL_LOAD_FAILED") /\ settings.uri # "none"
    \/ /\ container = Ready /\ settings.uri # "none" /\ source # NoModel
       /\ PredictorContractHolds(source) /\ source.warm

StageInv == scenario \in Scenarios /\ PostureInv /\ LoadingInv /\ ContainerInv

\* The tenant a resolved call is bound to, and by what.
Bound ==
  \/ settings.keyTenant # NoTenant /\ authorized = settings.keyTenant
  \/ /\ settings.keyTenant = NoTenant /\ settings.trustProxy
     /\ call.header \in Tenants /\ RoutedHere(call.header)
     /\ authorized = call.header
  \/ settings.keyTenant = NoTenant /\ ~settings.trustProxy /\ authorized = NoTenant

DecisionInv ==
  /\ decision # "pending" => stage = "serving"
  /\ decision \in {"resolved", "parsed", "authorized", "dispatched"} => KeyPasses /\ Bound
  /\ decision \in {"authorized", "dispatched"} => authorized \in {NoTenant, call.tenant}

\* Nothing is computed for a call before it was authorized, and it is computed
\* from its payload and the published predictor.
DispatchInv ==
  /\ decision # "dispatched" =>
       progress = "not called" /\ phase = "not called" /\ answer = NoAnswer
  /\ phase = "not called" => answer = NoAnswer
  /\ progress # "not called" =>
       /\ call.kind = "performance-aware"
       /\ context = call.payload /\ predictor = container.predictor
  /\ progress = "model unavailable" => predictor = NoModel
  /\ progress = "out of scope" =>
       context.tenant \notin predictor.tenants \/ context.currency # predictor.currency

ServingInv == StageInv /\ DecisionInv /\ DispatchInv

----------------------------------------------------------------------------
LEMMA InitServing == Init => ServingInv
  BY DEF Init, AccessInit, PolicyIdle, ProfileIdle, ServingInv, StageInv, PostureInv,
         LoadingInv, Loading, ContainerInv, DecisionInv, DispatchInv

\* A start step keeps the stages' facts, and no call is decided yet.
LEMMA StartSteps ==
  ASSUME ServingInv, UNCHANGED <<policyVars, profileVars>>,
         \/ AcceptSettings \/ RefuseSettings \/ NotConfigured \/ LoadPredictor
         \/ ValidateContract \/ WarmUp \/ Publish \/ InitializationFails
  PROVE  ServingInv'
<1> USE DEF ServingInv, StageInv
<1>1. /\ stage # "serving" /\ UNCHANGED <<scenario, decision, authorized>>
      /\ decision = "pending"
  BY DEF AcceptSettings, RefuseSettings, NotConfigured, LoadPredictor, ValidateContract,
         WarmUp, Publish, InitializationFails, DecisionInv
<1>2. UNCHANGED <<settings, source, call>>
  BY <1>1 DEF settings, source, call
<1>3. PostureInv'
  BY <1>2 DEF AcceptSettings, RefuseSettings, NotConfigured, LoadPredictor,
              ValidateContract, WarmUp, Publish, InitializationFails, PostureInv, Posture
<1>4. LoadingInv'
  BY <1>2 DEF AcceptSettings, RefuseSettings, NotConfigured, LoadPredictor,
              ValidateContract, WarmUp, Publish, InitializationFails, LoadingInv, Loading,
              PredictorContractHolds, ConfiguredTenant
<1>5. ContainerInv'
  BY <1>2 DEF AcceptSettings, RefuseSettings, NotConfigured, LoadPredictor,
              ValidateContract, WarmUp, Publish, InitializationFails, LoadingInv, Loading,
              PredictorContractHolds, ConfiguredTenant, ContainerInv, Cleared, Ready
<1>6. DecisionInv'
  BY <1>1 DEF DecisionInv
<1>7. DispatchInv'
  BY <1>1 DEF DispatchInv, policyVars, profileVars
<1>8. QED
  BY <1>1, <1>3, <1>4, <1>5, <1>6, <1>7

\* The facts of the stages do not depend on the call.
LEMMA StageKept ==
  ASSUME StageInv, UNCHANGED <<scenario, stage, container>>
  PROVE  StageInv' /\ UNCHANGED <<settings, source, call>>
<1>1. UNCHANGED <<settings, source, call>>
  BY DEF settings, source, call
<1>2. QED
  BY <1>1 DEF StageInv, PostureInv, Posture, LoadingInv, ContainerInv, Cleared, Ready,
              PredictorContractHolds, ConfiguredTenant

LEMMA RouteSteps ==
  ASSUME ServingInv, UNCHANGED <<policyVars, profileVars>>,
         \/ RejectKey \/ RejectIdentity \/ RejectRoute \/ ResolveTenant
         \/ ParsePayload \/ Authorize \/ RejectTenant
  PROVE  ServingInv'
<1> USE DEF ServingInv
<1>1. UNCHANGED <<scenario, stage, container>>
  BY DEF RejectKey, RejectIdentity, RejectRoute, ResolveTenant, ParsePayload, Authorize,
         RejectTenant, Decide
<1>2. StageInv' /\ UNCHANGED <<settings, source, call>>
  BY <1>1, StageKept
<1>3. decision # "dispatched" /\ decision' # "dispatched"
  BY DEF RejectKey, RejectIdentity, RejectRoute, ResolveTenant, ParsePayload, Authorize,
         RejectTenant, Decide
<1>4. DispatchInv'
  BY <1>1, <1>2, <1>3 DEF DispatchInv, policyVars, profileVars
<1>5. DecisionInv'
  BY <1>1, <1>2 DEF RejectKey, RejectIdentity, RejectRoute, ResolveTenant, ParsePayload,
              Authorize, RejectTenant, Decide, DecisionInv, Bound, KeyPasses, RoutedHere
<1>6. QED
  BY <1>2, <1>4, <1>5

\* Once nothing of the access changes, its facts remain.
LEMMA DecisionKept ==
  ASSUME DecisionInv, UNCHANGED <<scenario, stage, authorized>>,
         \/ decision' = decision
         \/ decision = "authorized" /\ decision' = "dispatched"
  PROVE  DecisionInv'
  BY DEF DecisionInv, Bound, KeyPasses, RoutedHere, settings, call

LEMMA DispatchStep ==
  ASSUME ServingInv, ExecuteRecommendation
  PROVE  ServingInv'
<1> USE DEF ServingInv
<1>1. UNCHANGED <<scenario, stage, container, authorized>>
      /\ decision = "authorized" /\ decision' = "dispatched"
  BY DEF ExecuteRecommendation
<1>2. StageInv' /\ DecisionInv' /\ UNCHANGED call
  BY <1>1, StageKept, DecisionKept
<1>3. DispatchInv'
  BY <1>1, <1>2 DEF ExecuteRecommendation, Receive, Execute, DispatchInv, policyVars,
                    profileVars
<1>4. QED
  BY <1>2, <1>3

LEMMA ProfileSteps ==
  ASSUME ServingInv, UNCHANGED accessVars,
         \/ PolicyNext /\ UNCHANGED profileVars
         \/ ProfileNext /\ UNCHANGED policyVars
         \/ UNCHANGED <<policyVars, profileVars>>
  PROVE  ServingInv'
<1> USE DEF ServingInv
<1>1. UNCHANGED <<scenario, stage, container, decision, authorized>>
  BY DEF accessVars
<1>2. StageInv' /\ UNCHANGED call
  BY <1>1, StageKept
<1>3. DecisionInv'
  <2>1. UNCHANGED <<scenario, stage, authorized>> /\ decision' = decision
    BY <1>1
  <2>2. QED
    BY <2>1, DecisionKept
<1>4. CASE UNCHANGED <<policyVars, profileVars>>
  BY <1>1, <1>2, <1>3, <1>4 DEF DispatchInv, policyVars, profileVars
<1>5. CASE PolicyNext /\ UNCHANGED profileVars
  <2>1. progress # "not called" /\ progress' # "not called" /\ UNCHANGED <<context, predictor>>
    BY <1>5 DEF PolicyNext, RefuseContext, CheckScope, RefuseScope, FeasiblePrices,
                RefuseGrid, Predict, PredictionFails, Select, Explain,
                ExplanationFails, RefuseDemand, End
  <2>2. /\ progress' = "model unavailable" => predictor = NoModel
        /\ progress' = "out of scope" =>
             context.tenant \notin predictor.tenants \/ context.currency # predictor.currency
    BY <1>5 DEF PolicyNext, RefuseContext, CheckScope, RefuseScope, FeasiblePrices,
                RefuseGrid, Predict, PredictionFails, Select, Explain,
                ExplanationFails, RefuseDemand, End
  <2>3. DispatchInv'
    BY <1>1, <1>2, <1>5, <2>1, <2>2 DEF DispatchInv, profileVars
  <2>4. QED
    BY <1>2, <1>3, <2>3
<1>6. CASE ProfileNext /\ UNCHANGED policyVars
  <2>1. phase # "not called" /\ phase' # "not called"
    BY <1>6 DEF ProfileNext, RejectContract, AbstainFromProfile, Screen, ExcludeOutliers,
                WeighEvidence, Recommend, Abstain
  <2>2. DispatchInv'
    BY <1>1, <1>2, <1>6, <2>1 DEF DispatchInv, policyVars
  <2>3. QED
    BY <1>2, <1>3, <2>2
<1>7. QED
  BY <1>4, <1>5, <1>6

LEMMA StepServing == ServingInv /\ [Next]_vars => ServingInv'
<1> SUFFICES ASSUME ServingInv, [Next]_vars PROVE ServingInv'
  OBVIOUS
<1>1. CASE AccessNext /\ UNCHANGED <<policyVars, profileVars>>
  BY <1>1, StartSteps, RouteSteps DEF AccessNext
<1>2. CASE ExecuteRecommendation
  BY <1>2, DispatchStep
<1>p. CASE ParsePayload
  BY <1>p, RouteSteps DEF ParsePayload
<1>3. CASE PolicyNext /\ UNCHANGED <<accessVars, profileVars>>
  BY <1>3, ProfileSteps
<1>4. CASE ProfileNext /\ UNCHANGED <<accessVars, policyVars>>
  BY <1>4, ProfileSteps
<1>5. CASE UNCHANGED vars
  BY <1>5, ProfileSteps DEF vars
<1>6. QED
  BY <1>1, <1>2, <1>p, <1>3, <1>4, <1>5 DEF Next

LEMMA AlwaysServing == Spec => []ServingInv
  BY InitServing, StepServing, PTL DEF Spec

----------------------------------------------------------------------------
\* For any settings and any model: a serving process is READY exactly if it has
\* published a predictor that passed every check and covers the bound tenants.
THEOREM PublicationIsWhole == Spec => []PublishedIsWhole
<1>1. ServingInv => PublishedIsWhole
  <2> SUFFICES ASSUME StageInv, stage = "serving" PROVE PublishedIsWhole
    BY DEF ServingInv, PublishedIsWhole
  <2>1. Posture(settings)
    BY DEF StageInv, PostureInv
  <2>2. CASE container = Cleared("NOT_CONFIGURED", "none") /\ settings.uri = "none"
    BY <2>2 DEF PublishedIsWhole, Cleared
  <2>3. CASE container = Cleared("UNAVAILABLE", "MODEL_LOAD_FAILED") /\ settings.uri # "none"
    BY <2>3 DEF PublishedIsWhole, Cleared
  <2>4. CASE /\ container = Ready /\ settings.uri # "none" /\ source # NoModel
             /\ PredictorContractHolds(source) /\ source.warm
    <3>1. container.predictor = source /\ container.state = "READY" /\ container.failure = "none"
      BY <2>4 DEF Ready
    <3>2. settings.production => settings.uri = "champion"
      BY <2>1, <2>4 DEF Posture
    <3>3. /\ source.compatible
          /\ settings.servingTenant \in {NoTenant} \cup source.tenants
          /\ settings.servingTenant = NoTenant =>
               settings.keyTenant \in {NoTenant} \cup source.tenants
      BY <2>4 DEF PredictorContractHolds, ConfiguredTenant
    <3>4. QED
      BY <2>4, <3>1, <3>2, <3>3 DEF PublishedIsWhole
  <2>5. QED
    BY <2>2, <2>3, <2>4 DEF StageInv, ContainerInv
<1>2. QED
  BY <1>1, AlwaysServing, PTL

\* What a dispatched call went through: the key, an identity, the payload.
LEMMA DispatchedForTheirTenant ==
  ASSUME ServingInv, decision = "dispatched"
  PROVE  /\ settings.production => call.key /\ call.tenant = settings.servingTenant
         /\ settings.keyTenant # NoTenant => call.key /\ call.tenant = settings.keyTenant
         /\ settings.trustProxy => call.key /\ call.tenant = call.header
<1>1. /\ KeyPasses /\ Bound /\ authorized \in {NoTenant, call.tenant}
      /\ Posture(settings)
  BY DEF ServingInv, StageInv, DecisionInv, PostureInv
<1>2. /\ settings.keyTenant \in Tenants \cup {NoTenant}
      /\ NoTenant \notin Tenants
  BY AccessConstants DEF AccessConstants, ServingInv, StageInv, settings
<1>3. QED
  BY <1>1, <1>2 DEF KeyPasses, Bound, RoutedHere, Posture

\* For any settings and calls, nobody is answered for somebody else's tenant.
THEOREM AnswersKeepTenantsApart == Spec => []AnsweredForTheirTenant
<1>1. ServingInv => AnsweredForTheirTenant
  <2> SUFFICES ASSUME ServingInv, Response = "200" PROVE AnsweredForTheirTenant
    BY DEF AnsweredForTheirTenant
  <2>1. decision = "dispatched"
    <3>1. NoAnswer.status = "none"
      BY DEF NoAnswer
    <3>2. ASSUME progress = "not called", answer.status = "none" PROVE Response # "200"
      BY <3>2 DEF Response
    <3>3. progress # "not called" \/ answer # NoAnswer
      BY <3>1, <3>2
    <3>4. QED
      BY <3>3 DEF ServingInv, DispatchInv
  <2>2. QED
    BY <2>1, DispatchedForTheirTenant DEF AnsweredForTheirTenant
<1>2. QED
  BY <1>1, AlwaysServing, PTL

LEMMA UnavailableOrUnexplained ==
  Response = "503" => progress \in {"model unavailable", "unexplained"}
  BY DEF Response

\* For any settings, models and calls, READY in production is a promise to every
\* authorized caller: the model is there and covers the caller's tenant.
THEOREM ReadinessIsKept == Spec => []ReadyMeansInScope
<1>1. ServingInv => ReadyMeansInScope
  <2> SUFFICES ASSUME ServingInv, settings.production, container.state = "READY",
                      progress # "not called"
               PROVE  /\ progress # "model unavailable"
                      /\ progress = "out of scope" => context.currency # predictor.currency
    BY UnavailableOrUnexplained DEF ReadyMeansInScope
  <2>1. /\ decision = "dispatched" /\ stage = "serving"
        /\ call.kind = "performance-aware" /\ context = call.payload
        /\ predictor = container.predictor
    BY DEF ServingInv, DispatchInv, DecisionInv
  <2>2. call.tenant = settings.servingTenant /\ settings.servingTenant # NoTenant
    BY <2>1, DispatchedForTheirTenant DEF ServingInv, StageInv, PostureInv, Posture
  <2>3. context.tenant = call.tenant
    BY <2>1, AccessConstants DEF AccessConstants, ServingInv, StageInv, call
  <2>4. container = Ready /\ source # NoModel /\ PredictorContractHolds(source)
    <3>1. Cleared("NOT_CONFIGURED", "none").state # "READY"
      BY DEF Cleared
    <3>2. Cleared("UNAVAILABLE", "MODEL_LOAD_FAILED").state # "READY"
      BY DEF Cleared
    <3>3. QED
      BY <2>1, <3>1, <3>2 DEF ServingInv, StageInv, ContainerInv
  <2>5. predictor = source /\ settings.servingTenant \in source.tenants
    BY <2>1, <2>2, <2>4 DEF Ready, PredictorContractHolds, ConfiguredTenant
  <2>6. context.tenant \in predictor.tenants
    BY <2>2, <2>3, <2>5
  <2>7. QED
    BY <2>4, <2>5, <2>6 DEF ServingInv, DispatchInv
<1>2. QED
  BY <1>1, AlwaysServing, PTL

----------------------------------------------------------------------------
(* Integer division, and the bounds of the grid *)

LEMMA Division ==
  ASSUME NEW n \in Int, NEW d \in Nat \ {0}
  PROVE  /\ n \div d \in Int
         /\ d * (n \div d) <= n
         /\ n < d * (n \div d) + d
  BY SMT

LEMMA Scaling ==
  ASSUME NEW a \in Int, NEW b \in Int, NEW d \in Nat \ {0}
  PROVE  /\ a <= b <=> d * a <= d * b
         /\ d * a < d * b + d => a <= b
  BY SMT

LEMMA Hundredfold ==
  ASSUME NEW i \in Int, NEW k \in Int
  PROVE  (100 * i) * k = 100 * (k * i)
  BY SMT

LEMMA FloorIsLargest ==
  ASSUME NEW n \in Int, NEW d \in Nat \ {0}, NEW k \in Int
  PROVE  Floor(n, d) \in Int /\ (k <= Floor(n, d) <=> d * k <= n)
<1> DEFINE q == n \div d
<1>1. q \in Int /\ d * q <= n /\ n < d * q + d
  BY Division
<1> HIDE DEF q
<1>2. k <= q <=> d * k <= d * q
  BY <1>1, Scaling
<1>3. d * k < d * q + d => k <= q
  BY <1>1, Scaling
<1>4. d * k \in Int /\ d * q \in Int
  BY <1>1, SMT
<1>5. k <= q <=> d * k <= n
  BY <1>1, <1>2, <1>3, <1>4, SMT
<1>6. QED
  BY <1>1, <1>5 DEF Floor, q

LEMMA CeilingIsSmallest ==
  ASSUME NEW n \in Int, NEW d \in Nat \ {0}, NEW k \in Int
  PROVE  Ceiling(n, d) \in Int /\ (Ceiling(n, d) <= k <=> n <= d * k)
<1>1. /\ Floor(-n, d) \in Int
      /\ -k <= Floor(-n, d) <=> d * (-k) <= -n
  BY FloorIsLargest, SMT
<1>2. d * (-k) = -(d * k) /\ d * k \in Int
  BY SMT
<1>3. Ceiling(n, d) = -Floor(-n, d)
  BY DEF Ceiling, Floor
<1>4. QED
  BY <1>1, <1>2, <1>3, SMT

LEMMA Extremes ==
  ASSUME NEW a \in Int, NEW b \in Int
  PROVE  /\ Max({a, b}) = IF a >= b THEN a ELSE b
         /\ Min({a, b}) = IF a <= b THEN a ELSE b
  BY SMT DEF Max, Min

\* The payloads the schema lets through.
Contexts == {c \in Payloads : SchemaAccepts(c)}

LEMMA ContextTyped ==
  ASSUME NEW c \in Contexts
  PROVE  /\ c.current \in Nat \ {0} /\ c.minimum \in Nat \ {0}
         /\ c.maximum \in Nat \ {0} /\ c.increment \in Nat \ {0}
         /\ c.change \in 0..35
  BY DEF Contexts, SchemaAccepts, PricesHold

LEMMA BoundsTyped ==
  ASSUME NEW c \in Contexts
  PROVE  /\ LowerBound(c) \in Int /\ UpperBound(c) \in Int
         /\ 100 * c.increment \in Nat \ {0}
         /\ \A n \in Int :
              /\ LowerBound(c) <= n <=>
                   100 * c.minimum <= n /\ c.current * (100 - c.change) <= n
              /\ n <= UpperBound(c) <=>
                   n <= 100 * c.maximum /\ n <= c.current * (100 + c.change)
<1> DEFINE low == c.current * (100 - c.change)
           high == c.current * (100 + c.change)
<1>1. low \in Int /\ high \in Int /\ 100 * c.minimum \in Int /\ 100 * c.maximum \in Int
      /\ 100 * c.increment \in Nat \ {0}
  BY ContextTyped, SMT
<1>2. /\ LowerBound(c) = IF 100 * c.minimum >= low THEN 100 * c.minimum ELSE low
      /\ UpperBound(c) = IF 100 * c.maximum <= high THEN 100 * c.maximum ELSE high
  BY <1>1, Extremes, ZenonT(30) DEF LowerBound, UpperBound
<1> HIDE DEF low, high
<1>3. QED
  BY <1>1, <1>2, SMT DEF low, high

----------------------------------------------------------------------------
(* The grid holds exactly the permitted prices: k steps of the increment   *)
(* are permitted if and only if k lies between the two rounded bounds.     *)

LEMMA MultiplesBound ==
  ASSUME NEW c \in Contexts, NEW k \in Int
  PROVE  /\ FirstMultiple(c) \in Int /\ LastMultiple(c) \in Int
         /\ FirstMultiple(c) <= k <=> LowerBound(c) <= (100 * c.increment) * k
         /\ k <= LastMultiple(c) <=> (100 * c.increment) * k <= UpperBound(c)
<1> DEFINE d == 100 * c.increment
<1>1. d \in Nat \ {0} /\ LowerBound(c) \in Int /\ UpperBound(c) \in Int
  BY BoundsTyped
<1>2. FirstMultiple(c) = Ceiling(LowerBound(c), d) /\ LastMultiple(c) = Floor(UpperBound(c), d)
  BY DEF FirstMultiple, LastMultiple
<1> HIDE DEF d
<1>3. /\ Ceiling(LowerBound(c), d) \in Int
      /\ Ceiling(LowerBound(c), d) <= k <=> LowerBound(c) <= d * k
  BY <1>1, CeilingIsSmallest
<1>4. Floor(UpperBound(c), d) \in Int /\ (k <= Floor(UpperBound(c), d) <=> d * k <= UpperBound(c))
  BY <1>1, FloorIsLargest
<1>5. QED
  BY <1>2, <1>3, <1>4 DEF d

LEMMA StepsTyped ==
  ASSUME NEW c \in Contexts
  PROVE  FirstMultiple(c) \in Int /\ LastMultiple(c) \in Int
<1>1. 0 \in Int
  OBVIOUS
<1>2. QED
  BY <1>1, MultiplesBound

LEMMA StepWithinBounds ==
  ASSUME NEW c \in Contexts, NEW k \in Int
  PROVE  k \in FirstMultiple(c)..LastMultiple(c) <=>
           /\ c.minimum <= k * c.increment /\ k * c.increment <= c.maximum
           /\ c.current * (100 - c.change) <= 100 * (k * c.increment)
           /\ 100 * (k * c.increment) <= c.current * (100 + c.change)
<1> DEFINE p == k * c.increment
<1>1. /\ FirstMultiple(c) \in Int /\ LastMultiple(c) \in Int
      /\ p \in Int /\ c.minimum \in Int /\ c.maximum \in Int
      /\ c.current * (100 - c.change) \in Int /\ c.current * (100 + c.change) \in Int
  BY ContextTyped, StepsTyped, SMT
<1>2. (100 * c.increment) * k = 100 * p
  BY ContextTyped, Hundredfold
<1>3. FirstMultiple(c) <= k <=> LowerBound(c) <= 100 * p
  BY <1>2, MultiplesBound
<1>4. k <= LastMultiple(c) <=> 100 * p <= UpperBound(c)
  BY <1>2, MultiplesBound
<1>5. 100 * p \in Int
  BY <1>1, SMT
<1>6. /\ LowerBound(c) <= 100 * p <=>
           100 * c.minimum <= 100 * p /\ c.current * (100 - c.change) <= 100 * p
      /\ 100 * p <= UpperBound(c) <=>
           100 * p <= 100 * c.maximum /\ 100 * p <= c.current * (100 + c.change)
  BY <1>5, BoundsTyped
<1> HIDE DEF p
<1>7. /\ 100 * c.minimum <= 100 * p <=> c.minimum <= p
      /\ 100 * p <= 100 * c.maximum <=> p <= c.maximum
  BY <1>1, SMT
<1>8. k \in FirstMultiple(c)..LastMultiple(c)
        <=> FirstMultiple(c) <= k /\ k <= LastMultiple(c)
  BY <1>1
<1>9. QED
  BY <1>3, <1>4, <1>6, <1>7, <1>8, Zenon DEF p

LEMMA WholeSteps ==
  ASSUME NEW i \in Nat \ {0}, NEW p \in Nat
  PROVE  /\ p % i = 0 => p = (p \div i) * i /\ p \div i \in Int
         /\ \A k \in Int : p = k * i => p % i = 0
<1>1. p % i = 0 => p = (p \div i) * i /\ p \div i \in Int
  BY SMT
<1>2. ASSUME NEW k \in Int, p = k * i PROVE p % i = 0
  BY <1>2, SMT
<1>3. QED
  BY <1>1, <1>2

LEMMA GridIsPermitted ==
  ASSUME NEW c \in Contexts, NEW p \in Nat
  PROVE  p \in Grid(c) <=> Permitted(c, p)
<1>1. c.increment \in Nat \ {0}
  BY ContextTyped
<1>2. ASSUME p \in Grid(c) PROVE Permitted(c, p)
  <2>1. PICK k \in FirstMultiple(c)..LastMultiple(c) : p = k * c.increment
    BY <1>2 DEF Grid
  <2>2. k \in Int
    BY StepsTyped, SMT
  <2>3. QED
    BY <1>1, <2>1, <2>2, StepWithinBounds, WholeSteps DEF Permitted
<1>3. ASSUME Permitted(c, p) PROVE p \in Grid(c)
  <2>1. PICK k \in Int : p = k * c.increment
    BY <1>1, <1>3, WholeSteps DEF Permitted
  <2>2. k \in FirstMultiple(c)..LastMultiple(c)
    BY <1>3, <2>1, StepWithinBounds DEF Permitted
  <2>3. QED
    BY <2>1, <2>2 DEF Grid
<1>4. QED
  BY <1>2, <1>3

LEMMA GridIsPositive ==
  ASSUME NEW c \in Contexts
  PROVE  Grid(c) \subseteq 1..c.maximum
<1> SUFFICES ASSUME NEW p \in Grid(c) PROVE p \in 1..c.maximum
  OBVIOUS
<1>1. PICK k \in FirstMultiple(c)..LastMultiple(c) : p = k * c.increment
  BY DEF Grid
<1>2. k \in Int
  BY StepsTyped, SMT
<1>3. c.minimum <= p /\ p <= c.maximum /\ p \in Int
  BY <1>1, <1>2, StepWithinBounds, ContextTyped, SMT
<1>4. QED
  BY <1>3, ContextTyped, SMT

\* As many prices as the code counts before it builds the grid.
LEMMA GridIsCounted ==
  ASSUME NEW c \in Contexts, GridSize(c) \in Nat
  PROVE  IsFiniteSet(Grid(c)) /\ Cardinality(Grid(c)) = GridSize(c)
<1> DEFINE steps == FirstMultiple(c)..LastMultiple(c)
           price == [k \in steps |-> k * c.increment]
<1>1. /\ FirstMultiple(c) \in Int /\ LastMultiple(c) \in Int
      /\ c.increment \in Nat \ {0}
  BY StepsTyped, ContextTyped
<1>2. IsFiniteSet(steps) /\ Cardinality(steps) = GridSize(c)
  <2>1. Cardinality(steps) = IF FirstMultiple(c) > LastMultiple(c) THEN 0
                             ELSE LastMultiple(c) - FirstMultiple(c) + 1
    BY <1>1, FS_Interval
  <2>2. IsFiniteSet(steps)
    BY <1>1, FS_Interval
  <2>3. FirstMultiple(c) > LastMultiple(c) => GridSize(c) = 0
    BY <1>1, SMT DEF GridSize
  <2>4. QED
    BY <2>1, <2>2, <2>3 DEF GridSize
<1>3. ASSUME NEW j \in steps, NEW k \in steps, price[j] = price[k] PROVE j = k
  <2>1. j \in Int /\ k \in Int /\ j * c.increment = k * c.increment
    BY <1>1, <1>3
  <2>2. QED
    BY <1>1, <2>1, SMT
<1>4. price \in Bijection(steps, Grid(c))
  BY <1>3 DEF Bijection, Injection, Surjection, IsInjective, Grid
<1>5. ExistsBijection(steps, Grid(c))
  BY <1>4 DEF ExistsBijection
<1>6. QED
  BY <1>2, <1>5, FS_Bijection

----------------------------------------------------------------------------
(* The use case. What is authorized was parsed, so the context satisfies   *)
(* the schema. Behind the scope checks stands what each later step rests   *)
(* on: the grid is the grid of the request, and every price of it has a    *)
(* prediction.                                                             *)

PastSelection == {"selected", "recommended", "unexplained"}
PastPrediction == {"predicted", "no demand"} \cup PastSelection
PastGrid == {"priced", "failed"} \cup PastPrediction
PastScope == {"scoped", "no price", "too many prices"} \cup PastGrid

ParsedInv == decision \in {"parsed", "authorized"} => PayloadAccepted

ScopeInv ==
  /\ context \in Contexts
  /\ progress = "invalid" => ~ContextHolds(context)
  /\ progress \in PastScope =>
       context.tenant \in predictor.tenants /\ context.currency = predictor.currency

GridInv ==
  /\ progress \in PastGrid => prices = Grid(context)
  /\ progress = "no price" => FirstMultiple(context) > LastMultiple(context)
  /\ progress = "too many prices" => GridSize(context) > MaximumCandidates

DemandInv ==
  /\ progress \in PastPrediction => demand \in [prices -> Occupancies]
  /\ progress \in PastSelection =>
       selected \in Feasible /\ \A q \in Feasible : Prefers(selected, q)
  /\ progress = "no demand" => Feasible = {}

PolicyInv ==
  /\ scenario \in Scenarios
  /\ ParsedInv
  /\ progress # "not called" => ScopeInv /\ GridInv /\ DemandInv

LEMMA InitPolicyInv == Init => PolicyInv
  BY DEF Init, AccessInit, PolicyIdle, PolicyInv, ParsedInv

\* An authorized payload satisfies the schema, whatever was sent.
LEMMA AuthorizedHoldsContext ==
  ASSUME PolicyInv, decision = "authorized", call.kind = "performance-aware"
  PROVE  call.payload \in Contexts
<1>1. call.payload \in Payloads
  BY AccessConstants DEF AccessConstants, PolicyInv, call
<1>2. QED
  BY <1>1 DEF PolicyInv, ParsedInv, PayloadAccepted, Contexts

\* What was parsed stays parsed.
LEMMA ParsedKept ==
  ASSUME ParsedInv, UNCHANGED scenario,
         decision' \in {"parsed", "authorized"} => decision \in {"parsed", "authorized"}
  PROVE  ParsedInv'
<1>1. UNCHANGED call
  BY DEF call
<1>2. PayloadAccepted' = PayloadAccepted
  BY <1>1 DEF PayloadAccepted, SchemaAccepts, PricesHold, SignalsHold, SignalRange,
              Coordinates, RequestAccepted, ComparableAccepted
<1>3. QED
  BY <1>2 DEF ParsedInv

\* The steps of the use case.
LEMMA PolicyStepInv ==
  ASSUME PolicyInv, PolicyNext, UNCHANGED <<scenario, decision>>
  PROVE  PolicyInv'
<1>p. ParsedInv'
  BY ParsedKept DEF PolicyInv
<1>r. ASSUME NEW how \in {"model unavailable", "out of scope"}, End(how),
             progress = "requested"
      PROVE  PolicyInv'
  BY <1>p, <1>r DEF End, PolicyInv, ScopeInv, GridInv, DemandInv, PastScope, PastGrid,
              PastPrediction, PastSelection
<1>0. CASE RefuseContext
  <2>1. /\ UNCHANGED <<context, predictor, prices, demand, selected>>
        /\ progress = "requested" /\ progress' = "invalid" /\ ~ContextHolds(context)
    BY <1>0 DEF RefuseContext, End
  <2>2. ~ContextHolds(context)'
    BY <2>1 DEF ContextHolds, SchemaAccepts, PricesHold, SignalsHold, SignalRange,
                Coordinates
  <2>3. QED
    BY <1>p, <2>1, <2>2 DEF PolicyInv, ScopeInv, GridInv, DemandInv, PastScope, PastGrid,
                            PastPrediction, PastSelection
<1>1. CASE CheckScope
  BY <1>p, <1>1 DEF CheckScope, PolicyInv, ScopeInv, GridInv, DemandInv, PastScope, PastGrid,
              PastPrediction, PastSelection
<1>2. CASE RefuseScope
  BY <1>2, <1>r DEF RefuseScope
<1>3. CASE FeasiblePrices
  BY <1>p, <1>3 DEF FeasiblePrices, PolicyInv, ScopeInv, GridInv, DemandInv, PastScope,
              PastGrid, PastPrediction, PastSelection
<1>4. CASE RefuseGrid
  BY <1>p, <1>4 DEF RefuseGrid, End, PolicyInv, ScopeInv, GridInv, DemandInv, PastScope,
              PastGrid, PastPrediction, PastSelection
<1>5. CASE Predict
  BY <1>p, <1>5 DEF Predict, PolicyInv, ScopeInv, GridInv, DemandInv, PastScope, PastGrid,
              PastPrediction, PastSelection
<1>6. CASE Select
  <2>1. PICK p \in Feasible : (\A q \in Feasible : Prefers(p, q)) /\ selected' = p
    BY <1>6 DEF Select
  <2>2. /\ UNCHANGED <<context, predictor, prices, demand>>
        /\ progress = "predicted" /\ progress' = "selected"
    BY <1>6 DEF Select
  <2>3. /\ Feasible' = Feasible
        /\ \A a, b : Prefers(a, b)' = Prefers(a, b)
    BY <2>2 DEF Feasible, Prefers, Revenue, OccupancySuffices
  <2>4. DemandInv'
    BY <2>1, <2>2, <2>3 DEF DemandInv, PolicyInv, PastPrediction, PastSelection
  <2>5. ScopeInv' /\ GridInv'
    BY <2>2 DEF PolicyInv, ScopeInv, GridInv, PastScope, PastGrid, PastPrediction, PastSelection
  <2>6. QED
    BY <1>p, <2>4, <2>5 DEF PolicyInv
<1>7. CASE RefuseDemand
  <2>1. /\ UNCHANGED <<context, predictor, prices, demand, selected>>
        /\ progress = "predicted" /\ progress' = "no demand" /\ Feasible = {}
    BY <1>7 DEF RefuseDemand, End
  <2>2. Feasible' = Feasible
    BY <2>1 DEF Feasible, OccupancySuffices
  <2>3. QED
    BY <1>p, <2>1, <2>2 DEF PolicyInv, ScopeInv, GridInv, DemandInv, PastScope, PastGrid,
                      PastPrediction, PastSelection
<1>8. CASE PredictionFails
  BY <1>p, <1>8 DEF PredictionFails, End, PolicyInv, ScopeInv, GridInv, DemandInv, PastScope,
              PastGrid, PastPrediction, PastSelection
<1>9. CASE Explain \/ ExplanationFails
  <2>1. /\ UNCHANGED <<context, predictor, prices, demand, selected>>
        /\ progress = "selected" /\ progress' \in {"recommended", "unexplained"}
    BY <1>9 DEF Explain, ExplanationFails, End
  <2>2. /\ Feasible' = Feasible
        /\ \A a, b : Prefers(a, b)' = Prefers(a, b)
    BY <2>1 DEF Feasible, Prefers, Revenue, OccupancySuffices
  <2>3. QED
    BY <1>p, <2>1, <2>2 DEF PolicyInv, ScopeInv, GridInv, DemandInv, PastScope, PastGrid,
                            PastPrediction, PastSelection
<1>10. QED
  BY <1>0, <1>1, <1>2, <1>3, <1>4, <1>5, <1>6, <1>7, <1>8, <1>9 DEF PolicyNext

\* A step beside the use case, after which what is authorized is parsed.
LEMMA OtherSteps ==
  ASSUME PolicyInv, UNCHANGED policyVars, UNCHANGED scenario, ParsedInv'
  PROVE  PolicyInv'
<1>1. UNCHANGED <<context, predictor, progress, prices, demand, selected>>
  BY DEF policyVars
<1>2. /\ Feasible' = Feasible
      /\ \A a, b : Prefers(a, b)' = Prefers(a, b)
      /\ ContextHolds(context)' = ContextHolds(context)
      /\ (context \in Contexts)' = (context \in Contexts)
  BY <1>1 DEF Feasible, Prefers, Revenue, OccupancySuffices, ContextHolds, Contexts,
              SchemaAccepts, PricesHold, SignalsHold, SignalRange, Coordinates
<1>3. QED
  BY <1>1, <1>2 DEF PolicyInv, ScopeInv, GridInv, DemandInv

LEMMA StepPolicyInv == PolicyInv /\ [Next]_vars => PolicyInv'
<1> SUFFICES ASSUME PolicyInv, [Next]_vars PROVE PolicyInv'
  OBVIOUS
<1>1. CASE UNCHANGED <<policyVars, scenario, decision>>
  <2>1. ParsedInv'
    BY <1>1, ParsedKept DEF PolicyInv
  <2>2. QED
    BY <1>1, <2>1, OtherSteps
<1>2. CASE ParsePayload
  <2>1. UNCHANGED <<policyVars, scenario>>
        /\ (decision' \in {"parsed", "authorized"} => PayloadAccepted)
    BY <1>2 DEF ParsePayload, Decide
  <2>2. PayloadAccepted' = PayloadAccepted
    <3>1. call' = call
      BY <2>1 DEF call
    <3>2. SchemaAccepts(call.payload)' = SchemaAccepts(call.payload)
      BY <3>1 DEF SchemaAccepts, PricesHold, SignalsHold, SignalRange, Coordinates
    <3>3. RequestAccepted(call.payload)' = RequestAccepted(call.payload)
      BY <3>1 DEF RequestAccepted, ComparableAccepted
    <3>4. QED
      BY <3>1, <3>2, <3>3 DEF PayloadAccepted
  <2>3. QED
    BY <2>1, <2>2, OtherSteps DEF ParsedInv
<1>3. CASE ExecuteRecommendation
  <2>1. UNCHANGED scenario /\ decision = "authorized" /\ decision' = "dispatched"
    BY <1>3 DEF ExecuteRecommendation
  <2>2. ParsedInv'
    BY <2>1 DEF ParsedInv
  <2>3. CASE call.kind = "performance-aware"
    <3>1. Execute(call.payload, container.predictor)
      BY <1>3, <2>3 DEF ExecuteRecommendation
    <3>2. call.payload \in Contexts
      BY <2>1, <2>3, AuthorizedHoldsContext
    <3>3. QED
      BY <2>1, <2>2, <3>1, <3>2 DEF Execute, PolicyInv, ScopeInv, GridInv, DemandInv,
                                    PastScope, PastGrid, PastPrediction, PastSelection,
                                    Contexts
  <2>4. CASE call.kind # "performance-aware"
    BY <1>3, <2>1, <2>2, <2>4, OtherSteps DEF ExecuteRecommendation
  <2>5. QED
    BY <2>3, <2>4
<1>4. CASE PolicyNext /\ UNCHANGED accessVars
  BY <1>4, PolicyStepInv DEF accessVars
<1>5. CASE AccessNext /\ UNCHANGED policyVars
  <2>1. /\ UNCHANGED scenario
        /\ decision' \in {"parsed", "authorized"} => decision \in {"parsed", "authorized"}
    BY <1>5 DEF AccessNext, AcceptSettings, RefuseSettings, NotConfigured, LoadPredictor,
         ValidateContract, WarmUp, Publish, InitializationFails, RejectKey, RejectIdentity,
         RejectRoute, ResolveTenant, Authorize, RejectTenant, Decide
  <2>2. ParsedInv'
    BY <2>1, ParsedKept DEF PolicyInv
  <2>3. QED
    BY <1>5, <2>1, <2>2, OtherSteps
<1>6. QED
  BY <1>1, <1>2, <1>3, <1>4, <1>5 DEF Next, vars, accessVars

LEMMA AlwaysPolicyInv == Spec => []PolicyInv
  BY InitPolicyInv, StepPolicyInv, PTL DEF Spec

\* For every request, a recommended price is permitted and in scope, and no
\* permitted price with enough occupancy is preferred to it: rounding the bounds
\* to the increment loses none and adds none.
THEOREM BestPriceWins == Spec => []BestPermittedPrice
<1>1. PolicyInv => BestPermittedPrice
  <2> SUFFICES ASSUME PolicyInv, progress = "recommended" PROVE BestPermittedPrice
    BY DEF BestPermittedPrice
  <2>1. /\ context \in Contexts
        /\ context.tenant \in predictor.tenants /\ context.currency = predictor.currency
        /\ prices = Grid(context) /\ demand \in [prices -> Occupancies]
        /\ selected \in Feasible /\ \A q \in Feasible : Prefers(selected, q)
    BY DEF PolicyInv, ScopeInv, GridInv, DemandInv, PastScope, PastGrid, PastPrediction,
           PastSelection
  <2>2. selected \in Grid(context) /\ OccupancySuffices(selected)
    BY <2>1 DEF Feasible
  <2>3. Grid(context) \subseteq 1..context.maximum /\ context.maximum \in Nat
    BY <2>1, GridIsPositive, ContextTyped
  <2>4. 1..context.maximum \subseteq Nat
    BY <2>3, SMT
  <2>5. Permitted(context, selected)
    BY <2>1, <2>2, <2>3, <2>4, GridIsPermitted
  <2>6. ASSUME NEW p \in 1..context.maximum, Permitted(context, p)
        PROVE  /\ p \in DOMAIN demand
               /\ OccupancySuffices(p) =>
                    /\ Revenue(p) <= Revenue(selected)
                    /\ Revenue(p) = Revenue(selected) => selected <= p
    <3>1. p \in Grid(context)
      BY <2>1, <2>4, <2>6, GridIsPermitted
    <3>2. OccupancySuffices(p) => Prefers(selected, p)
      BY <2>1, <3>1 DEF Feasible
    <3>3. Revenue(p) \in Int /\ Revenue(selected) \in Int
      <4>1. p \in Int /\ selected \in Int
        BY <2>2, <2>3, <2>4
      <4>2. demand[p] \in Int /\ demand[selected] \in Int
        <5>1. Occupancies \subseteq Int
          BY PolicyConstants
        <5>2. p \in prices /\ selected \in prices
          BY <2>1, <2>2, <3>1
        <5>3. QED
          BY <2>1, <5>1, <5>2
      <4>3. QED
        BY <4>1, <4>2 DEF Revenue
    <3>4. QED
      BY <2>1, <3>1, <3>2, <3>3 DEF Prefers
  <2>7. QED
    BY <2>1, <2>2, <2>5, <2>6 DEF BestPermittedPrice
<1>2. QED
  BY <1>1, AlwaysPolicyInv, PTL

\* For every request, a refusal tells the truth: no price is permitted, more are
\* permitted than may be tried, none of them has enough occupancy, or the dates
\* are reversed or an identifier is unprintable.
THEOREM RefusalsAreTrue == Spec => []RefusedForCause
<1>1. PolicyInv => RefusedForCause
  <2> SUFFICES ASSUME ScopeInv, GridInv, DemandInv PROVE RefusedForCause
    BY DEF PolicyInv, RefusedForCause
  <2> DEFINE permitted == {p \in 1..context.maximum : Permitted(context, p)}
  <2>1. context \in Contexts
    BY DEF ScopeInv
  <2>2. permitted = Grid(context)
    <3>1. Grid(context) \subseteq 1..context.maximum /\ context.maximum \in Nat
      BY <2>1, GridIsPositive, ContextTyped
    <3>2. 1..context.maximum \subseteq Nat
      BY <3>1, SMT
    <3>3. ASSUME NEW p \in 1..context.maximum
          PROVE  p \in Grid(context) <=> Permitted(context, p)
      BY <2>1, <3>2, GridIsPermitted
    <3>4. QED
      BY <3>1, <3>3
  <2> HIDE DEF permitted
  <2>3. /\ FirstMultiple(context) \in Int /\ LastMultiple(context) \in Int
        /\ MaximumCandidates \in Nat
    BY <2>1, StepsTyped, PolicyConstants
  <2>4. ASSUME progress = "no price" PROVE permitted = {}
    <3>1. FirstMultiple(context) > LastMultiple(context)
      BY <2>4 DEF GridInv
    <3>2. FirstMultiple(context)..LastMultiple(context) = {}
      BY <2>3, <3>1, SMT
    <3>3. ASSUME NEW p \in Grid(context) PROVE FALSE
      BY <3>2, <3>3 DEF Grid
    <3>4. QED
      BY <2>2, <3>3
  <2>5. ASSUME progress = "too many prices" PROVE Cardinality(permitted) > MaximumCandidates
    <3>1. GridSize(context) > MaximumCandidates
      BY <2>5 DEF GridInv
    <3>2. GridSize(context) \in Nat
      BY <2>3, <3>1, SMT DEF GridSize
    <3>3. Cardinality(Grid(context)) = GridSize(context)
      BY <2>1, <3>2, GridIsCounted
    <3>4. QED
      BY <2>2, <3>1, <3>3
  <2>6. ASSUME progress = "no demand", NEW p \in permitted PROVE ~OccupancySuffices(p)
    BY <2>2, <2>6 DEF GridInv, DemandInv, PastGrid, PastPrediction, Feasible
  <2>7. ASSUME progress = "invalid" PROVE ~context.printable \/ context.asOf > context.stay
    <3>1. ~ContextHolds(context) /\ SchemaAccepts(context)
      BY <2>1, <2>7 DEF ScopeInv, Contexts
    <3>2. context.asOf \in Int /\ context.stay \in Int
      BY <2>1, PolicyConstants DEF PolicyConstants, Contexts
    <3>3. QED
      BY <3>1, <3>2, SMT DEF ContextHolds
  <2>8. QED
    BY <2>4, <2>5, <2>6, <2>7 DEF RefusedForCause, permitted
<1>2. QED
  BY <1>1, AlwaysPolicyInv, PTL
============================================================================
