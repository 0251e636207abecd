--------------------------- MODULE ServingAccess ---------------------------
(***************************************************************************)
(* One API process (Settings of config.py, ApplicationContainer of         *)
(* interfaces/api/container.py, the dependencies of the recommendation     *)
(* route of interfaces/api/app.py): it checks its settings, loads the      *)
(* optional model, and then authorizes one call.                           *)
(*                                                                         *)
(* Three parts compare tenants, each a different pair: the settings the    *)
(* key's tenant with the serving tenant, the container the bound tenant    *)
(* with the model's, the route the caller's with the payload's.            *)
(***************************************************************************)
EXTENDS PricingPolicy

CONSTANTS
  Tenants,
  NoTenant,     \* a setting or a header that is absent
  BadIdentity,  \* a header value that is no identifier
  Scenarios     \* the processes and calls: settings, source, call

\* A scenario: the environment variables that are set, what the configured URI
\* holds, and a call.
ASSUME AccessConstants ==
  /\ {NoTenant, BadIdentity} \cap Tenants = {}
  /\ \A s \in Scenarios :
       /\ {s.settings.production, s.settings.hosts, s.settings.trustProxy,
           s.settings.header, s.call.key} \subseteq BOOLEAN
       /\ s.settings.apiKey \in {"none", "short", "long"}
       /\ s.settings.uri \in {"none", "champion", "other"}
       /\ {s.settings.keyTenant, s.settings.servingTenant} \subseteq Tenants \cup {NoTenant}
       /\ s.call.header \in Tenants \cup {NoTenant, BadIdentity}
       /\ s.call.tenant \in Tenants
       /\ s.call.kind \in {"performance-aware", "statistical"}
       /\ s.call.kind = "performance-aware" => s.call.payload.tenant = s.call.tenant
  /\ {s.source : s \in Scenarios} \subseteq Predictors \cup {NoModel}
  /\ {s.call.payload : s \in {t \in Scenarios : t.call.kind = "performance-aware"}}
       \subseteq Payloads
  /\ \A p \in Predictors : {p.compatible, p.warm} \subseteq BOOLEAN

VARIABLES
  scenario,    \* what the process was started with and is called with
  stage,       \* how far the start of the process got
  container,   \* the published predictor, the profile's state and failure code
  decision,    \* what the route's dependencies decided of the call
  authorized   \* the tenant they resolved

accessVars == <<scenario, stage, container, decision, authorized>>

settings == scenario.settings
source == scenario.source
call == scenario.call

----------------------------------------------------------------------------
(* Settings *)

\* Mutant: production asks for a tenant of the key, not for the serving one.
PostureWithoutMatch(s) ==
  /\ s.keyTenant # NoTenant \/ s.trustProxy => s.apiKey # "none"
  /\ s.trustProxy => s.header /\ s.keyTenant = NoTenant
  /\ s.production =>
       /\ s.apiKey = "long" /\ s.hosts
       /\ s.uri \in {"none", "champion"}
       /\ s.servingTenant # NoTenant
       /\ s.keyTenant # NoTenant \/ s.trustProxy

\* validate_security_posture
Posture(s) ==
  /\ s.keyTenant # NoTenant \/ s.trustProxy => s.apiKey # "none"
  /\ s.trustProxy => s.header /\ s.keyTenant = NoTenant
  /\ s.production =>
       /\ s.apiKey = "long" /\ s.hosts
       /\ s.uri \in {"none", "champion"}
       /\ s.servingTenant # NoTenant
       /\ s.keyTenant # NoTenant \/ s.trustProxy
       /\ s.keyTenant \in {NoTenant, s.servingTenant}

AcceptSettings ==
  /\ stage = "configuring"
  /\ Posture(settings)
  /\ stage' = "initializing"
  /\ UNCHANGED <<scenario, container, decision, authorized>>

RefuseSettings ==
  /\ stage = "configuring"
  /\ ~Posture(settings)
  /\ stage' = "refused"
  /\ UNCHANGED <<scenario, container, decision, authorized>>

----------------------------------------------------------------------------
(* The container: nothing is published before the last step succeeded *)

Cleared(state, failure) == [predictor |-> NoModel, state |-> state, failure |-> failure]

NotConfigured ==
  /\ stage = "initializing"
  /\ settings.uri = "none"
  /\ container' = Cleared("NOT_CONFIGURED", "none")
  /\ stage' = "serving"
  /\ UNCHANGED <<scenario, decision, authorized>>

LoadPredictor ==
  /\ stage = "initializing"
  /\ settings.uri # "none"
  /\ source # NoModel
  /\ stage' = "loaded"
  /\ UNCHANGED <<scenario, container, decision, authorized>>

\* Mutant: only the serving tenant is compared with the model's scope.
HoldsForServing(candidate) ==
  /\ candidate.compatible
  /\ settings.servingTenant \in {NoTenant} \cup candidate.tenants

ConfiguredTenant ==
  IF settings.servingTenant # NoTenant THEN settings.servingTenant ELSE settings.keyTenant

PredictorContractHolds(candidate) ==
  /\ candidate.compatible
  /\ ConfiguredTenant \in {NoTenant} \cup candidate.tenants

ValidateContract ==
  /\ stage = "loaded"
  /\ PredictorContractHolds(source)
  /\ stage' = "validated"
  /\ UNCHANGED <<scenario, container, decision, authorized>>

WarmUp ==
  /\ stage = "validated"
  /\ source.warm
  /\ stage' = "warm"
  /\ UNCHANGED <<scenario, container, decision, authorized>>

\* _build_service and _publish_experimental_profile.
Publish ==
  /\ stage = "warm"
  /\ container' = [predictor |-> source, state |-> "READY", failure |-> "none"]
  /\ stage' = "serving"
  /\ UNCHANGED <<scenario, decision, authorized>>

\* Loading and building the service may fail for reasons of their own.
InitializationFails ==
  /\ \/ stage = "initializing" /\ settings.uri # "none"
     \/ stage = "loaded" /\ ~PredictorContractHolds(source)
     \/ stage = "validated" /\ ~source.warm
     \/ stage = "warm"
  /\ container' = Cleared("UNAVAILABLE", "MODEL_LOAD_FAILED")
  /\ stage' = "serving"
  /\ UNCHANGED <<scenario, decision, authorized>>

----------------------------------------------------------------------------
(* The dependencies of the route *)

KeyPasses == settings.apiKey = "none" \/ call.key

Decide(what) ==
  decision' = what /\ UNCHANGED <<scenario, stage, container, authorized>>

RejectKey ==
  /\ stage = "serving" /\ decision = "pending"
  /\ ~KeyPasses
  /\ Decide("401")

RejectIdentity ==
  /\ stage = "serving" /\ decision = "pending"
  /\ KeyPasses /\ settings.keyTenant = NoTenant /\ settings.trustProxy
  /\ call.header \in {NoTenant, BadIdentity}
  /\ Decide("401")

\* Mutant: a trusted identity is believed wherever it was routed.
RoutedAnywhere(tenant) == TRUE

RoutedHere(tenant) == settings.servingTenant \in {NoTenant, tenant}

RejectRoute ==
  /\ stage = "serving" /\ decision = "pending"
  /\ KeyPasses /\ settings.keyTenant = NoTenant /\ settings.trustProxy
  /\ call.header \in Tenants
  /\ ~RoutedHere(call.header)
  /\ Decide("403")

\* The key's tenant, the trusted header's, or none.
ResolveTenant ==
  /\ stage = "serving" /\ decision = "pending"
  /\ KeyPasses
  /\ \/ settings.keyTenant # NoTenant /\ authorized' = settings.keyTenant
     \/ /\ settings.keyTenant = NoTenant /\ settings.trustProxy
        /\ call.header \in Tenants /\ RoutedHere(call.header)
        /\ authorized' = call.header
     \/ settings.keyTenant = NoTenant /\ ~settings.trustProxy /\ authorized' = NoTenant
  /\ decision' = "resolved"
  /\ UNCHANGED <<scenario, stage, container>>

\* authorize_pricing_request, once the payload is parsed
Authorize ==
  /\ decision = "parsed"
  /\ authorized \in {NoTenant, call.tenant}
  /\ Decide("authorized")

RejectTenant ==
  /\ decision = "parsed"
  /\ authorized \notin {NoTenant, call.tenant}
  /\ Decide("403")

----------------------------------------------------------------------------
AccessInit ==
  /\ scenario \in Scenarios
  /\ stage = "configuring"
  /\ container = Cleared("NOT_CONFIGURED", "none")
  /\ decision = "pending"
  /\ authorized = NoTenant

AccessNext ==
  \/ AcceptSettings \/ RefuseSettings
  \/ NotConfigured \/ LoadPredictor \/ ValidateContract \/ WarmUp \/ Publish
  \/ InitializationFails
  \/ RejectKey \/ RejectIdentity \/ RejectRoute \/ ResolveTenant
  \/ Authorize \/ RejectTenant

----------------------------------------------------------------------------
(* Properties *)

AccessTypeOK ==
  /\ stage \in {"configuring", "refused", "initializing", "loaded", "validated", "warm", "serving"}
  /\ container \in [predictor : Predictors \cup {NoModel},
                    state : {"NOT_CONFIGURED", "READY", "UNAVAILABLE"},
                    failure : {"none", "MODEL_LOAD_FAILED"}]
  /\ decision \in {"pending", "401", "403", "resolved", "422", "parsed",
                  "authorized", "dispatched"}
  /\ authorized \in Tenants \cup {NoTenant}

\* A process that serves has published a predictor exactly if it reports READY;
\* that predictor passed the contract and the warm-up and covers every tenant a
\* setting binds the process to; in production it came from the governed alias.
\* A failure code goes with a configured model that is not there.
PublishedIsWhole ==
  stage = "serving" =>
    /\ container.state = "READY" <=> container.predictor # NoModel
    /\ container.state = "UNAVAILABLE" <=> container.failure = "MODEL_LOAD_FAILED"
    /\ container.state = "NOT_CONFIGURED" <=> settings.uri = "none"
    /\ container.predictor # NoModel =>
         /\ container.predictor.compatible /\ container.predictor.warm
         /\ settings.production => settings.uri = "champion"
         /\ settings.servingTenant \in {NoTenant} \cup container.predictor.tenants
         /\ settings.servingTenant = NoTenant =>
              settings.keyTenant \in {NoTenant} \cup container.predictor.tenants
============================================================================
