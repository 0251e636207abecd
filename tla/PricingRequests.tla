-------------------------- MODULE PricingRequests --------------------------
(***************************************************************************)
(* One API process and one call of the recommendation route                *)
(* (interfaces/api/app.py). Once its dependencies named the caller, the    *)
(* payload is parsed by one of two schemas; what is authorized then        *)
(* reaches execute_recommendation: the type of the payload decides which   *)
(* profile answers, the stable one or the one that needs a model. Neither  *)
(* falls back to the other. Exception handlers turn every end into a       *)
(* status.                                                                 *)
(***************************************************************************)
EXTENDS ServingAccess, StatisticalProfile

ASSUME RequestConstants ==
  {s.call.payload : s \in {t \in Scenarios : t.call.kind = "statistical"}} \subseteq Requests

vars == <<accessVars, policyVars, profileVars>>

PayloadAccepted ==
  IF call.kind = "statistical" THEN RequestAccepted(call.payload)
  ELSE SchemaAccepts(call.payload)

ParsePayload ==
  /\ decision = "resolved"
  /\ Decide(IF PayloadAccepted THEN "parsed" ELSE "422")
  /\ UNCHANGED <<policyVars, profileVars>>

ExecuteRecommendation ==
  /\ decision = "authorized"
  /\ decision' = "dispatched"
  /\ \/ /\ call.kind = "statistical"
        /\ Receive(call.payload)
        /\ UNCHANGED policyVars
     \/ /\ call.kind = "performance-aware"
        /\ Execute(call.payload, container.predictor)
        /\ UNCHANGED profileVars
  /\ UNCHANGED <<scenario, stage, container, authorized>>

\* The status of the response, "none" while the call is under way.
Response ==
  CASE decision \in {"401", "403", "422"} -> decision
    [] progress \in {"model unavailable", "unexplained"} -> "503"
    [] progress = "failed" -> "500"
    [] \/ progress \in {"invalid", "out of scope", "no price", "too many prices", "no demand"}
       \/ answer.status = "contract error" -> "422"
    [] progress = "recommended" \/ answer.status \in {"abstained", "recommended"} -> "200"
    [] OTHER -> "none"

Init == AccessInit /\ PolicyIdle /\ ProfileIdle

Next ==
  \/ AccessNext /\ UNCHANGED <<policyVars, profileVars>>
  \/ ParsePayload
  \/ ExecuteRecommendation
  \/ PolicyNext /\ UNCHANGED <<accessVars, profileVars>>
  \/ ProfileNext /\ UNCHANGED <<accessVars, policyVars>>

Spec == Init /\ [][Next]_vars

----------------------------------------------------------------------------
(* Properties *)

\* Every variable of the profile that answers has its type.
TypeOK ==
  /\ AccessTypeOK
  /\ phase = "not called" \/ ProfileTypeOK
  /\ progress = "not called" \/ PolicyTypeOK

\* Nobody is answered for somebody else's tenant. In production a caller showed
\* the key and the tenant of the payload is the one the process serves; wherever
\* a key or a gateway identifies callers, it is the identified one.
AnsweredForTheirTenant ==
  Response = "200" =>
    /\ settings.production => call.key /\ call.tenant = settings.servingTenant
    /\ settings.keyTenant # NoTenant => call.key /\ call.tenant = settings.keyTenant
    /\ settings.trustProxy => call.key /\ call.tenant = call.header

\* Three comparisons of tenants, in settings, container and route, leave nothing
\* for the fourth: in production a READY process never lacks the model that a
\* recommendation needs, nor turns the call down because its model is another
\* tenant's. A 503 of the recommendation itself (the one for want of a permit is
\* RecommendationEndpoint's) then means that the model did not explain its price.
ReadyMeansInScope ==
  settings.production /\ container.state = "READY" =>
    /\ Response = "503" => progress = "unexplained"
    /\ progress = "out of scope" => context.currency # predictor.currency
============================================================================
