---------------------- MODULE MCRecommendationEndpoint ----------------------
(***************************************************************************)
(* RecommendationEndpoint on small instances, for TLC. Fewer threads than  *)
(* clients and fewer permits than threads, so that jobs queue for a thread *)
(* and requests for a permit; liveness rules out symmetry.                 *)
(***************************************************************************)
EXTENDS RecommendationEndpoint

CONSTANTS r1, r2, r3, r4, p1

ThreeRequests == {r1, r2, r3}
FourRequests == {r1, r2, r3, r4}
OneProbe == {p1}
=============================================================================
