-------------------------- MODULE MCModelRegistry --------------------------
(* ModelRegistry on small instances, for TLC. *)
EXTENDS ModelRegistry

CONSTANTS t1, t2, acme, globex

OneTrainer == [t \in {t1} |-> acme]
TwoTrainers == [t \in {t1, t2} |-> IF t = t1 THEN acme ELSE globex]
============================================================================
