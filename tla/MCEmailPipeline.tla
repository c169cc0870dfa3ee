-------------------------- MODULE MCEmailPipeline --------------------------
(* Values for checking EmailPipeline with TLC. *)
EXTENDS EmailPipeline, TLC

(* The workers of a queue are interchangeable.  Notifications are not: the *)
(* choice of a free one is an order on them.                               *)
Symmetry == Permutations(BillingWorker) \cup Permutations(EmailWorker)
=============================================================================
