--------------------------- MODULE MCWebhookIntake ---------------------------
(***************************************************************************)
(* The deliveries of the run of WebhookIntake: two pushes, one of them     *)
(* without a delivery ID, and something else.                              *)
(***************************************************************************)
EXTENDS WebhookIntake, TLC

CONSTANTS d1, d2, d3

Kinds == (d1 :> "push") @@ (d2 :> "other") @@ (d3 :> "push")

RequestSymmetry == Permutations(Requests)
=============================================================================
