------------------------- MODULE MCWebhookDelivery -------------------------
(***************************************************************************)
(* WebhookDelivery on small instances, for TLC.                            *)
(***************************************************************************)
EXTENDS WebhookDelivery, TLC

(* Replicas are interchangeable, and so are deliveries.                    *)
Symmetry == Permutations(Deliverers) \cup Permutations(Deliveries)
=============================================================================
