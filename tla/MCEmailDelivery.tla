--------------------------- MODULE MCEmailDelivery ---------------------------
(* TLC instances of EmailDelivery. *)
EXTENDS EmailDelivery

CONSTANTS w1, w2
=============================================================================
