----------------------------- MODULE MCPresence -----------------------------
(***************************************************************************)
(* One gateway, and two of them, for TLC.                                  *)
(***************************************************************************)
EXTENDS Presence

CONSTANTS v1, v2, g1, g2

OneGateway  == v1 :> g1 @@ v2 :> g1
TwoGateways == v1 :> g1 @@ v2 :> g2
=============================================================================
