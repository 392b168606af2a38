--------------------------- MODULE MCFraudWindow ---------------------------
(***************************************************************************)
(* An instance of the detector's window for TLC: two auctions of one       *)
(* seller.                                                                 *)
(***************************************************************************)
EXTENDS FraudWindow

CONSTANTS ann, bob, x, y

Sellers == [a \in Auctions |-> "seller"]
=============================================================================
