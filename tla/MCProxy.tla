------------------------------- MODULE MCProxy -------------------------------
(***************************************************************************)
(* Instances of auto-bidding for TLC: one English auction, two or three    *)
(* bidders besides the seller.                                             *)
(***************************************************************************)
EXTENDS ProxyProperties, TLC

CONSTANTS seller, ann, bob, cat

Listing(start, increment) ==
  {[a \in {"x"} |-> [type |-> "ENGLISH", seller |-> seller, startingPrice |-> start,
                     minIncrement |-> increment, reservePrice |-> 0, buyNowPrice |-> 0,
                     dutchPriceStep |-> 0]]}

\* The increment divides the starting price and the first amount bid.
Grid == Listing(2, 2)

Funds == [u \in Users |-> IF u = seller THEN 0 ELSE 9]
NoDeposits == [u \in Users |-> 0]

TwoBidders == Permutations({ann, bob})
ThreeBidders == Permutations({ann, bob, cat})
=============================================================================
