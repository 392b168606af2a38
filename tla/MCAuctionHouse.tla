--------------------------- MODULE MCAuctionHouse ---------------------------
(***************************************************************************)
(* Instances of the bidding and settlement core for TLC.  "x" is a single  *)
(* auction; "x" and "y" two that the same bidders take part in.            *)
(***************************************************************************)
EXTENDS AuctionHouseProperties, TLC

CONSTANTS seller, ann, bob

Listing(type, start, increment, reserve, buyNow) ==
  [type |-> type, seller |-> seller, startingPrice |-> start,
   minIncrement |-> increment, reservePrice |-> reserve, buyNowPrice |-> buyNow,
   dutchPriceStep |-> IF type = "DUTCH" THEN 1 ELSE 0]

One(listing) == [a \in {"x"} |-> listing]

English1 == Listing("ENGLISH", 1, 2, 4, 5)
Sealed1  == Listing("SEALED_BID", 1, 1, 3, 0)
\* One drop, and then the floor.
Dutch1   == Listing("DUTCH", 3, 1, 2, 4)

EachType    == {One(English1), One(Sealed1), One(Dutch1)}
\* An English and a sealed auction that the same bidders take part in.
Both(x, y) == [a \in {"x", "y"} |-> IF a = "x" THEN x ELSE y]
Pair  == {Both(Listing("ENGLISH", 1, 1, 0, 3), Sealed1)}
\* The same with other reserves, and a Dutch and a sealed auction.
Pairs == {Both(Listing("ENGLISH", 1, 1, 3, 3), Listing("SEALED_BID", 1, 1, 2, 0)),
          Both(Dutch1, Listing("SEALED_BID", 2, 1, 0, 0))}

Funds == [u \in Users |-> IF u = seller THEN 0 ELSE 5]
DeepFunds == [u \in Users |-> IF u = seller THEN 0 ELSE 7]

NoDeposits     == [u \in Users |-> 0]
SellerDeposits == [u \in Users |-> IF u = seller THEN 3 ELSE 0]

Bidders == Permutations({ann, bob})
=============================================================================
