-------------------------------- MODULE Sale --------------------------------
(***************************************************************************)
(* What the escrow path promises, without bids, holds, jobs or statuses:   *)
(* each auction is sold at most once, and a sale takes one amount from one *)
(* user and gives that same amount to the seller of the auction.           *)
(***************************************************************************)
EXTENDS Integers

CONSTANTS Users, Auctions, Amounts, NoSale

VARIABLES
  sellerOf,  \* [Auctions -> the user who sells it]
  sale,      \* [Auctions -> a sale, or NoSale]
  paid,      \* [Users -> what the user has paid for auctions]
  earned     \* [Users -> what the user has earned by selling]

saleVars == <<sellerOf, sale, paid, earned>>

SaleInit ==
  /\ sellerOf \in [Auctions -> Users]
  /\ sale   = [a \in Auctions |-> NoSale]
  /\ paid   = [u \in Users |-> 0]
  /\ earned = [u \in Users |-> 0]

\* Auction a is sold to u.
Sell(a, u, amount, kind) ==
  /\ sale[a] = NoSale
  /\ u # sellerOf[a]
  /\ amount > 0
  /\ sale'   = [sale EXCEPT ![a] = [party |-> u, amount |-> amount, kind |-> kind]]
  /\ paid'   = [paid EXCEPT ![u] = @ + amount]
  /\ earned' = [earned EXCEPT ![sellerOf[a]] = @ + amount]
  /\ UNCHANGED sellerOf

SaleNext ==
  \E a \in Auctions, u \in Users, amount \in Amounts :
    \E kind \in {"WON_AUCTION", "DIRECT_SALE"} : Sell(a, u, amount, kind)

SaleSpec == SaleInit /\ [][SaleNext]_saleVars
=============================================================================
