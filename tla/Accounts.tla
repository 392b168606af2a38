------------------------------ MODULE Accounts ------------------------------
(***************************************************************************)
(* The money records of AuctionHaus and the elementary movements the       *)
(* services perform on them.                                               *)
(*                                                                         *)
(* An account is a user's Wallet row (balance, held) together with the     *)
(* totals of the Transaction rows written for that wallet, one total per   *)
(* kind of row.  Totals are kept positive; the code signs the rows.        *)
(* Money is a number of cents (Decimal(18,2) in the schema).               *)
(*                                                                         *)
(*   unlogged  deposits added to the balance whose row is not written yet  *)
(*   deposits, withdrawals   DEPOSIT and WITHDRAWAL rows                   *)
(*   holds, releases         BID_HOLD rows, BID_RELEASE rows of an outbid, *)
(*                           raised or lost bid                            *)
(*   refunds                 BID_RELEASE rows of a cancelled auction       *)
(*   won, bought, sold       PAYMENT rows: debit of a won auction, debit   *)
(*                           of a buy-now, credit of the seller            *)
(***************************************************************************)
EXTENDS Integers

Account == [balance: Int, held: Int, unlogged: Nat,
            deposits: Nat, withdrawals: Nat, holds: Nat, releases: Nat,
            refunds: Nat, won: Nat, bought: Nat, sold: Nat]

\* A wallet that has received one logged deposit of `amount'.
Opened(amount) ==
  [balance |-> amount, held |-> 0, unlogged |-> 0,
   deposits |-> amount, withdrawals |-> 0, holds |-> 0, releases |-> 0,
   refunds |-> 0, won |-> 0, bought |-> 0, sold |-> 0]

\* Mutation: money on hold counts as available.
AvailableWithHeld(account) == account.balance

\* What placeBid and withdraw compare an amount with.
Available(account) == account.balance - account.held

-----------------------------------------------------------------------------
(* Movements: each returns the accounts after the update and its row.      *)

Hold(acct, u, amount) ==
  [acct EXCEPT ![u].held = @ + amount, ![u].holds = @ + amount]

Release(acct, u, amount) ==
  [acct EXCEPT ![u].held = @ - amount, ![u].releases = @ + amount]

\* Mutation: the releases of a sealed auction write no row.
ReleaseAllUnlogged(acct, released) ==
  [u \in DOMAIN acct |-> [acct[u] EXCEPT !.held = @ - released[u]]]

\* The losers of a sealed auction are released together: released[u] is the
\* sum of the losing bids of user u.
ReleaseAll(acct, released) ==
  [u \in DOMAIN acct |->
     [acct[u] EXCEPT !.held = @ - released[u], !.releases = @ + released[u]]]

\* cancelAuction credits the balance as well as dropping the hold.
RefundAll(acct, refund) ==
  [u \in DOMAIN acct |->
     [acct[u] EXCEPT !.balance = @ + refund[u],
                     !.held    = @ - refund[u],
                     !.refunds = @ + refund[u]]]

\* The seller's half of a sale.
Earn(acct, seller, amount) ==
  [acct EXCEPT ![seller].balance = @ + amount, ![seller].sold = @ + amount]

\* Mutation: the hold is paid out but the balance of the payer stays.
PayWonFromHold(acct, payer, seller, amount) ==
  Earn([acct EXCEPT ![payer].held = @ - amount, ![payer].won = @ + amount], seller, amount)

\* settleWithinTx, kind WON_AUCTION: balance and hold of the payer go down
\* together and the seller is credited.
PayWon(acct, payer, seller, amount) ==
  Earn([acct EXCEPT ![payer].balance = @ - amount,
                    ![payer].held    = @ - amount,
                    ![payer].won     = @ + amount], seller, amount)

\* settleWithinTx, kind DIRECT_SALE: only the balance of the payer goes down.
PayDirect(acct, payer, seller, amount) ==
  Earn([acct EXCEPT ![payer].balance = @ - amount, ![payer].bought = @ + amount],
       seller, amount)

CreditDeposit(acct, u, amount) ==
  [acct EXCEPT ![u].balance = @ + amount, ![u].unlogged = @ + amount]

LogDeposit(acct, u, amount) ==
  [acct EXCEPT ![u].unlogged = @ - amount, ![u].deposits = @ + amount]

Debit(acct, u, amount) ==
  [acct EXCEPT ![u].balance = @ - amount, ![u].withdrawals = @ + amount]
=============================================================================
