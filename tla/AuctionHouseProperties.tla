----------------------- MODULE AuctionHouseProperties -----------------------
(***************************************************************************)
(* What the bidding and settlement core is expected to guarantee.          *)
(***************************************************************************)
EXTENDS AuctionHouse

\* What an auction can be sold for.
SaleAmounts == BidAmounts \cup {t[a].buyNowPrice : t \in Catalogs, a \in Auctions}

Ledger == INSTANCE Sale WITH
  Amounts  <- SaleAmounts,
  NoSale   <- NoSettlement,
  sellerOf <- [a \in Auctions |-> Seller(a)],
  sale     <- settlement,
  paid     <- [u \in Users |-> acct[u].won + acct[u].bought],
  earned   <- [u \in Users |-> acct[u].sold]

\* The rows hold values of their columns' types, and a run of endAuction that
\* is still to settle has a winner and a bid of its auction to settle.
TypeOK ==
  /\ terms      \in Catalogs
  /\ acct       \in [Users -> Account]
  /\ status     \in [Auctions -> Statuses]
  /\ expired    \in [Auctions -> BOOLEAN]
  /\ price      \in [Auctions -> Nat \ {0}]
  /\ winner     \in [Auctions -> Users \cup {NoUser}]
  /\ winnerBid  \in [Auctions -> Nat]
  /\ bids       \in [Auctions -> Seq(Bid)]
  /\ settlement \in [Auctions -> Settlement \cup {NoSettlement}]
  /\ starting   \subseteq Auctions
  /\ drops      \subseteq Drop
  /\ endJob     \in [Auctions -> BOOLEAN]
  /\ closing    \subseteq Closing
  /\ \A c \in closing : c.winner # NoUser => c.bid \in DOMAIN bids[c.auction]
  /\ \A c \in closing : c.step = "settle" => c.winner # NoUser
  /\ faults     \in Nat

\* The seller is never among the bidders or winners of the auction.
SellerOutside ==
  /\ \A a \in Auctions : \A i \in DOMAIN bids[a] : bids[a][i].bidder # Seller(a)
  /\ \A c \in closing : c.winner # Seller(c.auction)

-----------------------------------------------------------------------------
(* Money                                                                   *)

\* Every wallet is explained by its transaction rows: the hold is what BID_HOLD
\* rows took and no release or won payment gave back, the balance is the sum
\* of deposits, withdrawals, payments and cancellation credits.
LedgerExplainsWallets ==
  \A u \in Users :
    /\ acct[u].held = acct[u].holds - acct[u].releases - acct[u].refunds - acct[u].won
    /\ acct[u].balance =
         acct[u].deposits + acct[u].unlogged - acct[u].withdrawals
           + acct[u].refunds + acct[u].sold - acct[u].won - acct[u].bought

\* The checks of placeBid and withdraw never let a wallet hold more than its
\* balance; only buy-now, which looks at the whole balance, can, and by no
\* more than what the user has bought.
HoldsCovered ==
  \A u \in Users : acct[u].held <= acct[u].balance + acct[u].bought

\* A bid that settlement has paid for.
PaidFor(a, i) ==
  /\ bids[a][i].status = "WON"
  /\ settlement[a] = [party |-> bids[a][i].bidder, amount |-> bids[a][i].amount,
                      kind |-> "WON_AUCTION"]

\* Bids whose amount should be on hold.
Standing(a) ==
  {i \in BidsWith(a, "WINNING") \cup BidsWith(a, "WON") : ~PaidFor(a, i)}

\* No cancellation has refunded u a sealed bid that endAuction will release again.
NotRefundedSealed(u) ==
  \/ acct[u].refunds = 0
  \/ \A a \in Auctions : Sealed(a) => \A i \in DOMAIN bids[a] : bids[a][i].bidder # u

NoSealedTie ==
  \A a \in Auctions : Sealed(a) => Cardinality(TopOf(a, DOMAIN bids[a])) <= 1

\* The hold of a wallet is exactly the sum of the user's standing bids over all
\* auctions: no bid is unfunded, held twice or released twice.
HeldBacksBids ==
  NoSealedTie =>
    \A u \in Users : NotRefundedSealed(u) =>
      acct[u].held = SumFunction([a \in Auctions |-> Staked(a, Standing(a), u)])

\* Money is neither created nor lost between wallets: their total is what came
\* in less what went out, plus what cancelAuction credited.
MoneyConserved ==
  SumFunction([u \in Users |-> acct[u].balance]) =
    SumFunction([u \in Users |-> acct[u].deposits + acct[u].unlogged + acct[u].refunds
                                   - acct[u].withdrawals])

\* Each auction is sold at most once, for one amount that the buyer pays and
\* the seller receives: the escrow path implements Sale.
SoldOnce == Ledger!SaleSpec

-----------------------------------------------------------------------------
(* Bidding and outcome                                                     *)

\* An English auction climbs: until it is bought now, each bid tops the one
\* before by the increment and the last one is the current price; and only the
\* last one may hold money as WINNING.
EnglishBidsClimb ==
  \A a \in Auctions : English(a) =>
    /\ \A i \in DOMAIN bids[a] : bids[a][i].status = "WINNING" => i = Len(bids[a])
    /\ settlement[a].kind # "DIRECT_SALE" =>
         /\ \A i \in DOMAIN bids[a] : i > 1 =>
              bids[a][i].amount >= bids[a][i - 1].amount + terms[a].minIncrement
         /\ bids[a] # <<>> => price[a] = bids[a][Len(bids[a])].amount

\* The winner of an ended auction made a bid that meets the reserve and that no
\* other bid of the auction exceeds.
BestBidWins ==
  \A a \in Auctions :
    status[a] = "ENDED" /\ winner[a] # NoUser /\ settlement[a].kind # "DIRECT_SALE" =>
      /\ winnerBid[a] \in TopOf(a, DOMAIN bids[a])
      /\ bids[a][winnerBid[a]].bidder = winner[a]
      /\ MeetsReserve(a, winnerBid[a])

\* Two bids of a sealed auction are the highest.
TiedAtTop(a) == Sealed(a) /\ \E i, j \in TopOf(a, DOMAIN bids[a]) : i # j

\* A settlement took what the auction shows as its price.  A drop-price job that has read
\* the row of a Dutch auction writes its price after the sale: an acceptance has then paid
\* one step more than is shown, and of a direct purchase nothing is left to see.
AmountShown(a) ==
  \/ settlement[a].amount = price[a]
  \/ Dutch(a) /\ (\/ settlement[a].kind = "DIRECT_SALE"
                  \/ settlement[a].amount = price[a] + terms[a].dutchPriceStep)

\* Who pays for an ended auction, and how much, is what it shows, except for a drop of a
\* Dutch price that was under way: settlement took that from its winner; and until then,
\* wherever endAuction was cut short, the winner can confirm the payment, and of no other
\* amount.
PaidAsShown ==
  \A a \in Auctions :
    /\ Settled(a) => /\ status[a] = "ENDED"
                     /\ settlement[a].party = winner[a]
                     /\ AmountShown(a)
    /\ status[a] = "ENDED" /\ winner[a] # NoUser /\ ~Settled(a) /\ ~TiedAtTop(a) =>
         /\ Payable(winner[a], a) # {}
         /\ \A i \in Payable(winner[a], a) : bids[a][i].amount = price[a]

\* ENDED is final: no later step changes the status, the winner, the winning bid or the
\* price of an ended auction.  Only the price of a Dutch one may still change, to what a
\* drop-price job that has read the row before is about to write.
OutcomeFinal ==
  [][\A a \in Auctions : status[a] = "ENDED" =>
       /\ status'[a] = "ENDED"
       /\ winner'[a] = winner[a]
       /\ winnerBid'[a] = winnerBid[a]
       /\ \/ price'[a] = price[a]
          \/ Dutch(a) /\ [auction |-> a, price |-> price'[a]] \in drops]_vars

\* The runs of endAuction on a that know who won.
RunsOn(a) == {c \in closing : c.auction = a /\ c.winner = winner[a]}

\* The winner of a has not paid yet.
Owed(a) == status[a] = "ENDED" /\ winner[a] # NoUser /\ ~Settled(a)

\* Bids of the sealed auction a, which its job has ended, are not processed yet.
Withheld(a) ==
  /\ Sealed(a) /\ status[a] = "ENDED" /\ settlement[a].kind # "DIRECT_SALE"
  /\ \E i \in DOMAIN bids[a] : ~bids[a][i].refunded

\* No part of an auction's end is forgotten while no run of endAuction dies or fails: an
\* auction that has not ended has its job, and one that has is worked on by a run that
\* knows its winner until it is paid for, and by one that is still to release the losers
\* of a sealed auction until all its bids are processed.
NothingForgotten ==
  \A a \in Auctions :
    /\ status[a] # "ENDED" => endJob[a]
    /\ Owed(a) => RunsOn(a) # {}
    /\ Withheld(a) => \E c \in RunsOn(a) : c.step = "refund"

\* An auction that ended with a winner is eventually paid for.
WinnerPays ==
  \A a \in Auctions : (status[a] = "ENDED" /\ winner[a] # NoUser) ~> Settled(a)

\* The bids of a sealed auction that the job ended are eventually all
\* processed: one WON, the others LOST and released.
LosersReleased ==
  \A a \in Auctions :
    (Sealed(a) /\ status[a] = "ENDED" /\ settlement[a].kind # "DIRECT_SALE")
      ~> (\A i \in DOMAIN bids[a] : bids[a][i].refunded)

-----------------------------------------------------------------------------
(* What the repository's documents and comments say of the core and the    *)
(* code does not do.  TLC finds a counterexample to each.                  *)

\* "Money never appears or disappears": the wallets hold what came in less what
\* went out.  cancelAuction credits balances that placeBid never debited.
NoMoneyAppears ==
  SumFunction([u \in Users |-> acct[u].balance]) =
    SumFunction([u \in Users |-> acct[u].deposits + acct[u].unlogged - acct[u].withdrawals])

\* "No transition back to PENDING or ACTIVE from ENDED/CANCELLED".
NoReturnToActive ==
  [][\A a \in Auctions : status[a] \in {"ENDED", "CANCELLED"} =>
        status'[a] \in {"ENDED", "CANCELLED"}]_vars

\* A release happens "without ever double-refunding": no user is released more
\* than was held, so no held amount becomes negative.
NoDoubleRefund == \A u \in Users : acct[u].held >= 0

\* "A retry resumes from wherever the previous run left off": the losing bids of
\* a sealed auction that was won are released even if the worker crashes.
RetryResumes ==
  \A a \in Auctions :
    (Sealed(a) /\ status[a] = "ENDED" /\ winner[a] # NoUser /\ settlement[a].kind # "DIRECT_SALE")
      ~> (\A i \in DOMAIN bids[a] : bids[a][i].refunded)

\* "Winner: keep funds held": the bid that the refund of a sealed auction keeps is
\* one of the winner that the determination has shown.
KeptForWinner ==
  \A a \in Auctions : Sealed(a) /\ winner[a] # NoUser =>
    \A i \in DOMAIN bids[a] : bids[a][i].status = "WON" => bids[a][i].bidder = winner[a]
=============================================================================
