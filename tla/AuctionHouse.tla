---------------------------- MODULE AuctionHouse ----------------------------
(***************************************************************************)
(* The bidding and settlement core of AuctionHaus: placeBid, buyNow,       *)
(* cancelAuction, moderateAuction, endAuction, confirmWinnerPayment and    *)
(* the wallet's deposit and withdraw, over the auctions, bids, wallets,    *)
(* transactions and settlements tables.                                    *)
(*                                                                         *)
(* Every interactive transaction of the services first takes the auction   *)
(* row FOR UPDATE and then the wallet rows it reads, so under READ         *)
(* COMMITTED it is one atomic action here.  What is not one transaction is *)
(* several actions: endAuction (determination, sealed refund, settlement), *)
(* the start-auction job (read, then write), the drop-price job (read,     *)
(* then write or endAuction; when it is due is Timetable's) and deposit    *)
(* (wallet, then row).  The continuation of an endAuction run between its  *)
(* transactions is a record in `closing'.                                  *)
(***************************************************************************)
EXTENDS Accounts, Sequences, FiniteSetsExt

CONSTANTS
  Users,           \* users that have a wallet
  NoUser,          \* the null winnerId
  Auctions,
  Catalogs,        \* the listings to start from: functions from Auctions to
                   \* the columns that createAuction fixes
  BidAmounts,      \* amounts that bidders submit
  Transfers,       \* amounts that users deposit or withdraw
  Opening,         \* [Users -> the balance deposited beforehand]
  Moderations,     \* the moderateAuction actions that admins use
  OneScheduler,    \* one server process: its scheduler runs one job at a time
  MaxBids,         \* bound: bids placed on one auction
  MaxDeposited,    \* [Users -> bound: the user's further deposits]
  FaultKinds,      \* what may go wrong in a run of endAuction
  MaxFaults        \* bound: how often it does

AuctionTerms ==
  [type: {"ENGLISH", "DUTCH", "SEALED_BID"}, seller: Users,
   startingPrice: Nat \ {0}, minIncrement: Nat \ {0},
   reservePrice: Nat, buyNowPrice: Nat, dutchPriceStep: Nat]   \* 0: the column is null

ASSUME CatalogsAssumption == Catalogs \subseteq [Auctions -> AuctionTerms]
ASSUME AmountsAssumption  == BidAmounts \subseteq Nat \ {0} /\ Transfers \subseteq Nat \ {0}
ASSUME OpeningAssumption  == Opening \in [Users -> Nat]
ASSUME FiniteAssumption   == IsFiniteSet(Users) /\ IsFiniteSet(Auctions)
ASSUME NoUserAssumption   == NoUser \notin Users
ASSUME BoundsAssumption   == MaxBids \in Nat /\ MaxDeposited \in [Users -> Nat] /\ MaxFaults \in Nat
ASSUME ModerationsAssumption == Moderations \subseteq {"cancel", "activate"}
ASSUME SchedulerAssumption == OneScheduler \in BOOLEAN
ASSUME FaultsAssumption == FaultKinds \subseteq {"crash", "stall", "abort"}

VARIABLES
  terms,        \* what createAuction stored, never changed
  acct,         \* wallet rows and the totals of their transaction rows
  status,       \* auctions.status
  expired,      \* has the clock passed auctions.endTime?
  price,        \* auctions.currentPrice
  winner,       \* auctions.winnerId
  winnerBid,    \* auctions.winnerBidId: a position in bids[a], 0 for null
  bids,         \* the bid rows of each auction, in creation order
  settlement,   \* the settlements row of each auction, if any
  starting,     \* auctions whose start-auction job has read PENDING
  drops,        \* drop-price jobs that have read the row: the price each will write
  endJob,       \* is the end-auction job still queued?
  closing,      \* endAuction runs between two of their transactions
  faults        \* faults so far

vars == <<terms, acct, status, expired, price, winner, winnerBid, bids, settlement,
          starting, drops, endJob, closing, faults>>

Statuses    == {"PENDING", "ACTIVE", "ENDED", "CANCELLED"}
BidStatuses == {"WINNING", "OUTBID", "WON", "LOST"}
Bid         == [bidder: Users, amount: Nat \ {0}, status: BidStatuses, refunded: BOOLEAN]
Settlement  == [party: Users, amount: Nat, kind: {"WON_AUCTION", "DIRECT_SALE"}]
NoSettlement == [party |-> NoUser, amount |-> 0, kind |-> "NONE"]
\* What a run of endAuction remembers after its first transaction.
Closing     == [auction: Auctions, winner: Users \cup {NoUser}, bid: Nat,
                step: {"refund", "settle"}]
Drop        == [auction: Auctions, price: Nat]

Seller(a)  == terms[a].seller
English(a) == terms[a].type = "ENGLISH"
Dutch(a)   == terms[a].type = "DUTCH"
Sealed(a)  == terms[a].type = "SEALED_BID"
\* Mutation: the idempotency guard is never found.
SettledForgotten(a) == FALSE
Settled(a) == settlement[a] # NoSettlement

\* Positions of the bids of a that have status st.
BidsWith(a, st) == {i \in DOMAIN bids[a] : bids[a][i].status = st}

\* Those of the bids at positions S that no other in S exceeds: what ORDER BY
\* amount DESC may put first.
TopOf(a, S) == {i \in S : \A j \in S : bids[a][j].amount <= bids[a][i].amount}

\* The money user u has in the bids of a at positions S.
Staked(a, S, u) ==
  SumFunctionOnSet([i \in DOMAIN bids[a] |-> bids[a][i].amount],
                   {i \in S : bids[a][i].bidder = u})

Mark(a, S, st) ==
  [i \in DOMAIN bids[a] |-> IF i \in S THEN [bids[a][i] EXCEPT !.status = st]
                                       ELSE bids[a][i]]

-----------------------------------------------------------------------------
(* placeBid                                                                *)

\* settleWithinTx with WON_AUCTION, from the accounts the transaction has so
\* far: a no-op when the auction has settled.
SettleWon(accounts, a, u, amount) ==
  /\ acct' = IF Settled(a) THEN accounts ELSE PayWon(accounts, u, Seller(a), amount)
  /\ settlement' = IF Settled(a) THEN settlement
                   ELSE [settlement EXCEPT ![a] =
                           [party |-> u, amount |-> amount, kind |-> "WON_AUCTION"]]

\* Mutation: an English bid only has to exceed the price.
BidAcceptableAnyRaise(a, amount) ==
  CASE English(a) -> amount > price[a]
    [] Dutch(a)   -> amount = price[a]
    [] Sealed(a)  -> amount > terms[a].startingPrice

BidAcceptable(a, amount) ==
  CASE English(a) -> amount >= price[a] + terms[a].minIncrement
    [] Dutch(a)   -> amount = price[a]
    [] Sealed(a)  -> amount > terms[a].startingPrice

\* The bid whose hold the new bid releases: the WINNING bid of an English
\* auction, the bidder's own included; 0 when there is none.
Displaced(a) ==
  IF English(a) /\ BidsWith(a, "WINNING") # {} THEN BidsWith(a, "WINNING") ELSE {0}

\* Mutation: the displaced bid keeps its hold.
AfterReleaseForgotten(a, prev) == acct

AfterRelease(a, prev) ==
  IF prev = 0 THEN acct
              ELSE Release(acct, bids[a][prev].bidder, bids[a][prev].amount)

NewBid(u, amount, st) ==
  [bidder |-> u, amount |-> amount, status |-> st, refunded |-> FALSE]

CanBid(u, a, amount) ==
  /\ status[a] = "ACTIVE"
  /\ Seller(a) # u
  /\ ~expired[a]
  /\ BidAcceptable(a, amount)
  /\ Available(acct[u]) >= amount        \* before the own hold is released
  /\ Len(bids[a]) < MaxBids

\* An English or sealed bid: hold the amount and become WINNING.
PlaceBid(u, a, amount) ==
  /\ ~Dutch(a)
  /\ CanBid(u, a, amount)
  /\ \E prev \in Displaced(a) :
       /\ acct' = Hold(AfterRelease(a, prev), u, amount)
       /\ bids' = [bids EXCEPT ![a] = Append(Mark(a, {prev}, "OUTBID"),
                                             NewBid(u, amount, "WINNING"))]
  /\ price' = IF Sealed(a) THEN price ELSE [price EXCEPT ![a] = amount]
  /\ UNCHANGED <<terms, status, expired, winner, winnerBid, settlement,
                 starting, drops, endJob, closing, faults>>

\* A Dutch bid accepts the price of the row, which a drop-price job may still lower
\* afterwards: it holds, ends the auction and settles in the same transaction.
AcceptDutch(u, a, amount) ==
  /\ Dutch(a)
  /\ CanBid(u, a, amount)
  /\ SettleWon(Hold(acct, u, amount), a, u, amount)
  /\ bids'      = [bids EXCEPT ![a] = Append(@, NewBid(u, amount, "WON"))]
  /\ price'     = [price EXCEPT ![a] = amount]
  /\ status'    = [status EXCEPT ![a] = "ENDED"]
  /\ winner'    = [winner EXCEPT ![a] = u]
  /\ winnerBid' = [winnerBid EXCEPT ![a] = Len(bids[a]) + 1]
  /\ UNCHANGED <<terms, expired, starting, drops, endJob, closing, faults>>

-----------------------------------------------------------------------------
(* buyNow, cancelAuction, moderateAuction                                  *)

\* The transaction checks the balance, not what is available of it, and
\* leaves the bids of the auction and their holds as they are.
BuyNow(u, a) ==
  /\ status[a] = "ACTIVE"
  /\ terms[a].buyNowPrice # 0
  /\ Seller(a) # u
  /\ ~Settled(a)                    \* alreadySettled: the row is returned as is
  /\ acct[u].balance >= terms[a].buyNowPrice
  /\ acct' = PayDirect(acct, u, Seller(a), terms[a].buyNowPrice)
  /\ settlement' = [settlement EXCEPT ![a] =
                      [party |-> u, amount |-> terms[a].buyNowPrice, kind |-> "DIRECT_SALE"]]
  /\ status' = [status EXCEPT ![a] = "ENDED"]
  /\ winner' = [winner EXCEPT ![a] = u]
  /\ price'  = [price EXCEPT ![a] = terms[a].buyNowPrice]
  /\ UNCHANGED <<terms, expired, winnerBid, bids, starting, drops, endJob, closing, faults>>

\* By the seller or an admin.  The end-auction job stays queued.
CancelAuction(a) ==
  /\ status[a] \notin {"ENDED", "CANCELLED"}
  /\ acct'   = RefundAll(acct, [u \in Users |-> Staked(a, BidsWith(a, "WINNING"), u)])
  /\ bids'   = [bids EXCEPT ![a] = Mark(a, BidsWith(a, "WINNING"), "OUTBID")]
  /\ status' = [status EXCEPT ![a] = "CANCELLED"]
  /\ UNCHANGED <<terms, expired, price, winner, winnerBid, settlement,
                 starting, drops, endJob, closing, faults>>

\* The admin's PATCH: the status is overwritten whatever it was.
ModerateAuction(a, action) ==
  /\ status' = [status EXCEPT ![a] = IF action = "cancel" THEN "CANCELLED" ELSE "ACTIVE"]
  /\ UNCHANGED <<terms, acct, expired, price, winner, winnerBid, bids, settlement,
                 starting, drops, endJob, closing, faults>>

-----------------------------------------------------------------------------
(* The start-auction job: an unlocked read, then an unconditional write    *)

\* The auction-scheduler worker has concurrency 1: a single process takes no
\* job while another one is under way.
SchedulerFree == OneScheduler => starting = {} /\ closing = {}

ReadPending(a) ==
  /\ SchedulerFree
  /\ status[a] = "PENDING"
  /\ starting' = starting \cup {a}
  /\ UNCHANGED <<terms, acct, status, expired, price, winner, winnerBid, bids,
                 settlement, endJob, closing, faults, drops>>

WriteActive(a) ==
  /\ a \in starting
  /\ status'   = [status EXCEPT ![a] = "ACTIVE"]
  /\ starting' = starting \ {a}
  /\ UNCHANGED <<terms, acct, expired, price, winner, winnerBid, bids,
                 settlement, endJob, closing, faults, drops>>

-----------------------------------------------------------------------------
(* endAuction: the determination transaction                               *)

MeetsReserve(a, b) ==
  terms[a].reservePrice = 0 \/ (b # 0 /\ bids[a][b].amount >= terms[a].reservePrice)

\* Mutation: the query has no ORDER BY amount.
LeadingUnordered(a) == IF BidsWith(a, "WINNING") = {} THEN {0} ELSE BidsWith(a, "WINNING")

\* The WINNING bid that ORDER BY amount DESC LIMIT 1 returns, 0 for none.
Leading(a) ==
  IF BidsWith(a, "WINNING") = {} THEN {0} ELSE TopOf(a, BidsWith(a, "WINNING"))

\* Mutations: no refund of a sealed auction without a winner; a settlement of an
\* English auction without one.
RemainingIfWon(a, w, b) ==
  IF w = NoUser THEN {}
  ELSE {[auction |-> a, winner |-> w, bid |-> b, step |-> IF Sealed(a) THEN "refund" ELSE "settle"]}

RemainingUnconditional(a, w, b) ==
  {[auction |-> a, winner |-> w, bid |-> b, step |-> IF Sealed(a) THEN "refund" ELSE "settle"]}

\* The transactions still to come after the determination.
Remaining(a, w, b) ==
  IF Sealed(a) THEN {[auction |-> a, winner |-> w, bid |-> b, step |-> "refund"]}
  ELSE IF English(a) /\ w # NoUser
       THEN {[auction |-> a, winner |-> w, bid |-> b, step |-> "settle"]}
       ELSE {}

Determine(a, b) ==
  LET w == IF b # 0 /\ MeetsReserve(a, b) THEN bids[a][b].bidder ELSE NoUser
  IN  /\ status'    = [status EXCEPT ![a] = "ENDED"]
      /\ winner'    = [winner EXCEPT ![a] = w]
      /\ winnerBid' = [winnerBid EXCEPT ![a] = IF w = NoUser THEN 0 ELSE b]
      /\ price'     = [price EXCEPT ![a] = IF w = NoUser THEN @ ELSE bids[a][b].amount]
      /\ closing'   = closing \cup Remaining(a, w, b)

\* Mutation: a redelivered job runs the determination again.
EndableAlways(a) == TRUE

\* endAuction bails out on ENDED and on nothing else.
Endable(a) == status[a] # "ENDED"

\* The end-auction job: it also ends a PENDING and a CANCELLED auction.
EndAuction(a) ==
  /\ SchedulerFree
  /\ endJob[a]
  /\ endJob' = [endJob EXCEPT ![a] = FALSE]
  /\ Endable(a)
  /\ \E b \in Leading(a) : Determine(a, b)
  /\ UNCHANGED <<terms, acct, expired, bids, settlement, starting, faults, drops>>

\* A job that finds the auction ENDED returns at once.
EndJobReturns(a) ==
  /\ SchedulerFree
  /\ endJob[a]
  /\ ~Endable(a)
  /\ endJob' = [endJob EXCEPT ![a] = FALSE]
  /\ UNCHANGED <<terms, acct, status, expired, price, winner, winnerBid, bids,
                 settlement, starting, closing, faults, drops>>

-----------------------------------------------------------------------------
(* The drop-price job of a Dutch auction                                   *)

\* The dutch-auction worker has a concurrency of 1 of its own.
DropperFree == OneScheduler => drops = {}

Dropped(a) ==
  IF price[a] < terms[a].dutchPriceStep THEN 0 ELSE price[a] - terms[a].dutchPriceStep

\* A price at which the auction ends unsold.
AtFloor(a, p) == p = 0 \/ (terms[a].reservePrice # 0 /\ p < terms[a].reservePrice)

\* Job d is done.  Several processes may have read the same price, and another job
\* like d may be under way.
DropDone(d) == drops' = drops \ {d} \/ (~OneScheduler /\ UNCHANGED drops)

\* The row is read without a lock, and the next price computed.
TakeDrop(a) ==
  /\ DropperFree
  /\ Dutch(a) /\ terms[a].dutchPriceStep # 0
  /\ status[a] = "ACTIVE"
  /\ drops' = drops \cup {[auction |-> a, price |-> Dropped(a)]}
  /\ UNCHANGED <<terms, acct, status, expired, price, winner, winnerBid, bids,
                 settlement, starting, endJob, closing, faults>>

\* Unconditional: whatever has become of the auction since.
WritePrice(d) ==
  /\ ~AtFloor(d.auction, d.price)
  /\ price' = [price EXCEPT ![d.auction] = d.price]
  /\ DropDone(d)
  /\ UNCHANGED <<terms, acct, status, expired, winner, winnerBid, bids,
                 settlement, starting, endJob, closing, faults>>

\* No price is left above the floor: the job calls endAuction.
EndAtFloor(d) ==
  /\ AtFloor(d.auction, d.price)
  /\ \/ /\ Endable(d.auction)
        /\ \E b \in Leading(d.auction) : Determine(d.auction, b)
     \/ /\ ~Endable(d.auction)
        /\ UNCHANGED <<status, winner, winnerBid, price, closing>>
  /\ DropDone(d)
  /\ UNCHANGED <<terms, acct, expired, bids, settlement, starting, endJob, faults>>

\* Its transaction fails, or the process dies: the next drop reads afresh.
DropFails(d) ==
  /\ drops' = drops \ {d}
  /\ UNCHANGED <<terms, acct, status, expired, price, winner, winnerBid, bids,
                 settlement, starting, endJob, closing, faults>>

-----------------------------------------------------------------------------
(* endAuction: the sealed refund and the settlement transactions           *)

\* Mutation: a sealed auction is left to confirmWinnerPayment.
AfterRefundDone(c) == {}

\* What is left of run c after its refund transaction.
AfterRefund(c) ==
  IF c.winner = NoUser THEN {} ELSE {[c EXCEPT !.step = "settle"]}

\* The bids that the refund transaction releases, top being the winner's.
Losing(pending, top) == pending \ {top}

\* The highest bid not yet processed is WON, every other one LOST and released.  The
\* transaction reads those bids before it locks the wallets, and not under the lock of
\* the auction, but nobody changes them in between: the auction is ENDED, so that no bid
\* or cancellation reaches it and another run of endAuction returns, unless an admin has
\* reopened it.
RefundSealed(c) ==
  LET a       == c.auction
      pending == {i \in DOMAIN bids[a] : ~bids[a][i].refunded}
  IN  /\ c.step = "refund"
      /\ \E top \in IF pending = {} THEN {0} ELSE TopOf(a, pending) :
           /\ acct' = ReleaseAll(acct, [u \in Users |-> Staked(a, Losing(pending, top), u)])
           /\ bids' = [bids EXCEPT ![a] =
                         [i \in DOMAIN @ |->
                            IF i \notin pending THEN @[i]
                            ELSE [@[i] EXCEPT !.refunded = TRUE,
                                              !.status = IF i = top THEN "WON" ELSE "LOST"]]]
      /\ closing' = (closing \ {c}) \cup AfterRefund(c)
      /\ UNCHANGED <<terms, status, expired, price, winner, winnerBid, settlement,
                     starting, drops, endJob, faults>>

SettleWinner(c) ==
  LET a == c.auction
  IN  /\ c.step = "settle"
      /\ SettleWon(acct, a, c.winner, bids[a][c.bid].amount)
      /\ bids'    = [bids EXCEPT ![a] = Mark(a, {c.bid}, "WON")]
      /\ closing' = closing \ {c}
      /\ UNCHANGED <<terms, status, expired, price, winner, winnerBid,
                     starting, drops, endJob, faults>>

\* The worker dies in the middle of endAuction (crash), or loses the lock of
\* its job although it goes on (stall): BullMQ delivers the job again.
Redeliver(c, kind) ==
  /\ kind \in {"crash", "stall"} \cap FaultKinds
  /\ faults < MaxFaults
  /\ faults'  = faults + 1
  /\ closing' = IF kind = "stall" THEN closing ELSE closing \ {c}
  /\ endJob'  = [endJob EXCEPT ![c.auction] = TRUE]
  /\ UNCHANGED <<terms, acct, status, expired, price, winner, winnerBid, bids,
                 settlement, starting, drops>>

\* A transaction of the run is aborted.  A failed settlement is caught and
\* logged; a failed refund fails the job, which has a single attempt.
Abort(c) ==
  /\ "abort" \in FaultKinds
  /\ faults < MaxFaults
  /\ faults'  = faults + 1
  /\ closing' = closing \ {c}
  /\ UNCHANGED <<terms, acct, status, expired, price, winner, winnerBid, bids,
                 settlement, starting, drops, endJob>>

-----------------------------------------------------------------------------
(* confirmWinnerPayment, deposit, withdraw and the clock                   *)

\* Mutation: any of the user's bids may be charged.
PayableAny(u, a) ==
  {i \in BidsWith(a, "WINNING") \cup BidsWith(a, "WON") : bids[a][i].bidder = u}

\* The user's highest bid of a that is WINNING or WON.
Payable(u, a) ==
  TopOf(a, {i \in BidsWith(a, "WINNING") \cup BidsWith(a, "WON") : bids[a][i].bidder = u})

ConfirmWinnerPayment(u, a) ==
  /\ winner[a] = u
  /\ status[a] = "ENDED"
  /\ ~Settled(a)                        \* otherwise: already confirmed
  /\ \E b \in Payable(u, a) :
       /\ SettleWon(acct, a, u, bids[a][b].amount)
       /\ bids' = [bids EXCEPT ![a] = Mark(a, {b}, "WON")]
  /\ UNCHANGED <<terms, status, expired, price, winner, winnerBid,
                 starting, drops, endJob, closing, faults>>

\* deposit updates the wallet and then, in a statement of its own, writes the
\* row; a crash in between leaves the row unwritten.
Deposit(u, amount) ==
  /\ acct[u].deposits + acct[u].unlogged + amount <= Opening[u] + MaxDeposited[u]
  /\ acct' = CreditDeposit(acct, u, amount)
  /\ UNCHANGED <<terms, status, expired, price, winner, winnerBid, bids, settlement,
                 starting, drops, endJob, closing, faults>>

WriteDepositRow(u, amount) ==
  /\ acct[u].unlogged >= amount
  /\ acct' = LogDeposit(acct, u, amount)
  /\ UNCHANGED <<terms, status, expired, price, winner, winnerBid, bids, settlement,
                 starting, drops, endJob, closing, faults>>

Withdraw(u, amount) ==
  /\ Available(acct[u]) >= amount
  /\ acct' = Debit(acct, u, amount)
  /\ UNCHANGED <<terms, status, expired, price, winner, winnerBid, bids, settlement,
                 starting, drops, endJob, closing, faults>>

\* The clock passes endTime: placeBid rejects from now on.
Expire(a) ==
  /\ ~expired[a]
  /\ expired' = [expired EXCEPT ![a] = TRUE]
  /\ UNCHANGED <<terms, acct, status, price, winner, winnerBid, bids, settlement,
                 starting, drops, endJob, closing, faults>>

-----------------------------------------------------------------------------
Init ==
  /\ terms      \in Catalogs
  /\ acct       = [u \in Users |-> Opened(Opening[u])]
  /\ status     \in [Auctions -> {"PENDING", "ACTIVE"}]
  /\ expired    = [a \in Auctions |-> FALSE]
  /\ price      = [a \in Auctions |-> terms[a].startingPrice]
  /\ winner     = [a \in Auctions |-> NoUser]
  /\ winnerBid  = [a \in Auctions |-> 0]
  /\ bids       = [a \in Auctions |-> <<>>]
  /\ settlement = [a \in Auctions |-> NoSettlement]
  /\ starting   = {}
  /\ drops      = {}
  /\ endJob     = [a \in Auctions |-> TRUE]
  /\ closing    = {}
  /\ faults     = 0

Next ==
  \/ \E u \in Users, a \in Auctions :
       \/ \E amount \in BidAmounts : PlaceBid(u, a, amount) \/ AcceptDutch(u, a, amount)
       \/ BuyNow(u, a)
       \/ ConfirmWinnerPayment(u, a)
  \/ \E a \in Auctions :
       \/ CancelAuction(a)
       \/ \E action \in Moderations : ModerateAuction(a, action)
       \/ ReadPending(a)
       \/ WriteActive(a)
       \/ EndAuction(a)
       \/ EndJobReturns(a)
       \/ Expire(a)
       \/ TakeDrop(a)
  \/ \E d \in drops : WritePrice(d) \/ EndAtFloor(d) \/ DropFails(d)
  \/ \E c \in closing :
       \/ RefundSealed(c)
       \/ SettleWinner(c)
       \/ \E kind \in FaultKinds : Redeliver(c, kind)
       \/ Abort(c)
  \/ \E u \in Users, amount \in Transfers :
       \/ Deposit(u, amount)
       \/ WriteDepositRow(u, amount)
       \/ Withdraw(u, amount)

Spec == Init /\ [][Next]_vars

\* The worker's promise, no more: a queued end-auction job is picked up and a
\* run that has begun continues.  No fairness for users.
WorkerFairness ==
  /\ \A a \in Auctions : WF_vars(EndAuction(a)) /\ WF_vars(EndJobReturns(a))
  /\ WF_vars(\E c \in closing : RefundSealed(c) \/ SettleWinner(c))

FairSpec == Spec /\ WorkerFairness
=============================================================================
