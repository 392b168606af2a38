------------------------------ MODULE RowLocks ------------------------------
(***************************************************************************)
(* The row locks of concurrent transactions: SELECT ... FOR UPDATE on an   *)
(* auction and then on wallets in ascending userId order, and the lock of  *)
(* an UPDATE outside of a transaction. What the transactions do with the   *)
(* rows is left out; an error rolls one back at any time, and so does the  *)
(* deadlock detector of the database.                                      *)
(***************************************************************************)
EXTENDS Integers, FiniteSets

CONSTANTS
  Users,      \* user ids, in their order: numbers
  Auctions,
  Txs         \* connections of the pool: each runs one transaction at a time

VARIABLES
  tx,         \* the transaction of each connection
  held        \* the rows it has locked

vars == <<tx, held>>

-----------------------------------------------------------------------------
(* Rows and their order                                                    *)

AuctionRow(a) == <<"auction", a>>
WalletRow(u)  == <<"wallet", u>>
Rows == {AuctionRow(a) : a \in Auctions} \cup {WalletRow(u) : u \in Users}

WalletsOf(who) == {WalletRow(u) : u \in who}

\* Auctions first, then wallets in ascending userId order.
Rank(row) == IF row[1] = "auction" THEN 0 ELSE row[2] + 1

-----------------------------------------------------------------------------
(* Transactions: the rows locked one after the other in their order, and   *)
(* those of a second stage, locked in their order when the first is done.  *)

Staged(first, second) == [now |-> first, later |-> second]
Ordered(rows) == Staged(rows, {})

NoTx == Ordered({})

\* An English bid also locks the wallet of the bidder it outbids.
PlaceBid(a, bidder, previous) == Ordered({AuctionRow(a)} \cup WalletsOf({bidder, previous}))

\* The bid of a Dutch auction settles at once: settleWithinTx locks the two wallets in
\* order, with that of the bidder held already.
AcceptPrice(a, bidder, seller) ==
  Staged({AuctionRow(a), WalletRow(bidder)}, WalletsOf({bidder, seller}))

\* buyNow, confirmWinnerPayment and the settlement of endAuction.
Settlement(a, payer, seller) == Ordered({AuctionRow(a)} \cup WalletsOf({payer, seller}))

\* cancelAuction and processAutoBidLadder: the wallets of all bidders concerned.
WithBidders(a, bidders) == Ordered({AuctionRow(a)} \cup WalletsOf(bidders))

\* endAuction deciding the outcome, moderateAuction, the jobs that update an auction.
AuctionOnly(a) == Ordered({AuctionRow(a)})

\* The refund of sealed bids, withdraw and deposit.
WalletsOnly(who) == Ordered(WalletsOf(who))

Transactions ==
  {PlaceBid(a, b, p) : a \in Auctions, b \in Users, p \in Users}
    \cup {AcceptPrice(a, b, s) : a \in Auctions, b \in Users, s \in Users}
    \cup {Settlement(a, p, s) : a \in Auctions, p \in Users, s \in Users}
    \cup {WithBidders(a, who) : a \in Auctions, who \in SUBSET Users}
    \cup {AuctionOnly(a) : a \in Auctions}
    \cup {WalletsOnly(who) : who \in SUBSET Users \ {{}}}

-----------------------------------------------------------------------------
Todo(t) == tx[t].now \ held[t]

\* The row that t locks next.
Wants(t, row) == row \in Todo(t) /\ \A other \in Todo(t) : Rank(row) <= Rank(other)

Begin(t, transaction) ==
  /\ tx[t] = NoTx
  /\ tx' = [tx EXCEPT ![t] = transaction]
  /\ UNCHANGED held

\* The statement returns when no other transaction holds the row.
Lock(t, row) ==
  /\ Wants(t, row)
  /\ \A u \in Txs \ {t} : row \notin held[u]
  /\ held' = [held EXCEPT ![t] = @ \cup {row}]
  /\ UNCHANGED tx

SecondStage(t) ==
  /\ Todo(t) = {}
  /\ ~(tx[t].later \subseteq tx[t].now)
  /\ tx' = [tx EXCEPT ![t].now = @ \cup tx[t].later]
  /\ UNCHANGED held

\* Commit, or a rollback on an error, a timeout or a deadlock detected.
End(t) ==
  /\ tx[t] # NoTx
  /\ tx'   = [tx EXCEPT ![t] = NoTx]
  /\ held' = [held EXCEPT ![t] = {}]

Init ==
  /\ tx   = [t \in Txs |-> NoTx]
  /\ held = [t \in Txs |-> {}]

Next ==
  \E t \in Txs :
    \/ \E transaction \in Transactions : Begin(t, transaction)
    \/ \E row \in Rows : Lock(t, row)
    \/ SecondStage(t)
    \/ End(t)

Spec == Init /\ [][Next]_vars

-----------------------------------------------------------------------------
(* Properties                                                              *)

WaitsFor(t, u) == t # u /\ \E row \in Rows : Wants(t, row) /\ row \in held[u]

\* Each waits for another of them and is waited for by another of them.
WaitCycle(cycle) ==
  /\ cycle # {}
  /\ \A t \in cycle : \E u \in cycle : WaitsFor(t, u)
  /\ \A t \in cycle : \E u \in cycle : WaitsFor(u, t)

\* "wait-for cycles are mathematically impossible" (README.md:36), "Deadlocks are
\* impossible as long as every code path follows this order" (bid.service.ts:31-32).
NoWaitCycle == \A cycle \in SUBSET Txs : ~WaitCycle(cycle)

\* What is left of the claim: every cycle has an accepted Dutch price in it. The other
\* paths never wait for one another in a circle (escrow.service.ts:49-54).
CyclesNeedAnAcceptance ==
  \A cycle \in SUBSET Txs : WaitCycle(cycle) => \E t \in cycle : tx[t].later # {}
=============================================================================
