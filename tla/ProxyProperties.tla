--------------------------- MODULE ProxyProperties ---------------------------
(***************************************************************************)
(* What auto-bids and their ladders are expected to guarantee.  What the   *)
(* core promises of holds and bids is checked with ladders as well.        *)
(***************************************************************************)
EXTENDS ProxyBidding, AuctionHouseProperties

\* The rows of the ladders' own tables are typed, and a ladder's pool is part of
\* what it loaded.
ProxyTypeOK ==
  /\ autoBid \in [Auctions -> [Users -> AutoBid]]
  /\ jobs    \in [Auctions -> [Users -> 0 .. MaxJobs + MaxAborts]]
  /\ aborts  \in 0 .. MaxAborts
  /\ \A a \in Auctions : Running(a) =>
       LET l == ladder[a]
       IN  /\ l.trigger \in Users
           /\ l.limit \in [Users -> Nat]
           /\ l.pool \cup l.off \subseteq {u \in Users : l.limit[u] > 0}
           /\ l.left \in Nat /\ l.steps \in Nat
           /\ l.acct \in [Users -> Account]
           /\ l.top = Len(l.rows)

\* Ladders keep the promises of the core: wallets are explained by their rows and keep
\* their total, every hold stays the sum of the standing bids and covered by its balance,
\* and English bids climb with one WINNING bid at the most, between and after the rungs.
LaddersKeepTheBooks ==
  /\ LedgerExplainsWallets /\ MoneyConserved
  /\ HeldBacksBids /\ HoldsCovered
  /\ EnglishBidsClimb

\* What an auction can be sold for when ladders bid: what they could before, or as much
\* as a limit that somebody registered.
ProxyAmounts == SaleAmounts \cup UNION {1 .. limit : limit \in Limits}

ProxyLedger == INSTANCE Sale WITH
  Amounts  <- ProxyAmounts,
  NoSale   <- NoSettlement,
  sellerOf <- [a \in Auctions |-> Seller(a)],
  sale     <- settlement,
  paid     <- [u \in Users |-> acct[u].won + acct[u].bought],
  earned   <- [u \in Users |-> acct[u].sold]

\* With ladders between the bids and the end, each auction is still sold at most once, for
\* one amount that the buyer pays and the seller receives: a commit, which writes several
\* wallets and the rows that settlement reads, is no sale and undoes none.
SoldOnceWithLadders == ProxyLedger!SaleSpec

\* The loop of the ladder on a is over, its commit is next.
Resolved(a) == Running(a) /\ ~Going(a, ladder[a])

\* No rung is above the limit that its bidder had registered.
RungsWithinLimits ==
  \A a \in Auctions : Running(a) =>
    \A i \in Rungs(ladder[a]) :
      ladder[a].rows[i].amount <= ladder[a].limit[ladder[a].rows[i].bidder]

\* The log has every rung: each is one increment above the bid before it, and a
\* leader raises its own bid only when no other proxy could bid that much.
LogFidelity ==
  \A a \in Auctions : Running(a) =>
    LET l == ladder[a]
    IN  \A i \in Rungs(l) :
          /\ l.rows[i].amount = l.rows[i - 1].amount + terms[a].minIncrement
          /\ l.rows[i].bidder = l.rows[i - 1].bidder =>
               \A v \in Users \ {l.rows[i].bidder} :
                 l.limit[v] >= l.rows[i].amount => v \in l.off

\* The price at which the ladder found the auction.
StartPrice(a) == ladder[a].cur - ladder[a].steps * terms[a].minIncrement

\* Limits in increments: what a proxy can reach on the grid.
Reach(a, u) == ladder[a].limit[u] \div terms[a].minIncrement

\* On the grid of the increment, with proxies that can pay and are not priced out
\* already, a ladder ends at the second price: one increment above what the
\* runner-up can reach, or the highest price that both can.
ClearsAtSecondPrice ==
  \A a \in Auctions :
    LET l      == ladder[a]
        loaded == {u \in Users : l.limit[u] > 0}
        inc    == terms[a].minIncrement
        start  == StartPrice(a) \div inc
    IN  /\ Resolved(a)
        /\ StartPrice(a) % inc = 0
        /\ l.off = {}
        /\ \A u \in loaded : Reach(a, u) > start
        => /\ Leader(l) \in loaded
           /\ \A u \in loaded : Reach(a, u) <= Reach(a, Leader(l))
           /\ IF loaded = {Leader(l)} THEN l.cur = (start + 1) * inc
              ELSE \E second \in loaded \ {Leader(l)} :
                     /\ \A u \in loaded \ {Leader(l)} : Reach(a, u) <= Reach(a, second)
                     /\ l.cur = inc * (IF Reach(a, second) < Reach(a, Leader(l))
                                       THEN Reach(a, second) + 1 ELSE Reach(a, second))

\* A ladder that has begun ends: its loop is bounded whoever drops out of it.
LadderEnds == \A a \in Auctions : Running(a) ~> ~Running(a)

-----------------------------------------------------------------------------
(* What documents and comments say and the code does not do                *)

\* "Exact Vickrey second-price convergence": when a ladder is over, no proxy it
\* loaded that is not leading could still bid the next increment.
NobodyLeftBehind ==
  \A a \in Auctions : Resolved(a) =>
    LET l == ladder[a]
    IN  \A u \in Users : l.limit[u] >= NextBid(a, l) /\ u # Leader(l) =>
          Available(l.acct[u]) < NextBid(a, l)

\* "A freshly-armed auto-bid that sits above the current price should immediately
\* start laddering": it gets ahead unless something about it changes.
ArmedProxyBids ==
  \A a \in Auctions, u \in Users :
    LET waiting == /\ status[a] = "ACTIVE" /\ ~expired[a]
                   /\ bids[a] # <<>>
                   /\ autoBid[a][u].active
                   /\ autoBid[a][u].limit >= price[a] + terms[a].minIncrement
                   /\ WinningOf(a, u) = {}
                   /\ Available(acct[u]) >= autoBid[a][u].limit
    IN  waiting ~> ~waiting
=============================================================================
