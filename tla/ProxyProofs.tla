----------------------------- MODULE ProxyProofs -----------------------------
(***************************************************************************)
(* Theorems about auto-bids and their ladders, for any users, auctions,    *)
(* limits, caps and faults.  A ladder works on a copy of the rows and the  *)
(* wallets it has locked: the invariant says how that copy differs from    *)
(* the database until it commits, and the step lemmas of the core take     *)
(* over from there.  Last, the price that a ladder ends at.                *)
(***************************************************************************)
EXTENDS ProxyProperties, AuctionHouseProofs

-----------------------------------------------------------------------------
(* The inductive invariant                                                 *)

\* The tables, and the jobs that faults have queued again.
TablesTyped ==
  /\ autoBid \in [Auctions -> [Users -> AutoBid]]
  /\ jobs \in [Auctions -> [Users -> Nat]]
  /\ aborts \in 0 .. MaxAborts
  /\ \A a \in Auctions, u \in Users : jobs[a][u] <= MaxJobs + aborts
  /\ DOMAIN ladder = Auctions

\* The auto_bids rows of a are ranked by their creation, the active ones have a limit,
\* and the seller has none.
RowsRanked(a) ==
  /\ \A u \in Users : autoBid[a][u].active => autoBid[a][u].limit > 0
  /\ \A u \in Registered(a) : autoBid[a][u].since \in 1 .. Cardinality(Registered(a))
  /\ \A u, v \in Registered(a) : autoBid[a][u].since = autoBid[a][v].since => u = v
  /\ autoBid[a][Seller(a)] = NoAutoBid

\* The state of a loop.
Ladder ==
  [trigger: Users, limit: [Users -> Nat], since: [Users -> Nat],
   pool: SUBSET Users, off: SUBSET Users, ceiling: Int, left: Nat, steps: Nat,
   cur: Nat \ {0}, top: Nat, rows: Seq(Bid), acct: [Users -> Account]]

\* The proxies that bid or have dropped out were loaded, and their rank is their own.
PoolSound(l) ==
  /\ l \in Ladder
  /\ \A u \in l.pool \cup l.off : l.limit[u] > 0
  /\ \A u, v \in l.pool : l.since[u] = l.since[v] => u = v

\* The auction is as the ladder found it: on offer, and led by the trigger.
SceneKept(a, l) ==
  /\ status[a] = "ACTIVE" /\ English(a)
  /\ l.trigger # Seller(a) /\ l.limit[Seller(a)] = 0
  /\ Len(bids[a]) > 0
  /\ bids[a][Len(bids[a])].status = "WINNING"
  /\ bids[a][Len(bids[a])].bidder = l.trigger

\* The rows of the ladder are those of the auction and its rungs, and climb to its price.
RowsClimb(a, l) ==
  /\ l.top = Len(l.rows) /\ Len(l.rows) = Len(bids[a]) + l.steps
  /\ \A i \in DOMAIN bids[a] : /\ l.rows[i].bidder = bids[a][i].bidder
                               /\ l.rows[i].amount = bids[a][i].amount
  /\ \A i \in DOMAIN l.rows :
       /\ l.rows[i].status = IF i = l.top THEN "WINNING" ELSE "OUTBID"
       /\ ~l.rows[i].refunded
       /\ l.rows[i].amount <= l.cur
       /\ i > 1 => l.rows[i].amount >= l.rows[i - 1].amount + terms[a].minIncrement
  /\ l.rows[l.top].amount = l.cur

\* RungsWithinLimits and LogFidelity for one ladder, and whoever left the pool without
\* being deactivated cannot bid any more.
RungsSound(a, l) ==
  /\ \A i \in Rungs(l) :
       /\ l.rows[i].amount <= l.limit[l.rows[i].bidder]
       /\ l.rows[i].amount = l.rows[i - 1].amount + terms[a].minIncrement
       /\ l.rows[i].bidder = l.rows[i - 1].bidder =>
            \A v \in Users \ {l.rows[i].bidder} :
              l.limit[v] >= l.rows[i].amount => v \in l.off
  /\ \A v \in Users \ (l.pool \cup l.off) : l.limit[v] < l.cur + terms[a].minIncrement

Wallets(l) == {l.trigger} \cup {u \in Users : l.limit[u] > 0}

\* The ladder's wallets are those of the database, but for the hold of the trigger, which
\* is released, and that of the leader, which is taken: both with the rows that explain
\* them, and with no payment.
HoldsMoved(a, l) ==
  /\ \A v \in Users : Covered(l.acct[v])
  /\ KeepsSales(Wallets(l), acct, l.acct)
  /\ \A v \in Wallets(l) : Explained(acct[v]) => Explained(l.acct[v])
  /\ \A v \in Wallets(l) :
       /\ l.acct[v].refunds = acct[v].refunds
       /\ l.acct[v].held =
            acct[v].held - (IF v = l.trigger THEN bids[a][Len(bids[a])].amount ELSE 0)
                         + (IF v = Leader(l) THEN l.cur ELSE 0)

LadderSound(a, l) ==
  PoolSound(l) /\ SceneKept(a, l) /\ RowsClimb(a, l) /\ RungsSound(a, l) /\ HoldsMoved(a, l)

SoundAt(a) == \A l \in {ladder[a]} : l.trigger # NoUser => LadderSound(a, l)

\* No wallet is locked by two ladders.
LaddersApart ==
  \A a, b \in Auctions : a # b /\ Running(a) /\ Running(b) => Involved(a) \cap Involved(b) = {}

ProxyInv ==
  /\ HoldsInv /\ HoldsCovered
  /\ TablesTyped /\ LaddersApart
  /\ \A a \in Auctions : RowsRanked(a) /\ SoundAt(a)

-----------------------------------------------------------------------------
(* The order of the proxies                                                *)

\* Whether u comes before v in ORDER BY maxAmount DESC, createdAt ASC.
Precedes(limit, since, u, v) ==
  limit[u] > limit[v] \/ (limit[u] = limit[v] /\ since[u] < since[v])

\* One of a number of proxies with ranks of their own is first.
LEMMA ForemostExists ==
  ASSUME NEW limit \in [Users -> Nat], NEW since \in [Users -> Nat],
         NEW S \in SUBSET Users, S # {},
         \A u, v \in S : since[u] = since[v] => u = v
  PROVE  \E u \in S : \A v \in S \ {u} : Precedes(limit, since, u, v)
<1> DEFINE First(T, u) == u \in T /\ \A v \in T \ {u} : Precedes(limit, since, u, v)
           Bad == {T \in SUBSET S : T # {} /\ \A u \in T : ~First(T, u)}
<1>1. SUFFICES ASSUME Bad # {} PROVE FALSE
  OBVIOUS
<1>2. IsFiniteSet(S)
  BY FiniteAssumption, FS_Subset
<1>3. Bad \in SUBSET (SUBSET S)
  OBVIOUS
<1>4. PICK T \in Bad : \A U \in SUBSET T : U # T => U \notin Bad
  <2> HIDE DEF Bad
  <2> QED BY <1>1, <1>2, <1>3, SmallestSet
<1>5. PICK x : x \in T
  BY <1>4
<1>6. T \ {x} # {}
  BY <1>4, <1>5
<1>7. PICK y \in T \ {x} : First(T \ {x}, y)
  <2>1. T \ {x} \in SUBSET T /\ T \ {x} # T /\ T \ {x} \in SUBSET S
    BY <1>4, <1>5
  <2>2. T \ {x} \notin Bad
    BY <1>4, <2>1
  <2> QED BY <1>6, <2>1, <2>2
<1>8. /\ x \in Users /\ y \in Users /\ x \in S /\ y \in S /\ x # y
      /\ \A v \in T : v \in Users
  BY <1>4, <1>5, <1>7
<1>9. /\ \A v \in Users : limit[v] \in Nat /\ since[v] \in Nat
      /\ since[x] # since[y]
  BY <1>8
<1>10. CASE Precedes(limit, since, y, x)
  <2>1. First(T, y)
    BY <1>5, <1>7, <1>10
  <2> QED BY <1>4, <1>7, <2>1
<1>11. CASE ~Precedes(limit, since, y, x)
  <2>1. Precedes(limit, since, x, y)
    BY <1>8, <1>9, <1>11 DEF Precedes
  <2>2. ASSUME NEW v \in T \ {x}
        PROVE  Precedes(limit, since, x, v)
    <3>1. CASE v = y
      BY <2>1, <3>1
    <3>2. CASE v # y
      <4>1. Precedes(limit, since, y, v)
        BY <1>7, <2>2, <3>2
      <4> QED BY <1>8, <1>9, <2>1, <2>2, <4>1 DEF Precedes
    <3> QED BY <3>1, <3>2
  <2>3. First(T, x)
    BY <1>5, <2>2
  <2> QED BY <1>4, <1>5, <2>3
<1> QED BY <1>10, <1>11

\* The row that the query puts first is one of them.
LEMMA ForemostIn ==
  ASSUME NEW limit \in [Users -> Nat], NEW since \in [Users -> Nat],
         NEW S \in SUBSET Users, S # {},
         \A u, v \in S : since[u] = since[v] => u = v
  PROVE  Foremost(limit, since, S) \in S
<1>1. \E u \in S : \A v \in S \ {u} :
        limit[u] > limit[v] \/ (limit[u] = limit[v] /\ since[u] < since[v])
  BY ForemostExists DEF Precedes
<1> QED BY <1>1 DEF Foremost

\* What createAuction stored of an auction.
LEMMA TermsTyped ==
  ASSUME TypeOK, NEW a \in Auctions
  PROVE  terms[a].minIncrement \in Nat \ {0} /\ Seller(a) \in Users
BY CatalogsAssumption DEF TypeOK, AuctionTerms, Seller

\* The number of steps is within 0 .. MaxLadder.
LEMMA StepBoundTyped ==
  ASSUME NEW ceiling \in Int, NEW cur \in Nat, NEW inc \in Nat \ {0}
  PROVE  StepBound(ceiling, cur, inc) \in Nat
<1> DEFINE x == ceiling - cur + inc - 1
           q == x \div inc
<1>1. x \in Int /\ q \in Int
  OBVIOUS
<1>2. ASSUME ~(ceiling <= cur) PROVE q >= 0
  <2>1. x \in Nat
    BY <1>2
  <2> HIDE DEF x
  <2> QED BY <2>1
<1> HIDE DEF q
<1>3. StepBound(ceiling, cur, inc) =
        IF ceiling <= cur THEN 0 ELSE IF q < MaxLadder THEN q ELSE MaxLadder
  BY DEF StepBound, q
<1> QED BY <1>1, <1>2, <1>3, LadderBoundsAssumption

\* A challenger is able, and is the leader only when nobody else is.
LEMMA ChallengerFacts ==
  ASSUME TypeOK, NEW a \in Auctions, NEW l, PoolSound(l), Challenger(a, l) # NoUser
  PROVE  /\ Challenger(a, l) \in Able(a, l)
         /\ Challenger(a, l) = Leader(l) => Able(a, l) \ {Leader(l)} = {}
<1> DEFINE S == Able(a, l) \ {Leader(l)}
<1>1. S \in SUBSET Users /\ \A u, v \in S : l.since[u] = l.since[v] => u = v
  BY DEF PoolSound, Ladder, Able
<1>2. CASE S # {}
  <2>1. l.limit \in [Users -> Nat] /\ l.since \in [Users -> Nat]
    BY DEF PoolSound, Ladder
  <2>2. Foremost(l.limit, l.since, S) \in S
    <3> HIDE DEF S
    <3> QED BY <1>1, <1>2, <2>1, ForemostIn
  <2>3. Challenger(a, l) = Foremost(l.limit, l.since, S)
    BY <1>2 DEF Challenger
  <2> QED BY <2>2, <2>3
<1>3. CASE S = {}
  BY <1>3 DEF Challenger
<1> QED BY <1>2, <1>3

-----------------------------------------------------------------------------
(* The loop                                                                *)

\* The rows of a ladder, and who leads them.
LEMMA LadderRows ==
  ASSUME TypeOK, NEW a \in Auctions, NEW l, LadderSound(a, l)
  PROVE  /\ l.rows \in Seq(Bid) /\ Len(l.rows) \in Nat /\ DOMAIN l.rows = 1 .. Len(l.rows)
         /\ Len(bids[a]) \in Nat /\ DOMAIN bids[a] = 1 .. Len(bids[a])
         /\ l.top = Len(l.rows) /\ l.top \in DOMAIN l.rows
         /\ Len(l.rows) = Len(bids[a]) + l.steps /\ l.steps \in Nat /\ Len(bids[a]) >= 1
         /\ \A i \in DOMAIN l.rows : /\ l.rows[i].bidder \in Users
                                     /\ l.rows[i].amount \in Nat \ {0}
         /\ Leader(l) \in Wallets(l) /\ Wallets(l) \subseteq Users
<1>1. l.rows \in Seq(Bid) /\ l.steps \in Nat /\ l.trigger \in Users
  BY DEF LadderSound, PoolSound, Ladder
<1>2. Len(l.rows) \in Nat /\ DOMAIN l.rows = 1 .. Len(l.rows)
  BY <1>1, LenProperties
<1>3. Len(bids[a]) \in Nat /\ DOMAIN bids[a] = 1 .. Len(bids[a])
  BY BidRows
<1>4. l.top = Len(l.rows) /\ Len(l.rows) = Len(bids[a]) + l.steps /\ Len(bids[a]) >= 1
  BY <1>3 DEF LadderSound, RowsClimb, SceneKept
<1>5. l.top \in DOMAIN l.rows
  BY <1>1, <1>2, <1>3, <1>4
<1>6. \A i \in DOMAIN l.rows : l.rows[i].bidder \in Users /\ l.rows[i].amount \in Nat \ {0}
  <2>1. \A i \in DOMAIN l.rows : l.rows[i] \in Bid
    BY <1>1, <1>2, ElementOfSeq
  <2> QED BY <2>1 DEF Bid
<1>7. Leader(l) \in Wallets(l)
  <2>1. CASE l.steps = 0
    <3>1. l.top = Len(bids[a]) /\ l.top \in DOMAIN bids[a]
      BY <1>3, <1>4, <2>1
    <3>2. Leader(l) = l.trigger
      BY <3>1 DEF Leader, LadderSound, SceneKept, RowsClimb
    <3> QED BY <3>2 DEF Wallets
  <2>2. CASE l.steps # 0
    <3>1. l.top \in Rungs(l)
      BY <1>1, <1>2, <1>4, <2>2 DEF Rungs
    <3>2. l.rows[l.top].amount <= l.limit[l.rows[l.top].bidder]
      BY <3>1 DEF LadderSound, RungsSound
    <3>3. Leader(l) \in Users /\ l.rows[l.top].amount > 0
      BY <1>5, <1>6 DEF Leader
    <3>4. l.limit[Leader(l)] \in Nat
      BY <3>3 DEF LadderSound, PoolSound, Ladder
    <3>5. l.limit[Leader(l)] > 0
      BY <1>5, <1>6, <3>2, <3>4 DEF Leader
    <3> QED BY <3>3, <3>5 DEF Wallets
  <2> QED BY <2>1, <2>2
<1>8. Wallets(l) \subseteq Users
  BY <1>1 DEF Wallets
<1> QED BY <1>1, <1>2, <1>3, <1>4, <1>5, <1>6, <1>7, <1>8

\* The next bid is an amount above the price.
LEMMA NextBidTyped ==
  ASSUME TypeOK, NEW a \in Auctions, NEW l, LadderSound(a, l)
  PROVE  /\ NextBid(a, l) \in Nat \ {0} /\ NextBid(a, l) > l.cur
         /\ NextBid(a, l) = l.cur + terms[a].minIncrement
         /\ l.cur \in Nat \ {0} /\ terms[a].minIncrement \in Nat \ {0}
<1>1. l.cur \in Nat \ {0} /\ terms[a].minIncrement \in Nat \ {0}
  BY TermsTyped DEF LadderSound, PoolSound, Ladder
<1> QED BY <1>1 DEF NextBid

\* Whoever leaves the pool is off or cannot bid the next amount.
LEMMA PoolShrinks ==
  ASSUME TypeOK, NEW a \in Auctions, NEW l, LadderSound(a, l)
  PROVE  \A v \in Users \ (Able(a, l) \cup l.off) : l.limit[v] < NextBid(a, l)
<1>1. \A v \in Users : l.limit[v] \in Nat
  BY DEF LadderSound, PoolSound, Ladder
<1>2. NextBid(a, l) \in Nat /\ NextBid(a, l) = l.cur + terms[a].minIncrement
  BY NextBidTyped
<1>3. \A v \in Users \ (l.pool \cup l.off) : l.limit[v] < NextBid(a, l)
  BY <1>2 DEF LadderSound, RungsSound
<1> QED BY <1>1, <1>2, <1>3 DEF Able

\* The challenger cannot pay and is deactivated (workers/index.ts, the catch of the loop).
LEMMA SkipSound ==
  ASSUME TypeOK, NEW a \in Auctions, NEW l, LadderSound(a, l), Going(a, l)
  PROVE  LadderSound(a, AfterSkip(a, l)) /\ Wallets(AfterSkip(a, l)) = Wallets(l)
         /\ AfterSkip(a, l).trigger = l.trigger
<1> DEFINE u == Challenger(a, l)
           r == AfterSkip(a, l)
<1>1. PoolSound(l) /\ l \in Ladder /\ l.left - 1 \in Nat
  BY DEF LadderSound, PoolSound, Ladder, Going
<1>2. u \in Able(a, l)
  BY <1>1, ChallengerFacts DEF Going
<1>3. Able(a, l) \subseteq l.pool /\ l.pool \subseteq Users /\ l.off \subseteq Users
  BY <1>1 DEF Able, Ladder
<1>4. /\ r.trigger = l.trigger /\ r.limit = l.limit /\ r.since = l.since
      /\ r.pool = Able(a, l) \ {u} /\ r.off = l.off \cup {u} /\ r.left = l.left - 1
      /\ r.steps = l.steps /\ r.cur = l.cur /\ r.top = l.top /\ r.rows = l.rows
      /\ r.acct = l.acct
  BY <1>1 DEF AfterSkip, Ladder
<1>5. r \in Ladder
  <2>1. Able(a, l) \ {u} \in SUBSET Users /\ l.off \cup {u} \in SUBSET Users
    BY <1>2, <1>3
  <2> HIDE DEF u
  <2> QED BY <1>1, <2>1 DEF AfterSkip, Ladder, u
<1>6. \A v \in Users \ (Able(a, l) \cup l.off) : l.limit[v] < NextBid(a, l)
  BY PoolShrinks
<1>7. NextBid(a, l) = l.cur + terms[a].minIncrement
  BY NextBidTyped
<1> HIDE DEF r, u
<1>8. PoolSound(r)
  BY <1>1, <1>2, <1>3, <1>4, <1>5 DEF PoolSound
<1>9. SceneKept(a, r) /\ RowsClimb(a, r)
  BY <1>4 DEF LadderSound, SceneKept, RowsClimb
<1>10. HoldsMoved(a, r) /\ Wallets(r) = Wallets(l)
  BY <1>4 DEF LadderSound, HoldsMoved, Wallets, Leader
<1>11. RungsSound(a, r)
  <2>1. Rungs(r) = Rungs(l)
    BY <1>4 DEF Rungs
  <2>2. \A v \in Users \ (r.pool \cup r.off) : r.limit[v] < r.cur + terms[a].minIncrement
    BY <1>4, <1>6, <1>7
  <2> QED BY <1>4, <2>1, <2>2 DEF LadderSound, RungsSound
<1> QED BY <1>4, <1>8, <1>9, <1>10, <1>11 DEF LadderSound, r

\* The rows after a rung of amount by u.
WithRung(rows, u, amount) ==
  [Append(rows, NewBid(u, amount, "WINNING")) EXCEPT ![Len(rows)].status = "OUTBID"]

\* What a rung writes.
LEMMA RungFields ==
  ASSUME NEW a \in Auctions, NEW l \in Ladder, l.top = Len(l.rows)
  PROVE  LET u == Challenger(a, l)
             r == AfterRung(a, l)
         IN  /\ r.trigger = l.trigger /\ r.limit = l.limit /\ r.since = l.since
             /\ r.off = l.off /\ r.ceiling = l.ceiling
             /\ r.pool = Able(a, l) /\ r.left = l.left - 1 /\ r.steps = l.steps + 1
             /\ r.cur = NextBid(a, l) /\ r.top = Len(l.rows) + 1
             /\ r.rows = WithRung(l.rows, u, NextBid(a, l))
             /\ r.acct = Hold(Release(l.acct, Leader(l), l.rows[l.top].amount), u, NextBid(a,
                l))
             /\ r = [trigger |-> r.trigger, limit |-> r.limit, since |-> r.since,
                     pool |-> r.pool, off |-> r.off, ceiling |-> r.ceiling, left |-> r.left,
                     steps |-> r.steps, cur |-> r.cur, top |-> r.top, rows |-> r.rows,
                     acct |-> r.acct]
<1> DEFINE u == Challenger(a, l)
           n == NextBid(a, l)
           b == NewBid(u, n, "WINNING")
           k == Raised(a, l, u)
           s == WithRung(l.rows, u, n)
           q == Hold(Release(l.acct, Leader(l), l.rows[l.top].amount), u, n)
<1>1. k = [trigger |-> l.trigger, limit |-> l.limit, since |-> l.since,
           pool |-> Able(a, l), off |-> l.off, ceiling |-> l.ceiling, left |-> l.left - 1,
           steps |-> l.steps + 1, cur |-> n, top |-> Len(l.rows) + 1,
           rows |-> Append(l.rows, b), acct |-> l.acct]
  <2> HIDE DEF n, b, u
  <2>1. k = [l EXCEPT !.left = l.left - 1, !.steps = l.steps + 1, !.pool = Able(a, l),
        !.cur = n,
                      !.top = Len(l.rows) + 1, !.rows = Append(l.rows, b)]
    BY DEF Raised, n, b, u
  <2> HIDE DEF k
  <2> QED BY <2>1 DEF Ladder
<1>2. AfterRung(a, l) = [k EXCEPT !.rows = [k.rows EXCEPT ![l.top].status = "OUTBID"],
                                  !.acct = Hold(Release(k.acct, Leader(l),
                                    l.rows[l.top].amount), u, n)]
  BY DEF AfterRung
<1> HIDE DEF k
<1>3. AfterRung(a, l) = [k EXCEPT !.rows = s, !.acct = q]
  <2>1. k.rows = Append(l.rows, b) /\ k.acct = l.acct
    <3> HIDE DEF b, u, n
    <3> QED BY <1>1
  <2>2. [k.rows EXCEPT ![l.top].status = "OUTBID"] = s
    <3>1. [k.rows EXCEPT ![l.top].status = "OUTBID"]
            = [Append(l.rows, b) EXCEPT ![Len(l.rows)].status = "OUTBID"]
      BY <2>1, Zenon
    <3> QED BY <3>1 DEF WithRung
  <2>3. Hold(Release(k.acct, Leader(l), l.rows[l.top].amount), u, n) = q
    BY <2>1, Zenon
  <2> HIDE DEF b, u, n, s, q
  <2> QED BY <1>2, <2>2, <2>3, Zenon
<1> HIDE DEF s, q, n, b, u
<1>4. AfterRung(a, l) =
        [trigger |-> l.trigger, limit |-> l.limit, since |-> l.since,
         pool |-> Able(a, l), off |-> l.off, ceiling |-> l.ceiling, left |-> l.left - 1,
         steps |-> l.steps + 1, cur |-> n, top |-> Len(l.rows) + 1, rows |-> s, acct |-> q]
  BY <1>1, <1>3
<1> DEFINE r == AfterRung(a, l)
<1>5. /\ r.trigger = l.trigger /\ r.limit = l.limit /\ r.since = l.since
      /\ r.off = l.off /\ r.ceiling = l.ceiling
      /\ r.pool = Able(a, l) /\ r.left = l.left - 1 /\ r.steps = l.steps + 1
      /\ r.cur = n /\ r.top = Len(l.rows) + 1 /\ r.rows = s /\ r.acct = q
      /\ r = [trigger |-> r.trigger, limit |-> r.limit, since |-> r.since,
              pool |-> r.pool, off |-> r.off, ceiling |-> r.ceiling, left |-> r.left,
              steps |-> r.steps, cur |-> r.cur, top |-> r.top, rows |-> r.rows,
              acct |-> r.acct]
  <2> HIDE DEF r
  <2>1. r = [trigger |-> l.trigger, limit |-> l.limit, since |-> l.since,
             pool |-> Able(a, l), off |-> l.off, ceiling |-> l.ceiling, left |-> l.left - 1,
             steps |-> l.steps + 1, cur |-> n, top |-> Len(l.rows) + 1, rows |-> s, acct |-> q]
    BY <1>4 DEF r
  <2> QED BY <2>1
<1> QED BY <1>5 DEF s, q, n, b, u

\* The rows after a rung of amount by u.
LEMMA RungRows ==
  ASSUME NEW rows \in Seq(Bid), Len(rows) > 0, NEW u \in Users, NEW amount \in Nat \ {0}
  PROVE  LET n == Len(rows)
             s == WithRung(rows, u, amount)
         IN  /\ s \in Seq(Bid) /\ Len(s) = n + 1 /\ DOMAIN s = 1 .. (n + 1)
             /\ s[n + 1].bidder = u /\ s[n + 1].amount = amount
             /\ s[n + 1].status = "WINNING" /\ ~s[n + 1].refunded
             /\ \A i \in 1 .. n : /\ s[i].bidder = rows[i].bidder
                /\ s[i].amount = rows[i].amount
                                  /\ s[i].refunded = rows[i].refunded
                                  /\ s[i].status = IF i = n THEN "OUTBID" ELSE rows[i].status
<1> DEFINE n == Len(rows)
           b == NewBid(u, amount, "WINNING")
           t == Append(rows, b)
           s == WithRung(rows, u, amount)
<1>1. b \in Bid /\ b.bidder = u /\ b.amount = amount /\ b.status = "WINNING"
      /\ b.refunded = FALSE
  <2>1. b \in Bid
    BY NewBidTyped DEF BidStatuses
  <2> QED BY <2>1 DEF NewBid
<1> HIDE DEF b
<1>2. n \in Nat /\ DOMAIN rows = 1 .. n
  BY LenProperties
<1>3. t \in Seq(Bid) /\ Len(t) = n + 1 /\ (\A i \in 1 .. n : t[i] = rows[i]) /\ t[n + 1] = b
  <2>1. b \in Bid
    BY <1>1
  <2>2. t \in Seq(Bid) /\ Len(t) = n + 1
    BY <2>1, AppendProperties
  <2>3. \A i \in 1 .. n : t[i] = rows[i]
    BY <2>1, AppendProperties
  <2>4. t[n + 1] = b
    BY <2>1, AppendProperties
  <2> QED BY <2>2, <2>3, <2>4
<1>4. DOMAIN t = 1 .. (n + 1)
  BY <1>3, LenProperties
<1>5. n \in DOMAIN t /\ n \in 1 .. n /\ n # n + 1 /\ \A i \in 1 .. n : i # n + 1
      /\ i \in DOMAIN t
  <2>1. n > 0
    OBVIOUS
  <2> HIDE DEF t, n
  <2> QED BY <1>2, <1>4, <2>1
<1> DEFINE x == [rows[n] EXCEPT !.status = "OUTBID"]
<1>6. rows[n] \in Bid
  BY <1>5, ElementOfSeq
<1>7. /\ x \in Bid /\ x.bidder = rows[n].bidder /\ x.amount = rows[n].amount
      /\ x.refunded = rows[n].refunded /\ x.status = "OUTBID"
  BY <1>6, StatusFacts DEF BidStatuses
<1>8. s = [t EXCEPT ![n] = x]
  <2>1. s = [t EXCEPT ![n] = [t[n] EXCEPT !.status = "OUTBID"]]
    BY DEF b, WithRung
  <2>2. t[n] = rows[n]
    BY <1>3, <1>5
  <2> QED BY <2>1, <2>2, Zenon
<1> HIDE DEF x, t, s
<1>9. /\ DOMAIN s = 1 .. (n + 1) /\ s[n] = x /\ s[n + 1] = b
      /\ \A i \in 1 .. n : i # n => s[i] = rows[i]
  BY <1>3, <1>4, <1>5, <1>8
<1>10. s \in [DOMAIN t -> Bid]
  <2>1. \A i \in DOMAIN t : t[i] \in Bid
    BY <1>3, <1>4, ElementOfSeq
  <2> QED BY <1>7, <1>8, <2>1
<1>11. s \in Seq(Bid) /\ Len(s) = n + 1
  <2>1. t \in Seq(Bid) /\ Len(t) = n + 1
    BY <1>3
  <2>2. s \in Seq(Bid) /\ Len(s) = Len(t)
    BY <1>10, <2>1, SamePositions
  <2> QED BY <2>1, <2>2
<1> HIDE DEF n
<1> QED BY <1>1, <1>7, <1>9, <1>11 DEF n, s

\* The wallets after a rung: the leader's hold for the price is released, the challenger's
\* for the next bid was available and is taken.
LEMMA RungWallets ==
  ASSUME TypeOK, NEW a \in Auctions, NEW l, LadderSound(a, l), Going(a, l),
         ~Short(a, l, Challenger(a, l)),
         NEW q, q = Hold(Release(l.acct, Leader(l), l.rows[l.top].amount), Challenger(a, l),
                         NextBid(a, l))
  PROVE  /\ KeepsBooks(Users, l.acct, q) /\ KeepsSales(Users, l.acct, q)
         /\ \A v \in Users :
              /\ Covered(q[v]) /\ q[v].refunds = l.acct[v].refunds
              /\ q[v].held = l.acct[v].held - (IF v = Leader(l) THEN l.cur ELSE 0)
                               + (IF v = Challenger(a, l) THEN NextBid(a, l) ELSE 0)
<1> DEFINE p == l.acct
           w == Leader(l)
           u == Challenger(a, l)
           m == l.cur
           n == NextBid(a, l)
           o == Release(p, w, m)
<1>1. p \in [Users -> Account] /\ \A v \in Users : Covered(p[v])
  BY DEF LadderSound, PoolSound, Ladder, HoldsMoved
<1>2. w \in Users /\ u \in Users
  <2>1. u \in Able(a, l)
    BY ChallengerFacts DEF Going, LadderSound
  <2> QED BY <2>1, LadderRows DEF LadderSound, PoolSound, Ladder, Able
<1>3. m \in Nat /\ n \in Nat /\ l.rows[l.top].amount = m
  BY NextBidTyped DEF LadderSound, RowsClimb
<1>4. Available(p[u]) >= IF u = w THEN n - m ELSE n
  <2>1. Available(p[u]) \in Int
    BY <1>1, <1>2, ColumnTypes DEF Available
  <2>2. Required(a, l, u) = IF u = w THEN n - m ELSE n
    BY <1>3 DEF Required
  <2>3. ~(Available(p[u]) < Required(a, l, u))
    BY DEF Short
  <2> HIDE DEF u, w, m, n
  <2> QED BY <1>3, <2>1, <2>2, <2>3
<1>5. q = Hold(o, u, n)
  BY <1>3
<1> HIDE DEF p, w, u, m, n
<1>6. /\ o \in [Users -> Account] /\ \A v \in Users : Covered(o[v])
      /\ \A v \in Users : Available(o[v]) >= Available(p[v])
      /\ KeepsBooks(Users, p, o) /\ KeepsSales(Users, p, o)
  BY <1>1, <1>2, <1>3, ReleaseFacts DEF KeepsBooks, KeepsCovered
<1>7. Available(o[u]) >= n
  <2>1. CASE u = w
    <3>1. o[u].held = p[u].held - m
      BY <1>1, <1>2, <1>3, <2>1, WalletHolds
    <3>2. o[u].balance = p[u].balance
      BY <1>1, <1>2, <2>1 DEF Release, Account
    <3>3. p[u].held \in Int /\ p[u].balance \in Int
      BY <1>1, <1>2, ColumnTypes
    <3> HIDE DEF o
    <3> QED BY <1>3, <1>4, <2>1, <3>1, <3>2, <3>3 DEF Available
  <2>2. CASE u # w
    <3>1. Available(o[u]) \in Int /\ Available(p[u]) \in Int
      BY <1>1, <1>2, <1>6, ColumnTypes DEF Available
    <3> HIDE DEF o
    <3> QED BY <1>2, <1>3, <1>4, <1>6, <2>2, <3>1
  <2> QED BY <2>1, <2>2
<1> HIDE DEF o
<1>8. /\ q \in [Users -> Account] /\ \A v \in Users : Covered(q[v])
      /\ KeepsBooks(Users, o, q) /\ KeepsSales(Users, o, q)
  <2>1. /\ KeepsBooks(Users, o, Hold(o, u, n)) /\ KeepsSales(Users, o, Hold(o, u, n))
        /\ KeepsCovered(Users, o, Hold(o, u, n))
    BY <1>2, <1>3, <1>6, <1>7, HoldFacts
  <2> QED BY <1>5, <1>6, <2>1 DEF KeepsBooks, KeepsCovered
<1>9. ASSUME NEW v \in Users
      PROVE  /\ q[v].refunds = p[v].refunds
             /\ q[v].held = p[v].held - (IF v = w THEN m ELSE 0) + (IF v = u THEN n ELSE 0)
  <2>1. o[v].held = p[v].held - (IF v = w THEN m ELSE 0) /\ o[v].refunds = p[v].refunds
    BY <1>1, <1>2, <1>3, WalletHolds DEF o
  <2>2. q[v].held = o[v].held + (IF v = u THEN n ELSE 0) /\ q[v].refunds = o[v].refunds
    BY <1>2, <1>3, <1>5, <1>6, WalletHolds
  <2> QED BY <2>1, <2>2
<1>10. KeepsBooks(Users, p, q) /\ KeepsSales(Users, p, q)
  BY <1>6, <1>8 DEF KeepsBooks, KeepsSales
<1> QED BY <1>8, <1>9, <1>10 DEF p, w, u, m, n

\* A rung keeps the ladder sound.
LEMMA RungSound ==
  ASSUME TypeOK, NEW a \in Auctions, NEW l, LadderSound(a, l), Going(a, l),
         ~Short(a, l, Challenger(a, l))
  PROVE  LadderSound(a, AfterRung(a, l)) /\ Wallets(AfterRung(a, l)) = Wallets(l)
         /\ AfterRung(a, l).trigger = l.trigger
<1> DEFINE u == Challenger(a, l)
           w == Leader(l)
           r == AfterRung(a, l)
           n == Len(l.rows)
           nb == NextBid(a, l)
           inc == terms[a].minIncrement
<1>1. PoolSound(l) /\ l \in Ladder /\ l.left - 1 \in Nat
  BY DEF LadderSound, PoolSound, Ladder, Going
<1>2. /\ u \in Able(a, l) /\ u \in l.pool /\ u \in Users /\ l.limit[u] >= nb
      /\ u = w => Able(a, l) \ {w} = {}
      /\ Able(a, l) \subseteq l.pool /\ l.pool \subseteq Users
  <2>1. u \in Able(a, l) /\ (u = w => Able(a, l) \ {w} = {})
    BY <1>1, ChallengerFacts DEF Going
  <2> HIDE DEF u
  <2> QED BY <1>1, <2>1 DEF Able, Ladder
<1>3. /\ nb \in Nat \ {0} /\ nb > l.cur /\ nb = l.cur + inc /\ l.cur \in Nat \ {0}
      /\ inc \in Nat \ {0}
  BY NextBidTyped
<1>4. /\ l.rows \in Seq(Bid) /\ n \in Nat /\ DOMAIN l.rows = 1 .. n /\ l.top = n /\ n >= 1
      /\ Len(bids[a]) \in Nat /\ DOMAIN bids[a] = 1 .. Len(bids[a]) /\ Len(bids[a]) >= 1
      /\ n = Len(bids[a]) + l.steps /\ l.steps \in Nat
      /\ w \in Users /\ w = l.rows[n].bidder /\ l.rows[n].amount = l.cur
  <2>1. w \in Users
    BY LadderRows
  <2>2. w = l.rows[n].bidder /\ l.rows[n].amount = l.cur
    BY LadderRows DEF Leader, LadderSound, RowsClimb
  <2> HIDE DEF w
  <2> QED BY <2>1, <2>2, LadderRows
<1>5. /\ r.trigger = l.trigger /\ r.limit = l.limit /\ r.since = l.since
      /\ r.off = l.off /\ r.ceiling = l.ceiling
      /\ r.pool = Able(a, l) /\ r.left = l.left - 1 /\ r.steps = l.steps + 1
      /\ r.cur = nb /\ r.top = n + 1
      /\ r.rows = WithRung(l.rows, u, nb)
      /\ r.acct = Hold(Release(l.acct, w, l.rows[l.top].amount), u, nb)
      /\ r = [trigger |-> r.trigger, limit |-> r.limit, since |-> r.since,
              pool |-> r.pool, off |-> r.off, ceiling |-> r.ceiling, left |-> r.left,
              steps |-> r.steps, cur |-> r.cur, top |-> r.top, rows |-> r.rows,
              acct |-> r.acct]
  BY <1>1, <1>4, RungFields
<1>6. \A v \in Users \ (Able(a, l) \cup l.off) : l.limit[v] < nb
  BY PoolShrinks
<1>7. /\ r.acct \in [Users -> Account]
      /\ KeepsBooks(Users, l.acct, r.acct) /\ KeepsSales(Users, l.acct, r.acct)
      /\ \A v \in Users : /\ Covered(r.acct[v]) /\ r.acct[v].refunds = l.acct[v].refunds
                          /\ r.acct[v].held = l.acct[v].held - (IF v = w THEN l.cur ELSE 0)
                                                + (IF v = u THEN nb ELSE 0)
  <2> HIDE DEF r
  <2>1. /\ KeepsBooks(Users, l.acct, r.acct) /\ KeepsSales(Users, l.acct, r.acct)
        /\ \A v \in Users :
             /\ Covered(r.acct[v]) /\ r.acct[v].refunds = l.acct[v].refunds
             /\ r.acct[v].held = l.acct[v].held - (IF v = w THEN l.cur ELSE 0)
                                   + (IF v = u THEN nb ELSE 0)
    BY <1>5, RungWallets
  <2> QED BY <2>1 DEF KeepsBooks
<1> HIDE DEF u, w, r, nb, inc
<1>8. /\ r.rows \in Seq(Bid) /\ Len(r.rows) = n + 1 /\ DOMAIN r.rows = 1 .. (n + 1)
      /\ r.rows[n + 1].bidder = u /\ r.rows[n + 1].amount = nb
      /\ r.rows[n + 1].status = "WINNING" /\ ~r.rows[n + 1].refunded
      /\ \A i \in 1 .. n : /\ r.rows[i].bidder = l.rows[i].bidder
                           /\ r.rows[i].amount = l.rows[i].amount
                           /\ r.rows[i].refunded = l.rows[i].refunded
                           /\ r.rows[i].status = IF i = n THEN "OUTBID" ELSE l.rows[i].status
  <2>1. l.rows \in Seq(Bid) /\ Len(l.rows) > 0 /\ u \in Users /\ nb \in Nat \ {0}
    BY <1>2, <1>3, <1>4
  <2> QED BY <1>5, <2>1, RungRows
<1> HIDE DEF n
<1>9. PoolSound(r)
  <2>1. r.left \in Nat /\ r.steps \in Nat /\ r.top \in Nat /\ r.cur \in Nat \ {0}
    BY <1>1, <1>3, <1>4, <1>5
  <2>2. r.pool \in SUBSET Users /\ r.off \in SUBSET Users
    BY <1>1, <1>2, <1>5 DEF Ladder
  <2>3. /\ r.trigger \in Users /\ r.limit \in [Users -> Nat] /\ r.since \in [Users -> Nat]
        /\ r.ceiling \in Int
    BY <1>1, <1>5 DEF Ladder
  <2>4. r \in Ladder
    BY <1>5, <1>7, <1>8, <2>1, <2>2, <2>3 DEF Ladder
  <2> QED BY <1>1, <1>2, <1>5, <2>4 DEF PoolSound
<1>10. SceneKept(a, r)
  BY <1>5 DEF LadderSound, SceneKept
<1>11. Leader(r) = u
  BY <1>5, <1>8 DEF Leader
<1>12. RowsClimb(a, r)
  <2>1. r.top = Len(r.rows) /\ Len(r.rows) = Len(bids[a]) + r.steps
    <3>1. r.top = n + 1 /\ r.steps = l.steps + 1 /\ Len(r.rows) = n + 1
      BY <1>5, <1>8
    <3>2. n = Len(bids[a]) + l.steps /\ Len(bids[a]) \in Nat /\ l.steps \in Nat
      BY <1>4
    <3> QED BY <3>1, <3>2
  <2>2. \A i \in DOMAIN bids[a] : /\ r.rows[i].bidder = bids[a][i].bidder
                                  /\ r.rows[i].amount = bids[a][i].amount
    <3>1. \A i \in DOMAIN bids[a] : i \in 1 .. n
      BY <1>4
    <3> QED BY <1>8, <3>1 DEF LadderSound, RowsClimb
  <2>3. ASSUME NEW i \in DOMAIN r.rows
        PROVE  /\ r.rows[i].status = IF i = r.top THEN "WINNING" ELSE "OUTBID"
               /\ ~r.rows[i].refunded
               /\ r.rows[i].amount <= r.cur
               /\ i > 1 => r.rows[i].amount >= r.rows[i - 1].amount + terms[a].minIncrement
    <3>1. CASE i = n + 1
      <4>1. i - 1 = n /\ n \in 1 .. n
        BY <1>4, <3>1
      <4>2. r.rows[i - 1].amount = l.cur
        BY <1>4, <1>8, <4>1
      <4> QED BY <1>3, <1>5, <1>8, <3>1, <4>2 DEF inc
    <3>2. CASE i # n + 1
      <4>1. i \in 1 .. n /\ i \in DOMAIN l.rows /\ i # r.top
        BY <1>4, <1>5, <1>8, <3>2
      <4>2. /\ l.rows[i].status = IF i = n THEN "WINNING" ELSE "OUTBID"
            /\ ~l.rows[i].refunded /\ l.rows[i].amount <= l.cur
            /\ i > 1 => l.rows[i].amount >= l.rows[i - 1].amount + terms[a].minIncrement
        BY <1>4, <4>1 DEF LadderSound, RowsClimb
      <4>3. r.rows[i].status = "OUTBID" /\ ~r.rows[i].refunded
        BY <1>8, <4>1, <4>2
      <4>4. r.rows[i].amount <= r.cur
        <5>1. l.rows[i].amount \in Nat
          BY <4>1, LadderRows
        <5> QED BY <1>3, <1>5, <1>8, <4>1, <4>2, <5>1
      <4>5. ASSUME i > 1
            PROVE  r.rows[i].amount >= r.rows[i - 1].amount + terms[a].minIncrement
        <5>1. i - 1 \in 1 .. n
          BY <1>4, <4>1, <4>5
        <5> QED BY <1>8, <4>1, <4>2, <4>5, <5>1
      <4> QED BY <4>1, <4>3, <4>4, <4>5
    <3> QED BY <3>1, <3>2
  <2> QED BY <1>5, <1>8, <2>1, <2>2, <2>3 DEF RowsClimb
<1>13. RungsSound(a, r)
  <2>1. ASSUME NEW i \in Rungs(r)
        PROVE  /\ r.rows[i].amount <= r.limit[r.rows[i].bidder]
               /\ r.rows[i].amount = r.rows[i - 1].amount + terms[a].minIncrement
               /\ r.rows[i].bidder = r.rows[i - 1].bidder =>
                    \A v \in Users \ {r.rows[i].bidder} :
                      r.limit[v] >= r.rows[i].amount => v \in r.off
    <3>1. CASE i = n + 1
      <4>1. i - 1 = n /\ n \in 1 .. n
        BY <1>4, <3>1
      <4>2. r.rows[i - 1].amount = l.cur /\ r.rows[i - 1].bidder = w
        BY <1>4, <1>8, <4>1
      <4>3. r.rows[i].bidder = u /\ r.rows[i].amount = nb
        BY <1>8, <3>1
      <4>4. ASSUME u = w, NEW v \in Users \ {u}, l.limit[v] >= nb
            PROVE  v \in l.off
        <5>1. v \notin Able(a, l)
          BY <1>2, <4>4
        <5>2. l.limit[v] \in Nat
          BY <1>1 DEF Ladder
        <5> QED BY <1>3, <1>6, <4>4, <5>1, <5>2
      <4> QED BY <1>2, <1>3, <1>5, <4>2, <4>3, <4>4 DEF inc
    <3>2. CASE i # n + 1
      <4>1. i \in Rungs(l) /\ i \in 1 .. n /\ i - 1 \in 1 .. n
        <5>1. i \in (n + 1) - (l.steps + 1) + 1 .. n + 1
          BY <1>5, <1>8 DEF Rungs
        <5>2. i \in n - l.steps + 1 .. n /\ n - l.steps >= 1
          BY <1>4, <3>2, <5>1
        <5> QED BY <1>4, <5>2 DEF Rungs, n
      <4>2. /\ r.rows[i].bidder = l.rows[i].bidder /\ r.rows[i].amount = l.rows[i].amount
            /\ r.rows[i - 1].bidder = l.rows[i - 1].bidder
            /\ r.rows[i - 1].amount = l.rows[i - 1].amount
        BY <1>8, <4>1
      <4>3. /\ l.rows[i].amount <= l.limit[l.rows[i].bidder]
            /\ l.rows[i].amount = l.rows[i - 1].amount + terms[a].minIncrement
            /\ l.rows[i].bidder = l.rows[i - 1].bidder =>
                 \A v \in Users \ {l.rows[i].bidder} :
                   l.limit[v] >= l.rows[i].amount => v \in l.off
        BY <4>1 DEF LadderSound, RungsSound
      <4> QED BY <1>5, <4>2, <4>3
    <3> QED BY <3>1, <3>2
  <2>2. ASSUME NEW v \in Users \ (r.pool \cup r.off)
        PROVE  r.limit[v] < r.cur + terms[a].minIncrement
    <3>1. l.limit[v] < nb /\ l.limit[v] \in Nat
      BY <1>1, <1>5, <1>6, <2>2 DEF Ladder
    <3> QED BY <1>3, <1>5, <3>1 DEF inc
  <2> QED BY <2>1, <2>2 DEF RungsSound
<1>14. Wallets(r) = Wallets(l)
  BY <1>5 DEF Wallets
<1>15. HoldsMoved(a, r)
  <2>1. ASSUME NEW v \in Wallets(r)
        PROVE  /\ r.acct[v].refunds = acct[v].refunds
               /\ r.acct[v].held =
                    acct[v].held - (IF v = r.trigger THEN bids[a][Len(bids[a])].amount ELSE 0)
                                 + (IF v = Leader(r) THEN r.cur ELSE 0)
    <3>1. v \in Wallets(l) /\ v \in Users
      BY <1>14, <2>1, LadderRows
    <3> DEFINE given == IF v = l.trigger THEN bids[a][Len(bids[a])].amount ELSE 0
               taken == IF v = w THEN l.cur ELSE 0
               new   == IF v = u THEN nb ELSE 0
    <3>2. l.acct[v].refunds = acct[v].refunds /\ l.acct[v].held = acct[v].held - given + taken
      BY <3>1 DEF LadderSound, HoldsMoved, w
    <3>3. r.acct[v].refunds = l.acct[v].refunds /\ r.acct[v].held = l.acct[v].held - taken + new
      BY <1>7, <3>1
    <3>4. given \in Int /\ taken \in Int /\ new \in Int
      BY <1>3, <1>4, BidRows
    <3>5. acct[v].held \in Int
      BY <3>1, ColumnTypes DEF TypeOK
    <3>6. /\ given = IF v = r.trigger THEN bids[a][Len(bids[a])].amount ELSE 0
          /\ new = IF v = Leader(r) THEN r.cur ELSE 0
      BY <1>5, <1>11
    <3> HIDE DEF given, taken, new
    <3>7. r.acct[v].held = acct[v].held - given + new
      BY <3>2, <3>3, <3>4, <3>5
    <3> QED BY <3>2, <3>3, <3>6, <3>7
  <2>2. Wallets(l) \subseteq Users
    BY LadderRows
  <2>3. KeepsSales(Wallets(r), acct, r.acct)
    <3>1. KeepsSales(Wallets(l), acct, l.acct)
      BY DEF LadderSound, HoldsMoved
    <3> QED BY <1>7, <1>14, <2>2, <3>1 DEF KeepsSales
  <2>4. \A v \in Wallets(r) : Explained(acct[v]) => Explained(r.acct[v])
    <3>1. \A v \in Wallets(l) : Explained(acct[v]) => Explained(l.acct[v])
      BY DEF LadderSound, HoldsMoved
    <3> QED BY <1>7, <1>14, <2>2, <3>1 DEF KeepsBooks
  <2> QED BY <1>7, <2>1, <2>3, <2>4 DEF HoldsMoved
<1> QED BY <1>5, <1>9, <1>10, <1>12, <1>13, <1>14, <1>15 DEF LadderSound, r

-----------------------------------------------------------------------------
(* The reads                                                               *)

\* An eligible trigger has made the last bid, which is the only WINNING one.
LEMMA EligibleFacts ==
  ASSUME HoldsInv, NEW a \in Auctions, NEW t \in Users, Eligible(a, t)
  PROVE  LET n == Len(bids[a])
         IN  /\ TypeOK /\ status[a] = "ACTIVE" /\ English(a)
             /\ n \in Nat /\ n >= 1 /\ DOMAIN bids[a] = 1 .. n
             /\ WinningOf(a, t) = {n}
             /\ bids[a][n].status = "WINNING" /\ bids[a][n].bidder = t /\ t # Seller(a)
             /\ bids[a][n].amount = price[a]
             /\ \A i \in DOMAIN bids[a] :
                  /\ bids[a][i].status = IF i = n THEN "WINNING" ELSE "OUTBID"
                  /\ ~bids[a][i].refunded /\ bids[a][i].amount <= price[a]
                  /\ i > 1 => bids[a][i].amount >= bids[a][i - 1].amount + terms[a].minIncrement
<1> DEFINE n == Len(bids[a])
<1>1. OutcomeInv /\ EnglishBidsClimb /\ SellerOutside
  BY DEF HoldsInv, OutcomeInv, Inv
<1>2. status[a] = "ACTIVE" /\ English(a) /\ WinningOf(a, t) # {}
  BY DEF Eligible
<1>3. /\ TypeOK /\ AuctionSound(a) /\ ~Settled(a)
      /\ \A i \in DOMAIN bids[a] :
           ~bids[a][i].refunded /\ bids[a][i].status \in {"WINNING", "OUTBID"}
  <2>1. status[a] # "ENDED"
    BY <1>2
  <2> QED BY <1>1, <2>1, OnOfferFacts
<1>4. n \in Nat /\ DOMAIN bids[a] = 1 .. n
  BY <1>3, BidRows
<1>5. settlement[a].kind # "DIRECT_SALE"
  BY <1>3 DEF Settled, NoSettlement
<1>6. /\ \A i \in DOMAIN bids[a] : bids[a][i].status = "WINNING" => i = n
      /\ \A i \in DOMAIN bids[a] : i > 1 =>
           bids[a][i].amount >= bids[a][i - 1].amount + terms[a].minIncrement
      /\ bids[a] # <<>> => price[a] = bids[a][n].amount
  BY <1>1, <1>2, <1>5 DEF EnglishBidsClimb
<1>7. \A i \in WinningOf(a, t) : i = n /\ i \in DOMAIN bids[a] /\ bids[a][i].bidder = t
                                /\ bids[a][i].status = "WINNING"
  BY <1>6 DEF WinningOf, BidsWith
<1>8. /\ WinningOf(a, t) = {n} /\ n \in DOMAIN bids[a]
      /\ bids[a][n].bidder = t /\ bids[a][n].status = "WINNING"
  BY <1>2, <1>7
<1>9. n >= 1 /\ bids[a] # <<>>
  BY <1>4, <1>8, EmptySeq
<1>10. t # Seller(a)
  BY <1>1, <1>8 DEF SellerOutside
<1>11. \A i \in DOMAIN bids[a] : bids[a][i].amount <= price[a]
  BY <1>2, <1>3, <1>5 DEF AuctionSound, OnOffer, SoldDirectly
<1>12. \A i \in DOMAIN bids[a] : bids[a][i].status = IF i = n THEN "WINNING" ELSE "OUTBID"
  BY <1>3, <1>6, <1>8
<1> QED BY <1>2, <1>3, <1>4, <1>6, <1>8, <1>9, <1>10, <1>11, <1>12

\* What the ladder of t reads is sound.
LEMMA LoadedSound ==
  ASSUME HoldsInv, HoldsCovered, TablesTyped, NEW a \in Auctions, RowsRanked(a),
         NEW t \in Users, Eligible(a, t)
  PROVE  /\ LadderSound(a, Loaded(a, t)) /\ Loaded(a, t).trigger = t
         /\ Wallets(Loaded(a, t)) = {t} \cup Rivals(a, t)
<1> DEFINE n        == Len(bids[a])
           pool     == Rivals(a, t)
           inc      == terms[a].minIncrement
           limit    == [u \in Users |-> IF u \in pool THEN autoBid[a][u].limit ELSE 0]
           since    == [u \in Users |-> autoBid[a][u].since]
           first    == Foremost(limit, since, pool)
           second   == Foremost(limit, since, pool \ {first})
           runnerUp == IF pool = {first} THEN price[a] ELSE limit[second]
           ceiling  == Ceiling(limit[first], runnerUp, inc)
           left     == StepBound(ceiling, price[a], inc)
           top      == CHOOSE i \in WinningOf(a, t) : \A j \in WinningOf(a, t) : j <= i
           l        == Loaded(a, t)
<1>1. /\ TypeOK /\ status[a] = "ACTIVE" /\ English(a)
      /\ n \in Nat /\ n >= 1 /\ DOMAIN bids[a] = 1 .. n
      /\ WinningOf(a, t) = {n}
      /\ bids[a][n].status = "WINNING" /\ bids[a][n].bidder = t /\ t # Seller(a)
      /\ bids[a][n].amount = price[a]
      /\ \A i \in DOMAIN bids[a] :
           /\ bids[a][i].status = IF i = n THEN "WINNING" ELSE "OUTBID"
           /\ ~bids[a][i].refunded /\ bids[a][i].amount <= price[a]
           /\ i > 1 => bids[a][i].amount >= bids[a][i - 1].amount + terms[a].minIncrement
  BY EligibleFacts
<1>2. l = [trigger |-> t, limit |-> limit, since |-> since, pool |-> pool, off |-> {},
           ceiling |-> ceiling, left |-> left, steps |-> 0, cur |-> price[a], top |-> top,
           rows |-> bids[a], acct |-> acct]
  BY DEF Loaded
<1>3. /\ autoBid[a] \in [Users -> AutoBid]
      /\ \A u \in Users : /\ autoBid[a][u].limit \in Nat /\ autoBid[a][u].since \in Nat
                          /\ autoBid[a][u].active \in BOOLEAN
  BY DEF TablesTyped, AutoBid
<1>4. limit \in [Users -> Nat] /\ since \in [Users -> Nat]
  BY <1>3
<1>5. pool \in SUBSET Users /\ pool # {}
  BY DEF Rivals, Eligible
<1>6. \A u \in pool : autoBid[a][u].active /\ u \in Registered(a) /\ limit[u] > 0
  BY DEF Rivals, RowsRanked, Registered, NoAutoBid
<1>7. \A u, v \in pool : since[u] = since[v] => u = v
  BY <1>5, <1>6 DEF RowsRanked
<1>8. Seller(a) \notin pool
  BY DEF Rivals, RowsRanked, NoAutoBid
<1>9. top = n
  BY <1>1
<1>10. price[a] \in Nat \ {0} /\ inc \in Nat \ {0} /\ acct \in [Users -> Account]
  BY <1>1, TermsTyped DEF TypeOK
<1> HIDE DEF pool, limit, since, l
<1>11. first \in pool
  BY <1>4, <1>5, <1>7, ForemostIn
<1>12. runnerUp \in Nat
  <2>1. CASE pool = {first}
    BY <1>10, <2>1
  <2>2. CASE pool # {first}
    <3>1. pool \ {first} \in SUBSET Users /\ pool \ {first} # {}
      BY <1>5, <1>11, <2>2
    <3>2. \A u, v \in pool \ {first} : since[u] = since[v] => u = v
      BY <1>7
    <3> HIDE DEF first
    <3>3. second \in pool \ {first}
      BY <1>4, <3>1, <3>2, ForemostIn
    <3> HIDE DEF second
    <3> QED BY <1>4, <1>5, <2>2, <3>3
  <2> QED BY <2>1, <2>2
<1>13. ceiling \in Int
  <2>1. limit[first] \in Nat
    BY <1>4, <1>5, <1>11
  <2> HIDE DEF first, runnerUp, inc
  <2> DEFINE q == runnerUp \div inc
  <2>2. q \in Int
    BY <1>10, <1>12
  <2>3. ceiling = IF q * inc + inc < limit[first] THEN q * inc + inc ELSE limit[first]
    BY DEF Ceiling
  <2> HIDE DEF q
  <2>4. q * inc + inc \in Int
    BY <1>10, <2>2
  <2> QED BY <2>1, <2>3, <2>4
<1> HIDE DEF ceiling, runnerUp, second, first
<1>14. left \in Nat
  BY <1>10, <1>13, StepBoundTyped
<1> HIDE DEF left, top, inc
<1>15. /\ l.trigger = t /\ l.limit = limit /\ l.since = since /\ l.pool = pool /\ l.off = {}
       /\ l.steps = 0 /\ l.cur = price[a] /\ l.top = n /\ l.rows = bids[a] /\ l.acct = acct
  BY <1>2, <1>9
<1>16. PoolSound(l)
  <2>1. l \in Ladder
    <3>1. bids[a] \in Seq(Bid) /\ top \in Nat
      BY <1>1, <1>9, BidRows
    <3> QED BY <1>2, <1>4, <1>5, <1>10, <1>13, <1>14, <3>1 DEF Ladder
  <2> QED BY <1>6, <1>7, <1>15, <2>1 DEF PoolSound
<1>17. SceneKept(a, l)
  <2>1. limit[Seller(a)] = 0
    BY <1>1, <1>8, TermsTyped DEF limit
  <2> QED BY <1>1, <1>15, <2>1 DEF SceneKept
<1>18. RowsClimb(a, l)
  BY <1>1, <1>15 DEF RowsClimb
<1>19. RungsSound(a, l)
  <2>1. Rungs(l) = {}
    BY <1>1, <1>15 DEF Rungs
  <2>2. ASSUME NEW v \in Users \ (l.pool \cup l.off)
        PROVE  l.limit[v] < l.cur + terms[a].minIncrement
    <3>1. l.limit[v] = 0
      BY <1>15, <2>2 DEF limit
    <3> QED BY <1>10, <1>15, <3>1 DEF inc
  <2> QED BY <2>1, <2>2 DEF RungsSound
<1>20. Wallets(l) = {t} \cup pool
  <2>1. \A u \in Users : limit[u] > 0 <=> u \in pool
    <3>1. \A u \in Users \ pool : limit[u] = 0
      BY DEF limit
    <3> QED BY <1>6, <3>1
  <2> QED BY <1>5, <1>15, <2>1 DEF Wallets
<1>21. HoldsMoved(a, l)
  <2>1. Leader(l) = t
    BY <1>1, <1>15 DEF Leader
  <2>2. ASSUME NEW v \in Wallets(l)
        PROVE  acct[v].held = acct[v].held - (IF v = t THEN price[a] ELSE 0)
                                           + (IF v = t THEN price[a] ELSE 0)
    <3>1. v \in Users
      BY <1>5, <1>20, <2>2
    <3>2. acct[v].held \in Int
      BY <1>10, <3>1, ColumnTypes
    <3> QED BY <1>10, <3>2
  <2> QED BY <1>1, <1>15, <2>1, <2>2 DEF HoldsMoved, HoldsCovered, Covered, KeepsSales
<1> QED BY <1>15, <1>16, <1>17, <1>18, <1>19, <1>20, <1>21 DEF LadderSound, l, pool

-----------------------------------------------------------------------------
(* Steps that leave a ladder alone                                         *)

\* The copies of a ladder stay what they are while its rows are locked.
LEMMA LadderStays ==
  ASSUME NEW a \in Auctions, NEW l, LadderSound(a, l), terms' = terms,
         status'[a] = status[a], bids'[a] = bids[a],
         \A v \in Wallets(l) : acct'[v] = acct[v]
  PROVE  LadderSound(a, l)'
<1>1. SceneKept(a, l)'
  BY DEF LadderSound, SceneKept, English, Seller
<1>2. RowsClimb(a, l)'
  BY DEF LadderSound, RowsClimb
<1>3. RungsSound(a, l)'
  BY DEF LadderSound, RungsSound
<1>4. HoldsMoved(a, l)'
  BY DEF LadderSound, HoldsMoved, KeepsSales
<1> QED BY <1>1, <1>2, <1>3, <1>4 DEF LadderSound

\* The rows and wallets that the ladder on b has locked are as they were.
Locked(b) ==
  Running(b) => /\ status'[b] = status[b] /\ bids'[b] = bids[b]
                /\ \A u \in Involved(b) : acct'[u] = acct[u]

LEMMA LockedStays ==
  ASSUME NEW b \in Auctions, SoundAt(b), ladder'[b] = ladder[b], terms' = terms, Locked(b)
  PROVE  SoundAt(b)' /\ Running(b)' = Running(b) /\ Involved(b)' = Involved(b)
<1>1. ASSUME NEW l, l = ladder'[b], l.trigger # NoUser
      PROVE  LadderSound(b, l)'
  <2>1. l = ladder[b] /\ LadderSound(b, l) /\ Running(b)
    BY <1>1 DEF SoundAt, Running
  <2>2. Wallets(l) = Involved(b)
    BY <2>1 DEF Wallets, Involved
  <2> QED BY <2>1, <2>2, LadderStays DEF Locked
<1> QED BY <1>1 DEF SoundAt, Running, Involved

\* auto_bids rows that nobody writes stay ranked.
LEMMA RankedStays ==
  ASSUME NEW a \in Auctions, RowsRanked(a), autoBid'[a] = autoBid[a], terms' = terms
  PROVE  RowsRanked(a)'
<1>1. Registered(a)' = Registered(a) /\ Seller(a)' = Seller(a)
  BY DEF Registered, Seller
<1> QED BY <1>1 DEF RowsRanked

\* What a step of the core does to the invariant of the core.
LEMMA CoreKept ==
  ASSUME Undisturbed, HoldsInv, HoldsCovered, [Next]_vars
  PROVE  HoldsInv' /\ HoldsCovered' /\ terms' = terms
<1>1. Inv /\ EnglishBidsClimb /\ OutcomeInv
  BY DEF HoldsInv, OutcomeInv
<1>2. Inv' /\ EnglishBidsClimb' /\ terms' = terms
  BY <1>1, NextInv, NextClimbs, TermsFixed
<1>3. \A a \in Auctions : AuctionSound(a)'
  BY <1>1, NextSound
<1>4. (\A a \in Auctions : HoldsSound(a)') /\ HeldBacked'
  BY <1>2, NextBacked DEF Inv
<1>5. HoldsCovered'
  <2>1. KeepsCovered(Users, acct, acct')
    BY <1>1, NextMoney DEF SafeForMoney, Inv
  <2> QED BY <2>1 DEF KeepsCovered, Covered, HoldsCovered
<1> QED BY <1>2, <1>3, <1>4, <1>5 DEF HoldsInv, OutcomeInv

\* A step that changes no ladder and no locked row.
LEMMA NoLadderStep ==
  ASSUME ProxyInv, ladder' = ladder, terms' = terms, \A b \in Auctions : Locked(b)
  PROVE  LaddersApart' /\ \A b \in Auctions : SoundAt(b)'
<1>1. \A b \in Auctions : SoundAt(b)' /\ Running(b)' = Running(b) /\ Involved(b)' = Involved(b)
  BY LockedStays DEF ProxyInv
<1> QED BY <1>1 DEF ProxyInv, LaddersApart

\* A step of the core, with the job that placeBid queues.
LEMMA CoreStepKeeps ==
  ASSUME Undisturbed, ProxyInv, CoreStep
  PROVE  ProxyInv'
<1>1. HoldsInv' /\ HoldsCovered' /\ terms' = terms
  BY CoreKept DEF ProxyInv, CoreStep
<1>2. TablesTyped'
  <2>1. /\ autoBid' = autoBid /\ aborts' = aborts /\ ladder' = ladder
        /\ jobs' = [a \in Auctions |-> [u \in Users |->
                      jobs[a][u] + IF u \in Bidders(a) THEN 1 ELSE 0]]
        /\ \A a \in Auctions, u \in Users : jobs'[a][u] <= MaxJobs
    BY DEF CoreStep
  <2>2. jobs' \in [Auctions -> [Users -> Nat]]
    <3>1. \A a \in Auctions, u \in Users : jobs[a][u] \in Nat
      BY DEF ProxyInv, TablesTyped
    <3>2. \A a \in Auctions, u \in Users :
            jobs[a][u] + (IF u \in Bidders(a) THEN 1 ELSE 0) \in Nat
      BY <3>1
    <3> QED BY <2>1, <3>2
  <2>3. \A a \in Auctions, u \in Users : jobs'[a][u] <= MaxJobs + aborts'
    <3>1. aborts \in Nat /\ MaxJobs \in Nat
      BY LadderBoundsAssumption DEF ProxyInv, TablesTyped
    <3>2. \A a \in Auctions, u \in Users : jobs'[a][u] \in Nat
      BY <2>2
    <3> QED BY <2>1, <3>1, <3>2
  <2> QED BY <2>1, <2>2, <2>3 DEF ProxyInv, TablesTyped
<1>3. \A a \in Auctions : RowsRanked(a)'
  BY <1>1, RankedStays DEF ProxyInv, CoreStep
<1>4. LaddersApart' /\ \A b \in Auctions : SoundAt(b)'
  BY <1>1, NoLadderStep DEF CoreStep, RespectsLocks, Locked
<1> QED BY <1>1, <1>2, <1>3, <1>4 DEF ProxyInv

-----------------------------------------------------------------------------
(* Steps of the ladders' own tables                                        *)

\* A step that leaves the core and the ladders alone.
LEMMA TablesStep ==
  ASSUME Undisturbed, ProxyInv, UNCHANGED vars, ladder' = ladder, TablesTyped',
         \A b \in Auctions : RowsRanked(b)'
  PROVE  ProxyInv'
<1>1. HoldsInv' /\ HoldsCovered' /\ terms' = terms
  BY CoreKept DEF ProxyInv
<1>2. \A b \in Auctions : Locked(b)
  BY DEF Locked, vars
<1> QED BY <1>1, <1>2, NoLadderStep DEF ProxyInv

\* A step that replaces the ladder on a.
LEMMA OneLadder ==
  ASSUME Undisturbed, ProxyInv, NEW a \in Auctions, NEW r,
         ladder' = [ladder EXCEPT ![a] = r], UNCHANGED <<vars, autoBid>>, TablesTyped',
         r.trigger # NoUser =>
           /\ LadderSound(a, r)
           /\ \A b \in Auctions \ {a} : Running(b) => Wallets(r) \cap Involved(b) = {}
  PROVE  ProxyInv'
<1>1. HoldsInv' /\ HoldsCovered' /\ terms' = terms
  BY CoreKept DEF ProxyInv
<1>2. /\ ladder'[a] = r
      /\ \A b \in Auctions \ {a} : ladder'[b] = ladder[b]
  BY DEF ProxyInv, TablesTyped
<1>3. \A b \in Auctions \ {a} :
        SoundAt(b)' /\ Running(b)' = Running(b) /\ Involved(b)' = Involved(b)
  <2>1. \A b \in Auctions : Locked(b) /\ SoundAt(b)
    BY DEF Locked, vars, ProxyInv
  <2> QED BY <1>1, <1>2, <2>1, LockedStays
<1>4. SoundAt(a)'
  <2>1. ASSUME NEW l, l = r, l.trigger # NoUser
        PROVE  LadderSound(a, l)'
    <3>1. LadderSound(a, l) /\ status' = status /\ bids' = bids /\ acct' = acct
      BY <2>1 DEF vars
    <3> QED BY <1>1, <3>1, LadderStays
  <2> QED BY <1>2, <2>1 DEF SoundAt
<1>5. /\ Running(a)' = (r.trigger # NoUser)
      /\ Involved(a)' = Wallets(r)
  BY <1>2 DEF Running, Involved, Wallets
<1>6. LaddersApart'
  <2>1. ASSUME NEW b \in Auctions \ {a}, r.trigger # NoUser, Running(b)
        PROVE  Wallets(r) \cap Involved(b) = {}
    BY <2>1
  <2>2. ASSUME NEW b \in Auctions, NEW c \in Auctions, b # c, Running(b)', Running(c)'
        PROVE  Involved(b)' \cap Involved(c)' = {}
    <3>1. CASE b = a
      BY <1>3, <1>5, <2>1, <2>2, <3>1
    <3>2. CASE c = a
      <4>1. Involved(c)' \cap Involved(b)' = {}
        BY <1>3, <1>5, <2>1, <2>2, <3>2
      <4> QED BY <4>1
    <3>3. CASE b # a /\ c # a
      BY <1>3, <2>2, <3>3 DEF ProxyInv, LaddersApart
    <3> QED BY <3>1, <3>2, <3>3
  <2> QED BY <2>2 DEF LaddersApart
<1>7. \A b \in Auctions : RowsRanked(b)'
  BY <1>1, RankedStays DEF ProxyInv
<1> QED BY <1>1, <1>3, <1>4, <1>6, <1>7 DEF ProxyInv

\* The wallets of a ladder are those it has locked, and no other ladder has.
LEMMA LadderAlone ==
  ASSUME ProxyInv, NEW a \in Auctions, Running(a), NEW l, l = ladder[a]
  PROVE  /\ LadderSound(a, l) /\ Wallets(l) = Involved(a)
         /\ \A b \in Auctions \ {a} : Running(b) => Wallets(l) \cap Involved(b) = {}
<1>1. LadderSound(a, l)
  BY DEF ProxyInv, SoundAt, Running
<1>2. Wallets(l) = Involved(a)
  BY DEF Wallets, Involved
<1> QED BY <1>1, <1>2 DEF ProxyInv, LaddersApart

\* One iteration of the loop.
LEMMA LoopKeeps ==
  ASSUME Undisturbed, ProxyInv, NEW a \in Auctions, LadderSkip(a) \/ LadderRung(a)
  PROVE  ProxyInv'
<1>1. PICK l : l = ladder[a]
  OBVIOUS
<1>2. Running(a) /\ TypeOK /\ UNCHANGED <<vars, autoBid, jobs, aborts>>
  BY DEF LadderSkip, LadderRung, ProxyInv, HoldsInv, OutcomeInv, Inv
<1>3. /\ LadderSound(a, l)
      /\ \A b \in Auctions \ {a} : Running(b) => Wallets(l) \cap Involved(b) = {}
  BY <1>1, <1>2, LadderAlone
<1>4. PICK r : /\ ladder' = [ladder EXCEPT ![a] = r]
               /\ LadderSound(a, r) /\ Wallets(r) = Wallets(l)
  <2>1. CASE LadderSkip(a)
    <3>1. Going(a, l) /\ ladder' = [ladder EXCEPT ![a] = AfterSkip(a, l)]
      BY <1>1, <2>1 DEF LadderSkip
    <3> QED BY <1>2, <1>3, <3>1, SkipSound
  <2>2. CASE LadderRung(a)
    <3>1. /\ Going(a, l) /\ ~Short(a, l, Challenger(a, l))
          /\ ladder' = [ladder EXCEPT ![a] = AfterRung(a, l)]
      BY <1>1, <2>2 DEF LadderRung
    <3> QED BY <1>2, <1>3, <3>1, RungSound
  <2> QED BY <2>1, <2>2
<1>5. TablesTyped'
  BY <1>2, <1>4 DEF ProxyInv, TablesTyped
<1> QED BY <1>2, <1>3, <1>4, <1>5, OneLadder

\* The number of jobs of one auction and trigger changes.
LEMMA JobsMove ==
  ASSUME TablesTyped, NEW a \in Auctions, NEW t \in Users, NEW n \in Nat,
         jobs' = [jobs EXCEPT ![a][t] = n], autoBid' = autoBid,
         aborts' \in 0 .. MaxAborts, aborts <= aborts', n <= MaxJobs + aborts',
         DOMAIN ladder' = Auctions
  PROVE  TablesTyped'
<1>1. /\ \A b \in Auctions, u \in Users : jobs'[b][u] = IF b = a /\ u = t THEN n ELSE jobs[b][u]
      /\ jobs' \in [Auctions -> [Users -> Nat]]
  BY DEF TablesTyped
<1>2. aborts \in Nat /\ aborts' \in Nat /\ MaxJobs \in Nat
  BY LadderBoundsAssumption DEF TablesTyped
<1>3. \A b \in Auctions, u \in Users : jobs'[b][u] <= MaxJobs + aborts'
  <2> SUFFICES ASSUME NEW b \in Auctions, NEW u \in Users
               PROVE  jobs'[b][u] <= MaxJobs + aborts'
    OBVIOUS
  <2>1. CASE b = a /\ u = t
    BY <1>1, <2>1
  <2>2. CASE ~(b = a /\ u = t)
    <3>1. jobs'[b][u] = jobs[b][u] /\ jobs[b][u] \in Nat /\ jobs[b][u] <= MaxJobs + aborts
      BY <1>1, <2>2 DEF TablesTyped
    <3> QED BY <1>2, <3>1
  <2> QED BY <2>1, <2>2
<1> QED BY <1>1, <1>3 DEF TablesTyped

\* The ladder of t starts.
LEMMA BeginKeeps ==
  ASSUME Undisturbed, ProxyInv, NEW a \in Auctions, NEW t \in Users, LadderBegin(a, t)
  PROVE  ProxyInv'
<1>1. PICK r : r = Loaded(a, t)
  OBVIOUS
<1>2. /\ LadderSound(a, r) /\ Wallets(r) = {t} \cup Rivals(a, t)
      /\ ladder' = [ladder EXCEPT ![a] = r] /\ UNCHANGED <<vars, autoBid>>
      /\ \A b \in Auctions : Running(b) => ({t} \cup Rivals(a, t)) \cap Involved(b) = {}
  BY <1>1, LoadedSound DEF LadderBegin, ProxyInv
<1>3. TablesTyped'
  <2> DEFINE n == jobs[a][t] - 1
  <2>1. jobs[a][t] \in Nat /\ jobs[a][t] <= MaxJobs + aborts /\ aborts \in 0 .. MaxAborts
    BY DEF ProxyInv, TablesTyped
  <2>2. n \in Nat /\ n <= MaxJobs + aborts
    BY <2>1, LadderBoundsAssumption DEF LadderBegin
  <2>3. jobs' = [jobs EXCEPT ![a][t] = n]
    BY DEF LadderBegin
  <2>4. DOMAIN ladder' = Auctions /\ TablesTyped
    BY <1>2 DEF ProxyInv, TablesTyped
  <2> HIDE DEF n
  <2>5. aborts' \in 0 .. MaxAborts /\ aborts <= aborts' /\ n <= MaxJobs + aborts'
    BY <2>1, <2>2, LadderBoundsAssumption DEF LadderBegin
  <2>6. autoBid' = autoBid
    BY <1>2
  <2> QED BY <2>2, <2>3, <2>4, <2>5, <2>6, JobsMove
<1> QED BY <1>2, <1>3, OneLadder

\* A ladder that returns at once, and a job that is not queued.
LEMMA JobGoneKeeps ==
  ASSUME Undisturbed, ProxyInv, NEW a \in Auctions, NEW t \in Users,
         LadderReturns(a, t) \/ JobLost(a, t)
  PROVE  ProxyInv'
<1>1. UNCHANGED vars /\ ladder' = ladder /\ autoBid' = autoBid /\ terms' = terms
  BY DEF LadderReturns, JobLost, vars
<1>2. TablesTyped'
  <2> DEFINE n == jobs[a][t] - 1
  <2>1. jobs[a][t] \in Nat /\ jobs[a][t] <= MaxJobs + aborts /\ aborts \in 0 .. MaxAborts
    BY DEF ProxyInv, TablesTyped
  <2>2. jobs[a][t] > 0 /\ jobs' = [jobs EXCEPT ![a][t] = n]
    BY DEF LadderReturns, JobLost
  <2>3. aborts' \in 0 .. MaxAborts /\ aborts <= aborts'
    BY <2>1, LadderBoundsAssumption DEF LadderReturns, JobLost
  <2>4. n \in Nat /\ n <= MaxJobs + aborts'
    BY <2>1, <2>2, <2>3, LadderBoundsAssumption
  <2>5. DOMAIN ladder' = Auctions /\ TablesTyped
    BY <1>1 DEF ProxyInv, TablesTyped
  <2> HIDE DEF n
  <2> QED BY <1>1, <2>2, <2>3, <2>4, <2>5, JobsMove
<1>3. \A b \in Auctions : RowsRanked(b)'
  BY <1>1, RankedStays DEF ProxyInv
<1> QED BY <1>1, <1>2, <1>3, TablesStep

\* The transaction fails and its job is queued again.
LEMMA AbortKeeps ==
  ASSUME Undisturbed, ProxyInv, NEW a \in Auctions, LadderAbort(a)
  PROVE  ProxyInv'
<1>1. PICK r : r = NoLadder
  OBVIOUS
<1>2. /\ ladder' = [ladder EXCEPT ![a] = r] /\ UNCHANGED <<vars, autoBid>>
      /\ r.trigger = NoUser
  BY <1>1 DEF LadderAbort, NoLadder
<1>3. PICK t : t = ladder[a].trigger
  OBVIOUS
<1>4. t \in Users
  BY <1>3 DEF LadderAbort, Running, ProxyInv, SoundAt, LadderSound, PoolSound, Ladder
<1>5. TablesTyped'
  <2> DEFINE n == jobs[a][t] + 1
  <2>1. jobs[a][t] \in Nat /\ jobs[a][t] <= MaxJobs + aborts /\ aborts \in 0 .. MaxAborts
    BY <1>4 DEF ProxyInv, TablesTyped
  <2>2. jobs' = [jobs EXCEPT ![a][t] = n] /\ aborts' = aborts + 1 /\ aborts < MaxAborts
    BY <1>3 DEF LadderAbort
  <2>3. n \in Nat /\ n <= MaxJobs + aborts' /\ aborts' \in 0 .. MaxAborts /\ aborts <= aborts'
    BY <2>1, <2>2, LadderBoundsAssumption
  <2>4. DOMAIN ladder' = Auctions /\ TablesTyped
    BY <1>2 DEF ProxyInv, TablesTyped
  <2> HIDE DEF n
  <2> QED BY <1>2, <1>4, <2>2, <2>3, <2>4, JobsMove
<1> QED BY <1>2, <1>5, OneLadder

-----------------------------------------------------------------------------
(* setAutoBid and cancelAutoBid                                            *)

\* An auto_bids row that is deactivated stays a row.
LEMMA Deactivated ==
  ASSUME NEW x \in AutoBid, x.active => x.limit > 0
  PROVE  LET y == [x EXCEPT !.active = FALSE]
         IN  /\ y \in AutoBid /\ ~y.active /\ y.since = x.since
             /\ y = NoAutoBid <=> x = NoAutoBid
<1> DEFINE y == [x EXCEPT !.active = FALSE]
<1>1. y \in AutoBid /\ y.limit = x.limit /\ y.since = x.since
  BY DEF AutoBid
<1>2. y.active = FALSE /\ ~y.active
  BY DEF AutoBid
<1>3. x.active \in BOOLEAN
  BY DEF AutoBid
<1> HIDE DEF y
<1>4. ASSUME x.active = FALSE PROVE x = y
  BY <1>1, <1>2, <1>4 DEF AutoBid
<1>5. x = NoAutoBid => x.active = FALSE
  BY DEF NoAutoBid
<1>6. y = NoAutoBid => x.active = FALSE
  <2> SUFFICES ASSUME y = NoAutoBid PROVE x.active = FALSE
    OBVIOUS
  <2>1. x.limit = 0
    BY <1>1 DEF NoAutoBid
  <2>2. ~x.active
    BY <2>1
  <2> QED BY <1>3, <2>2
<1> QED BY <1>1, <1>2, <1>4, <1>5, <1>6 DEF y

\* Rows that are deactivated or left stay ranked.
LEMMA RanksKept ==
  ASSUME TypeOK, TablesTyped, terms' = terms, NEW a \in Auctions, RowsRanked(a), NEW s,
         s \in [Users -> AutoBid], autoBid'[a] = s,
         \A u \in Users : s[u] \in {autoBid[a][u], [autoBid[a][u] EXCEPT !.active = FALSE]}
  PROVE  RowsRanked(a)'
<1>1. ASSUME NEW u \in Users
      PROVE  /\ s[u].active => s[u].limit > 0
             /\ s[u].since = autoBid[a][u].since
             /\ s[u] = NoAutoBid <=> autoBid[a][u] = NoAutoBid
  <2>1. autoBid[a][u] \in AutoBid /\ (autoBid[a][u].active => autoBid[a][u].limit > 0)
    BY DEF TablesTyped, RowsRanked
  <2>2. CASE s[u] = autoBid[a][u]
    BY <2>1, <2>2
  <2>3. CASE s[u] = [autoBid[a][u] EXCEPT !.active = FALSE]
    BY <2>1, <2>3, Deactivated
  <2> QED BY <2>2, <2>3
<1>2. Registered(a)' = Registered(a) /\ Seller(a)' = Seller(a) /\ Seller(a) \in Users
  BY <1>1, TermsTyped DEF Registered, Seller
<1>3. \A u \in Registered(a) : u \in Users
  BY DEF Registered
<1> QED BY <1>1, <1>2, <1>3 DEF RowsRanked

\* A bidder takes an auto-bid back.
LEMMA CancelKeeps ==
  ASSUME Undisturbed, ProxyInv, NEW a \in Auctions, NEW u \in Users, CancelAutoBid(a, u)
  PROVE  ProxyInv'
<1>1. /\ UNCHANGED vars /\ ladder' = ladder /\ terms' = terms
      /\ jobs' = jobs /\ aborts' = aborts
  BY DEF CancelAutoBid, vars
<1>2. TypeOK /\ TablesTyped /\ \A b \in Auctions : RowsRanked(b)
  BY DEF ProxyInv, HoldsInv, OutcomeInv, Inv
<1> DEFINE x == autoBid[a][u]
           y == [x EXCEPT !.active = FALSE]
<1>3. x \in AutoBid /\ (x.active => x.limit > 0) /\ y \in AutoBid
  <2>1. x \in AutoBid /\ (x.active => x.limit > 0)
    BY <1>2 DEF TablesTyped, RowsRanked
  <2> QED BY <2>1, Deactivated
<1>4. /\ autoBid'[a][u] = y
      /\ \A v \in Users \ {u} : autoBid'[a][v] = autoBid[a][v]
      /\ \A b \in Auctions \ {a} : autoBid'[b] = autoBid[b]
      /\ autoBid' \in [Auctions -> [Users -> AutoBid]]
  <2>1. autoBid' = [autoBid EXCEPT ![a][u] = y]
    BY DEF CancelAutoBid
  <2> HIDE DEF y
  <2> QED BY <1>2, <1>3, <2>1 DEF TablesTyped
<1>5. TablesTyped'
  BY <1>1, <1>2, <1>4 DEF TablesTyped
<1>6. ASSUME NEW b \in Auctions PROVE RowsRanked(b)'
  <2>1. CASE b # a
    BY <1>1, <1>2, <1>4, <2>1, RankedStays
  <2>2. CASE b = a
    <3>1. autoBid'[a] \in [Users -> AutoBid]
      BY <1>4
    <3>2. \A v \in Users :
            autoBid'[a][v] \in {autoBid[a][v], [autoBid[a][v] EXCEPT !.active = FALSE]}
      BY <1>4
    <3>3. PICK s : s = autoBid'[a]
      OBVIOUS
    <3> QED BY <1>1, <1>2, <2>2, <3>1, <3>2, <3>3, RanksKept
  <2> QED BY <2>1, <2>2
<1> QED BY <1>1, <1>5, <1>6, TablesStep

\* A bidder sets or changes an auto-bid.
LEMMA SetKeeps ==
  ASSUME Undisturbed, ProxyInv, NEW a \in Auctions, NEW u \in Users, NEW limit \in Limits,
         SetAutoBid(a, u, limit)
  PROVE  ProxyInv'
<1> DEFINE R == Registered(a)
           k == Cardinality(R)
           m == IF u \in R THEN autoBid[a][u].since ELSE k + 1
           y == [limit |-> limit, active |-> TRUE, since |-> m]
<1>1. /\ UNCHANGED vars /\ ladder' = ladder /\ terms' = terms /\ aborts' = aborts
      /\ u # Seller(a) /\ jobs[a][u] < MaxJobs
      /\ autoBid' = [autoBid EXCEPT ![a][u] = y]
      /\ jobs' = [jobs EXCEPT ![a][u] = jobs[a][u] + 1]
  BY DEF SetAutoBid, vars
<1>2. TypeOK /\ TablesTyped /\ \A b \in Auctions : RowsRanked(b)
  BY DEF ProxyInv, HoldsInv, OutcomeInv, Inv
<1>3. /\ R \subseteq Users /\ IsFiniteSet(R) /\ k \in Nat
      /\ Cardinality(R \cup {u}) = IF u \in R THEN k ELSE k + 1
  <2>1. R \subseteq Users
    BY DEF Registered
  <2> HIDE DEF R
  <2>2. IsFiniteSet(R)
    BY <2>1, FiniteAssumption, FS_Subset
  <2>3. k \in Nat
    BY <2>2, FS_CardinalityType
  <2> QED BY <2>1, <2>2, <2>3, FS_AddElement
<1>4. /\ \A v \in R : autoBid[a][v].since \in 1 .. k
      /\ \A v, w \in R : autoBid[a][v].since = autoBid[a][w].since => v = w
  BY <1>2 DEF RowsRanked
<1>5. limit \in Nat /\ limit > 0
  BY LimitsAssumption
<1> HIDE DEF R, k
<1>6. m \in Nat /\ (u \notin R => m = k + 1) /\ (u \in R => m = autoBid[a][u].since)
  BY <1>3, <1>4
<1> HIDE DEF m
<1>7. /\ y \in AutoBid /\ y.limit = limit /\ y.active = TRUE /\ y.since = m /\ y # NoAutoBid
  <2>1. y \in AutoBid /\ y.limit = limit /\ y.active = TRUE /\ y.since = m
    BY <1>5, <1>6 DEF AutoBid
  <2>2. NoAutoBid.limit = 0
    BY DEF NoAutoBid
  <2> HIDE DEF y
  <2> QED BY <1>5, <2>1, <2>2
<1> HIDE DEF y
<1>8. /\ autoBid'[a][u] = y
      /\ \A v \in Users \ {u} : autoBid'[a][v] = autoBid[a][v]
      /\ \A b \in Auctions \ {a} : autoBid'[b] = autoBid[b]
      /\ autoBid' \in [Auctions -> [Users -> AutoBid]]
  BY <1>1, <1>2, <1>7 DEF TablesTyped
<1>9. TablesTyped'
  <2>1. jobs' \in [Auctions -> [Users -> Nat]]
    BY <1>1, <1>2 DEF TablesTyped
  <2>2. ASSUME NEW b \in Auctions, NEW v \in Users PROVE jobs'[b][v] <= MaxJobs + aborts'
    <3>1. aborts \in Nat /\ MaxJobs \in Nat /\ jobs[b][v] \in Nat
          /\ jobs[b][v] <= MaxJobs + aborts
      BY <1>2, LadderBoundsAssumption DEF TablesTyped
    <3>2. jobs'[b][v] = IF b = a /\ v = u THEN jobs[a][u] + 1 ELSE jobs[b][v]
      BY <1>1, <1>2 DEF TablesTyped
    <3> QED BY <1>1, <3>1, <3>2
  <2> QED BY <1>1, <1>2, <1>8, <2>1, <2>2 DEF TablesTyped
<1>10. RowsRanked(a)'
  <2>1. Registered(a)' = R \cup {u}
    BY <1>7, <1>8 DEF Registered, R
  <2>2. Seller(a)' = Seller(a) /\ Seller(a) \in Users
    BY <1>1, <1>2, TermsTyped DEF Seller
  <2>3. ASSUME NEW v \in Users PROVE autoBid'[a][v].active => autoBid'[a][v].limit > 0
    <3>1. CASE v = u
      BY <1>5, <1>7, <1>8, <3>1
    <3>2. CASE v # u
      BY <1>2, <1>8, <3>2 DEF RowsRanked
    <3> QED BY <3>1, <3>2
  <2>4. ASSUME NEW v \in R \cup {u}
        PROVE  autoBid'[a][v].since \in 1 .. Cardinality(R \cup {u})
    <3>1. CASE v = u
      BY <1>3, <1>4, <1>6, <1>7, <1>8, <3>1
    <3>2. CASE v # u
      <4>1. autoBid'[a][v].since \in 1 .. k
        BY <1>3, <1>4, <1>8, <3>2
      <4> QED BY <1>3, <4>1
    <3> QED BY <3>1, <3>2
  <2>5. ASSUME NEW v \in R, v # u PROVE autoBid'[a][v].since # m
    <3>1. autoBid'[a][v].since = autoBid[a][v].since /\ autoBid[a][v].since \in 1 .. k
      BY <1>3, <1>4, <1>8, <2>5
    <3> QED BY <1>3, <1>4, <1>6, <2>5, <3>1
  <2>6. ASSUME NEW v \in R \cup {u}, NEW w \in R \cup {u},
               autoBid'[a][v].since = autoBid'[a][w].since
        PROVE  v = w
    <3>1. CASE v = u
      BY <1>7, <1>8, <2>5, <2>6, <3>1
    <3>2. CASE w = u
      BY <1>7, <1>8, <2>5, <2>6, <3>2
    <3>3. CASE v # u /\ w # u
      BY <1>3, <1>4, <1>8, <2>6, <3>3
    <3> QED BY <3>1, <3>2, <3>3
  <2>7. autoBid'[a][Seller(a)] = NoAutoBid
    BY <1>1, <1>2, <1>8, <2>2 DEF RowsRanked
  <2> QED BY <2>1, <2>2, <2>3, <2>4, <2>6, <2>7 DEF RowsRanked
<1>11. ASSUME NEW b \in Auctions PROVE RowsRanked(b)'
  <2>1. CASE b # a
    BY <1>1, <1>2, <1>8, <2>1, RankedStays
  <2> QED BY <1>10, <2>1
<1> QED BY <1>1, <1>9, <1>11, TablesStep

-----------------------------------------------------------------------------
(* The commit                                                              *)

\* What the commit of the ladder on a with state l writes.
Committed(a, l) ==
  /\ bids'[a] = l.rows /\ price'[a] = l.cur
  /\ \A u \in Users : acct'[u] = IF u \in Wallets(l) THEN l.acct[u] ELSE acct[u]
  /\ \A b \in Auctions \ {a} : bids'[b] = bids[b] /\ price'[b] = price[b]
  /\ bids' \in [Auctions -> Seq(Bid)] /\ price' \in [Auctions -> Nat \ {0}]
  /\ acct' \in [Users -> Account]
  /\ UNCHANGED <<terms, status, expired, winner, winnerBid, settlement, starting,
                 drops, endJob, closing, faults, jobs, aborts>>

\* The last row of an auction that a ladder is at is its only WINNING one.
LastWins(a) ==
  /\ status[a] = "ACTIVE" /\ English(a) /\ ~Settled(a)
  /\ bids[a][Len(bids[a])].status = "WINNING"
  /\ Standing(a) = {Len(bids[a])}

LEMMA CommitWrites ==
  ASSUME ProxyInv, NEW a \in Auctions, LadderCommit(a), NEW l, l = ladder[a]
  PROVE  LadderSound(a, l) /\ TypeOK /\ Committed(a, l)
<1>1. TypeOK /\ Running(a)
  BY DEF LadderCommit, ProxyInv, HoldsInv, OutcomeInv, Inv
<1>2. LadderSound(a, l) /\ Wallets(l) = Involved(a)
  BY <1>1, LadderAlone
<1>3. l.rows \in Seq(Bid) /\ l.cur \in Nat \ {0} /\ l.acct \in [Users -> Account]
  BY <1>2 DEF LadderSound, PoolSound, Ladder
<1>4. /\ bids' = [bids EXCEPT ![a] = l.rows] /\ price' = [price EXCEPT ![a] = l.cur]
      /\ acct' = [u \in Users |-> IF u \in Wallets(l) THEN l.acct[u] ELSE acct[u]]
      /\ UNCHANGED <<terms, status, expired, winner, winnerBid, settlement, starting,
                     drops, endJob, closing, faults, jobs, aborts>>
  BY <1>2 DEF LadderCommit
<1>5. bids' \in [Auctions -> Seq(Bid)] /\ price' \in [Auctions -> Nat \ {0}]
  BY <1>1, <1>3, <1>4 DEF TypeOK
<1>6. acct' \in [Users -> Account]
  BY <1>1, <1>3, <1>4 DEF TypeOK
<1>7. /\ bids'[a] = l.rows /\ price'[a] = l.cur
      /\ \A b \in Auctions \ {a} : bids'[b] = bids[b] /\ price'[b] = price[b]
  BY <1>1, <1>4 DEF TypeOK
<1> QED BY <1>1, <1>2, <1>4, <1>5, <1>6, <1>7 DEF Committed

\* The auction before the commit.
LEMMA BeforeCommit ==
  ASSUME HoldsInv, NEW a \in Auctions, NEW l, LadderSound(a, l)
  PROVE  LastWins(a)
<1>1. status[a] = "ACTIVE" /\ English(a) /\ bids[a][Len(bids[a])].status = "WINNING"
  BY DEF LadderSound, SceneKept
<1>2. OutcomeInv /\ status[a] # "ENDED"
  BY <1>1 DEF HoldsInv
<1>3. TypeOK /\ ~Settled(a) /\ Standing(a) = BidsWith(a, "WINNING")
  BY <1>2, OnOfferFacts
<1>4. \A i \in DOMAIN bids[a] : bids[a][i].status = "WINNING" => i = Len(bids[a])
  BY <1>1, <1>2 DEF OutcomeInv, EnglishBidsClimb
<1>5. Len(bids[a]) \in DOMAIN bids[a]
  BY <1>3, LadderRows
<1>6. BidsWith(a, "WINNING") = {Len(bids[a])}
  BY <1>1, <1>4, <1>5 DEF BidsWith
<1> QED BY <1>1, <1>3, <1>6 DEF LastWins

\* The rows after the commit.
LEMMA CommitRows ==
  ASSUME TypeOK, NEW a \in Auctions, NEW l, LadderSound(a, l), Committed(a, l), LastWins(a)
  PROVE  /\ RowsStay /\ Others(a)
         /\ LastWins(a)'
         /\ \A i \in DOMAIN bids'[a] :
              /\ ~bids'[a][i].refunded /\ bids'[a][i].status \in {"WINNING", "OUTBID"}
              /\ bids'[a][i].status = "WINNING" => i = Len(bids'[a])
              /\ bids'[a][i].amount <= price'[a]
              /\ i > 1 => bids'[a][i].amount >= bids'[a][i - 1].amount + terms[a].minIncrement
         /\ bids'[a][Len(bids'[a])].amount = price'[a]
         /\ bids'[a][Len(bids'[a])].bidder = Leader(l) /\ Len(bids'[a]) \in DOMAIN bids'[a]
<1>1. /\ DOMAIN l.rows = 1 .. Len(l.rows) /\ Len(l.rows) \in Nat
      /\ DOMAIN bids[a] = 1 .. Len(bids[a]) /\ Len(bids[a]) \in Nat
      /\ Len(l.rows) = Len(bids[a]) + l.steps /\ l.steps \in Nat
      /\ l.top = Len(l.rows) /\ l.top \in DOMAIN l.rows
      /\ \A i \in DOMAIN l.rows : l.rows[i].bidder \in Users /\ l.rows[i].amount \in Nat \ {0}
  BY LadderRows
<1>2. /\ bids'[a] = l.rows /\ price'[a] = l.cur /\ terms' = terms /\ status' = status
      /\ \A b \in Auctions \ {a} : bids'[b] = bids[b] /\ price'[b] = price[b]
      /\ bids' \in [Auctions -> Seq(Bid)]
      /\ winner' = winner /\ winnerBid' = winnerBid /\ settlement' = settlement
      /\ starting' = starting /\ closing' = closing /\ drops' = drops
  BY DEF Committed
<1>3. /\ \A i \in DOMAIN bids[a] : /\ l.rows[i].bidder = bids[a][i].bidder
                                   /\ l.rows[i].amount = bids[a][i].amount
      /\ \A i \in DOMAIN l.rows :
           /\ l.rows[i].status = IF i = l.top THEN "WINNING" ELSE "OUTBID"
           /\ ~l.rows[i].refunded
           /\ l.rows[i].amount <= l.cur
           /\ i > 1 => l.rows[i].amount >= l.rows[i - 1].amount + terms[a].minIncrement
      /\ l.rows[l.top].amount = l.cur
  BY DEF LadderSound, RowsClimb
<1>4. Others(a)
  BY <1>2 DEF Others, SameAuction
<1>5. DOMAIN bids[a] \subseteq DOMAIN l.rows
  BY <1>1
<1>6. ASSUME NEW i \in DOMAIN l.rows \ DOMAIN bids[a]
      PROVE  l.rows[i].bidder # Seller(a)
  <2>1. i \in Rungs(l)
    BY <1>1, <1>6 DEF Rungs
  <2>2. l.rows[i].amount <= l.limit[l.rows[i].bidder]
    BY <2>1 DEF LadderSound, RungsSound
  <2>3. l.limit[Seller(a)] = 0
    BY DEF LadderSound, SceneKept
  <2>4. l.rows[i].amount \in Nat \ {0}
    BY <1>1, <1>6
  <2> QED BY <2>2, <2>3, <2>4
<1>7. RowsStay
  <2> SUFFICES ASSUME NEW b \in Auctions
               PROVE  /\ DOMAIN bids[b] \subseteq DOMAIN bids'[b]
                      /\ \A i \in DOMAIN bids[b] : /\ bids'[b][i].bidder = bids[b][i].bidder
                                                   /\ bids'[b][i].amount = bids[b][i].amount
                      /\ \A i \in DOMAIN bids'[b] \ DOMAIN bids[b] :
                           bids'[b][i].bidder # Seller(b)
    BY <1>2 DEF RowsStay
  <2>1. CASE b = a
    BY <1>2, <1>3, <1>5, <1>6, <2>1
  <2>2. CASE b # a
    BY <1>2, <2>2
  <2> QED BY <2>1, <2>2
<1>8. \A i \in DOMAIN bids'[a] :
        /\ ~bids'[a][i].refunded /\ bids'[a][i].status \in {"WINNING", "OUTBID"}
        /\ bids'[a][i].status = "WINNING" <=> i = Len(bids'[a])
        /\ bids'[a][i].amount <= price'[a]
        /\ i > 1 => bids'[a][i].amount >= bids'[a][i - 1].amount + terms[a].minIncrement
  <2>1. \A i \in DOMAIN l.rows :
          /\ ~l.rows[i].refunded /\ l.rows[i].status \in {"WINNING", "OUTBID"}
          /\ l.rows[i].status = "WINNING" <=> i = Len(l.rows)
          /\ l.rows[i].amount <= l.cur
          /\ i > 1 => l.rows[i].amount >= l.rows[i - 1].amount + terms[a].minIncrement
    <3>1. l.top = Len(l.rows)
      BY <1>1
    <3> QED BY <1>3, <3>1
  <2>2. bids'[a] = l.rows /\ price'[a] = l.cur
    BY <1>2
  <2> QED BY <2>1, <2>2
<1>9. /\ bids'[a][Len(bids'[a])].amount = price'[a]
      /\ bids'[a][Len(bids'[a])].bidder = Leader(l) /\ Len(bids'[a]) \in DOMAIN bids'[a]
  BY <1>1, <1>2, <1>3 DEF Leader
<1>10. LastWins(a)'
  <2>1. status'[a] = "ACTIVE" /\ English(a)' /\ ~Settled(a)'
    BY <1>2 DEF LastWins, English, Settled
  <2>2. bids'[a][Len(bids'[a])].status = "WINNING"
    BY <1>8, <1>9
  <2>3. Standing(a)' = {Len(bids'[a])}
    BY <1>8, <1>9 DEF Standing, BidsWith, PaidFor
  <2> QED BY <2>1, <2>2, <2>3 DEF LastWins
<1> QED BY <1>4, <1>7, <1>8, <1>9, <1>10

\* The core's invariant of the auction after the commit.
LEMMA CommitSound ==
  ASSUME HoldsInv, NEW a \in Auctions, NEW l, LadderSound(a, l), Committed(a, l)
  PROVE  OutcomeInv'
<1>1. /\ OutcomeInv /\ TypeOK /\ SellerOutside /\ EnglishBidsClimb /\ LastWins(a)
      /\ Inv
  BY BeforeCommit DEF HoldsInv, OutcomeInv, Inv
<1>2. /\ terms' = terms /\ status' = status /\ settlement' = settlement
      /\ winner' = winner /\ winnerBid' = winnerBid
      /\ starting' = starting /\ closing' = closing /\ drops' = drops
  BY DEF Committed
<1>3. /\ RowsStay /\ Others(a) /\ LastWins(a)'
      /\ \A i \in DOMAIN bids'[a] :
           /\ ~bids'[a][i].refunded /\ bids'[a][i].status \in {"WINNING", "OUTBID"}
           /\ bids'[a][i].status = "WINNING" => i = Len(bids'[a])
           /\ bids'[a][i].amount <= price'[a]
           /\ i > 1 => bids'[a][i].amount >= bids'[a][i - 1].amount + terms[a].minIncrement
      /\ bids'[a][Len(bids'[a])].amount = price'[a]
  BY <1>1, CommitRows
<1>4. TypeOK'
  <2>1. \A c \in closing' : c.winner # NoUser => c.bid \in DOMAIN bids'[c.auction]
    <3>1. \A c \in closing : c.auction \in Auctions
      BY <1>1 DEF TypeOK, Closing
    <3> QED BY <1>1, <1>2, <1>3, <3>1 DEF TypeOK, RowsStay
  <2> QED BY <1>1, <2>1 DEF TypeOK, Committed
<1>5. SellerOutside'
  <2>1. ASSUME NEW b \in Auctions, NEW i \in DOMAIN bids'[b]
        PROVE  bids'[b][i].bidder # Seller(b)'
    <3>1. CASE i \in DOMAIN bids[b]
      BY <1>1, <1>2, <1>3, <3>1 DEF RowsStay, SellerOutside, Seller
    <3>2. CASE i \notin DOMAIN bids[b]
      BY <1>2, <1>3, <2>1, <3>2 DEF RowsStay, Seller
    <3> QED BY <3>1, <3>2
  <2>2. \A c \in closing' : c.winner # Seller(c.auction)'
    BY <1>1, <1>2 DEF SellerOutside, Seller
  <2> QED BY <2>1, <2>2 DEF SellerOutside
<1>6. ASSUME NEW b \in Auctions, English(b)'
      PROVE  Climbs(b)'
  <2>1. CASE b = a
    BY <1>2, <1>3, <2>1 DEF Climbs
  <2>2. CASE b # a
    <3>1. Climbs(b)
      BY <1>1, <1>2, <1>6 DEF English, EnglishBidsClimb, Climbs
    <3>2. SameAuction(b)
      BY <1>3, <2>2 DEF Others
    <3> QED BY <3>1, <3>2 DEF Climbs, SameAuction
  <2> QED BY <2>1, <2>2
<1>7. ASSUME NEW b \in Auctions
      PROVE  AuctionSound(b)'
  <2>1. CASE b # a
    <3>1. AuctionSound(b) /\ SameAuction(b)
      BY <1>1, <1>3, <2>1 DEF OutcomeInv, Others
    <3> QED BY <3>1, SameSound
  <2>2. CASE b = a
    <3>1. AuctionSound(a) /\ status[a] = "ACTIVE" /\ English(a) /\ ~Settled(a)
      BY <1>1 DEF OutcomeInv, LastWins
    <3>2. status'[a] = "ACTIVE" /\ English(a)' /\ ~Settled(a)'
      BY <1>3 DEF LastWins
    <3>3. NoOutcomeYet(a)'
      BY <1>2, <1>3, <3>1, <3>2 DEF AuctionSound, NoOutcomeYet
    <3>4. Untouched(a)'
      BY <1>2, <3>1, <3>2 DEF AuctionSound, Untouched, English, Dutch
    <3>5. OnOffer(a)'
      BY <1>3, <3>2 DEF OnOffer, English, Sealed
    <3>6. BestWins(a)' /\ Confirmable(a)'
      BY <3>2 DEF BestWins, Confirmable, WonByBid
    <3>7. AllOrNone(a)'
      <4>1. bids'[a] \in Seq(Bid)
        BY <1>3 DEF RowsStay
      <4>2. DOMAIN bids'[a] = 1 .. Len(bids'[a])
        BY <4>1, LenProperties
      <4>3. \A i \in DOMAIN bids'[a] : bids'[a][i] \in Bid
        BY <4>1, <4>2, ElementOfSeq
      <4>4. \A i \in DOMAIN bids'[a] : bids'[a][i].refunded = FALSE
        BY <1>3, <4>3 DEF Bid
      <4> QED BY <4>4 DEF AllOrNone
    <3>8. ShownIsSettled(a)'
      BY <3>2 DEF ShownIsSettled
    <3>9. \A c \in closing' : c.auction # a
      BY <1>2, <3>1 DEF AuctionSound, NoOutcomeYet
    <3>10. DropsKnown(a)'
      BY <1>1, <1>2, <3>1, NoDropsElsewhere DEF DropsKnown, English, Dutch
    <3> QED BY <2>2, <3>3, <3>4, <3>5, <3>6, <3>7, <3>8, <3>9, <3>10 DEF AuctionSound
  <2> QED BY <2>1, <2>2
<1>8. EnglishBidsClimb'
  BY <1>6 DEF EnglishBidsClimb, Climbs
<1>9. DropsAreDutch'
  BY <1>1, <1>2 DEF Inv, DropsAreDutch, Dutch
<1> QED BY <1>4, <1>5, <1>7, <1>8, <1>9 DEF OutcomeInv, Inv

\* The commit moves the hold from the trigger's bid to the last rung.
LEMMA CommitHolds ==
  ASSUME HoldsInv, TypeOK', NEW a \in Auctions, NEW l, LadderSound(a, l), Committed(a, l)
  PROVE  HoldsKept(a)
<1> DEFINE n == Len(bids[a])
           m == Len(bids'[a])
<1>1. TypeOK /\ LastWins(a)
  BY BeforeCommit DEF HoldsInv, OutcomeInv, Inv
<1>2. /\ RowsStay /\ LastWins(a)'
      /\ \A i \in DOMAIN bids'[a] : bids'[a][i].status \in {"WINNING", "OUTBID"}
      /\ bids'[a][m].amount = price'[a] /\ bids'[a][m].bidder = Leader(l)
      /\ m \in DOMAIN bids'[a]
  BY <1>1, CommitRows
<1>3. /\ price'[a] = l.cur /\ l.cur \in Nat
      /\ \A u \in Users : acct'[u] = IF u \in Wallets(l) THEN l.acct[u] ELSE acct[u]
  BY DEF Committed, LadderSound, PoolSound, Ladder
<1>4. /\ bids[a][n].bidder = l.trigger /\ n \in DOMAIN bids[a] /\ bids[a][n].amount \in Nat
      /\ l.trigger \in Wallets(l) /\ Leader(l) \in Wallets(l)
  <2>1. n \in DOMAIN bids[a] /\ Leader(l) \in Wallets(l)
    BY <1>1, LadderRows
  <2> QED BY <1>1, <2>1, BidRows DEF LadderSound, SceneKept, Wallets
<1>5. Standing(a) = {n} /\ Standing(a)' = {m}
  BY <1>1, <1>2 DEF LastWins
<1> DEFINE given(v) == IF v = l.trigger THEN bids[a][n].amount ELSE 0
           taken(v) == IF v = Leader(l) THEN l.cur ELSE 0
<1>6. ASSUME NEW v \in Users
      PROVE  /\ acct'[v].refunds = acct[v].refunds /\ acct[v].refunds \in Nat
             /\ acct'[v].held = acct[v].held - given(v) + taken(v)
             /\ acct[v].held \in Int /\ given(v) \in Int /\ taken(v) \in Int
  <2>1. acct[v].held \in Int /\ acct[v].refunds \in Nat /\ given(v) \in Int /\ taken(v) \in Int
    BY <1>1, <1>3, <1>4, ColumnTypes DEF TypeOK
  <2>2. CASE v \in Wallets(l)
    <3>1. /\ l.acct[v].refunds = acct[v].refunds
          /\ l.acct[v].held = acct[v].held - given(v) + taken(v)
      BY <2>2 DEF LadderSound, HoldsMoved
    <3> QED BY <1>3, <2>1, <2>2, <3>1
  <2>3. CASE v \notin Wallets(l)
    <3>1. v # l.trigger /\ v # Leader(l)
      BY <1>4, <2>3
    <3> QED BY <1>3, <2>1, <2>3, <3>1
  <2> QED BY <2>2, <2>3, <2>1
<1>7. ASSUME NEW v \in Users
      PROVE  acct'[v].held = acct[v].held + (Backing(a, v)' - Backing(a, v))
  <2>1. Backed(a, v) = {i \in {n} : bids[a][i].bidder = v}
    BY <1>5 DEF Backed
  <2>2. Backed(a, v)' = {i \in {m} : bids'[a][i].bidder = v}
    BY <1>5 DEF Backed
  <2>3. Backed(a, v) \ {n} = Backed(a, v)' \ {m}
    <3> HIDE DEF n, m
    <3> QED BY <2>1, <2>2
  <2>4. \A i \in DOMAIN bids[a] : i \in DOMAIN bids'[a]
        /\ bids'[a][i].amount = bids[a][i].amount
    BY <1>2 DEF RowsStay
  <2>5. Backing(a, v)' - (IF m \in Backed(a, v)' THEN bids'[a][m].amount ELSE 0)
          = Backing(a, v) - (IF n \in Backed(a, v) THEN bids[a][n].amount ELSE 0)
    BY <1>1, <2>3, <2>4, BackingMoves
  <2>6. (IF m \in Backed(a, v)' THEN bids'[a][m].amount ELSE 0) = taken(v)
    <3>1. m \in Backed(a, v)' <=> v = Leader(l)
      BY <1>2, <2>2
    <3> QED BY <1>2, <1>3, <3>1
  <2>7. (IF n \in Backed(a, v) THEN bids[a][n].amount ELSE 0) = given(v)
    <3>1. n \in Backed(a, v) <=> v = l.trigger
      BY <1>4, <2>1
    <3> QED BY <3>1
  <2>8. Backing(a, v) \in Int /\ Backing(a, v)' \in Int
    BY <1>1, BackingFacts, BackingFactsNext DEF BackingTyped
  <2>9. Backing(a, v)' - taken(v) = Backing(a, v) - given(v)
    BY <2>5, <2>6, <2>7
  <2>10. /\ acct'[v].held = acct[v].held - given(v) + taken(v)
         /\ acct[v].held \in Int /\ given(v) \in Int /\ taken(v) \in Int
    BY <1>6
  <2> HIDE DEF given, taken
  <2> QED BY <2>8, <2>9, <2>10
<1>8. HoldsSound(a)'
  <2>1. status'[a] = "ACTIVE" /\ English(a)'
    BY <1>2 DEF LastWins
  <2>2. ~WonByBid(a)' /\ ~Sealed(a)'
    BY <2>1 DEF WonByBid, Sealed, English
  <2>3. LoneWon(a)'
    BY <1>2 DEF LoneWon
  <2> QED BY <2>2, <2>3 DEF HoldsSound, WinnerHolds, SealedRows
<1>9. \A v \in Users : acct'[v].refunds >= acct[v].refunds
  BY <1>6
<1> QED BY <1>7, <1>8, <1>9 DEF HoldsKept

\* A ladder commits.
LEMMA CommitKeeps ==
  ASSUME Undisturbed, ProxyInv, NEW a \in Auctions, LadderCommit(a)
  PROVE  ProxyInv'
<1>1. PICK l : l = ladder[a]
  OBVIOUS
<1>2. /\ HoldsInv /\ HoldsCovered /\ TypeOK /\ TablesTyped /\ LaddersApart
      /\ \A b \in Auctions : RowsRanked(b) /\ SoundAt(b)
      /\ LadderSound(a, l) /\ Committed(a, l) /\ Running(a)
  BY <1>1, CommitWrites DEF ProxyInv, LadderCommit
<1>3. /\ Wallets(l) = Involved(a)
      /\ \A b \in Auctions \ {a} : Running(b) => Wallets(l) \cap Involved(b) = {}
  BY <1>1, <1>2, LadderAlone
<1>4. OutcomeInv' /\ TypeOK'
  BY <1>2, CommitSound DEF OutcomeInv, Inv
<1>5. HoldsInv'
  <2>1. RowsStay /\ Others(a) /\ HoldsKept(a) /\ terms' = terms
    BY <1>2, <1>4, BeforeCommit, CommitRows, CommitHolds DEF Committed
  <2>2. ~Tied(a)
    BY <1>2 DEF Tied, LadderSound, SceneKept
  <2>3. (\A b \in Auctions : HoldsSound(b)') /\ HeldBacked'
    BY <1>2, <1>4, <2>1, <2>2, MovesBacked
  <2> QED BY <1>4, <2>3 DEF HoldsInv
<1>6. HoldsCovered'
  <2>1. \A u \in Users : Covered(l.acct[u])
    BY <1>2 DEF LadderSound, HoldsMoved
  <2>2. \A u \in Users : Covered(acct[u])
    BY <1>2 DEF HoldsCovered, Covered
  <2>3. \A u \in Users : acct'[u] = l.acct[u] \/ acct'[u] = acct[u]
    BY <1>2 DEF Committed
  <2> QED BY <2>1, <2>2, <2>3 DEF HoldsCovered, Covered
<1> DEFINE s == [u \in Users |-> IF u \in l.off THEN [autoBid[a][u] EXCEPT !.active = FALSE]
                                                ELSE autoBid[a][u]]
<1>7. /\ autoBid' = [autoBid EXCEPT ![a] = s] /\ ladder' = [ladder EXCEPT ![a] = NoLadder]
      /\ terms' = terms /\ jobs' = jobs /\ aborts' = aborts
  BY <1>1 DEF LadderCommit
<1>8. /\ s \in [Users -> AutoBid]
      /\ \A u \in Users : s[u] \in {autoBid[a][u], [autoBid[a][u] EXCEPT !.active = FALSE]}
  <2>1. ASSUME NEW u \in Users
        PROVE  autoBid[a][u] \in AutoBid /\ [autoBid[a][u] EXCEPT !.active = FALSE] \in AutoBid
    <3>1. autoBid[a][u] \in AutoBid /\ (autoBid[a][u].active => autoBid[a][u].limit > 0)
      BY <1>2 DEF TablesTyped, RowsRanked
    <3> QED BY <3>1, Deactivated
  <2> QED BY <2>1
<1> HIDE DEF s
<1>9. /\ autoBid'[a] = s /\ \A b \in Auctions \ {a} : autoBid'[b] = autoBid[b]
      /\ autoBid' \in [Auctions -> [Users -> AutoBid]]
      /\ ladder'[a] = NoLadder /\ \A b \in Auctions \ {a} : ladder'[b] = ladder[b]
      /\ DOMAIN ladder' = Auctions
  BY <1>2, <1>7, <1>8 DEF TablesTyped
<1>10. TablesTyped'
  BY <1>2, <1>7, <1>9 DEF TablesTyped
<1>11. ASSUME NEW b \in Auctions PROVE RowsRanked(b)'
  <2>1. CASE b # a
    BY <1>2, <1>7, <1>9, <2>1, RankedStays
  <2>2. CASE b = a
    <3>1. PICK z : z = s
      OBVIOUS
    <3> QED BY <1>2, <1>7, <1>8, <1>9, <2>2, <3>1, RanksKept
  <2> QED BY <2>1, <2>2
<1>12. ~Running(a)' /\ SoundAt(a)'
  <2>1. NoLadder.trigger = NoUser
    BY DEF NoLadder
  <2> QED BY <1>9, <2>1 DEF Running, SoundAt
<1>13. ASSUME NEW b \in Auctions \ {a}
       PROVE  SoundAt(b)' /\ Running(b)' = Running(b) /\ Involved(b)' = Involved(b)
  <2>1. Locked(b)
    <3>1. status'[b] = status[b] /\ bids'[b] = bids[b]
      BY <1>2 DEF Committed
    <3>2. ASSUME Running(b), NEW u \in Involved(b)
          PROVE  acct'[u] = acct[u]
      <4>1. u \notin Wallets(l)
        BY <1>3, <3>2
      <4>2. u \in Users
        <5>1. ladder[b].trigger \in Users
          BY <1>2, <3>2 DEF Running, SoundAt, LadderSound, PoolSound, Ladder
        <5> QED BY <5>1 DEF Involved
      <4> QED BY <1>2, <4>1, <4>2 DEF Committed
    <3> QED BY <3>1, <3>2 DEF Locked
  <2> QED BY <1>2, <1>7, <1>9, <2>1, LockedStays
<1>14. LaddersApart'
  <2>1. ASSUME NEW b \in Auctions, NEW c \in Auctions, b # c, Running(b)', Running(c)'
        PROVE  Involved(b)' \cap Involved(c)' = {}
    <3>1. b # a /\ c # a
      BY <1>12, <2>1
    <3> QED BY <1>2, <1>13, <2>1, <3>1 DEF LaddersApart
  <2> QED BY <2>1 DEF LaddersApart
<1>15. \A b \in Auctions : SoundAt(b)'
  BY <1>12, <1>13
<1> QED BY <1>5, <1>6, <1>10, <1>11, <1>14, <1>15 DEF ProxyInv

-----------------------------------------------------------------------------
(* The theorems                                                            *)

LEMMA ProxyInitInv ==
  ASSUME ProxyInit
  PROVE  ProxyInv
<1>1. HoldsInv
  <2>1. Init
    BY DEF ProxyInit
  <2>2. Inv /\ EnglishBidsClimb
    <3>1. EnglishBidsClimb
      BY <2>1, LenProperties, EmptySeq DEF Init, EnglishBidsClimb
    <3> QED BY <2>1, <3>1, InitInv
  <2>3. \A a \in Auctions : AuctionSound(a)
    BY <2>1, InitSound
  <2> QED BY <2>1, <2>2, <2>3, InitHolds DEF HoldsInv, OutcomeInv
<1>2. HoldsCovered
  BY OpeningAssumption DEF ProxyInit, Init, Opened, HoldsCovered
<1>3. TypeOK
  BY <1>1 DEF HoldsInv, OutcomeInv, Inv
<1>4. NoAutoBid \in AutoBid /\ NoAutoBid.active = FALSE
  BY DEF NoAutoBid, AutoBid
<1>5. /\ autoBid = [a \in Auctions |-> [u \in Users |-> NoAutoBid]]
      /\ jobs = [a \in Auctions |-> [u \in Users |-> 0]]
      /\ ladder = [a \in Auctions |-> NoLadder] /\ aborts = 0
  BY DEF ProxyInit
<1>6. TablesTyped
  BY <1>4, <1>5, LadderBoundsAssumption DEF TablesTyped
<1>7. \A a \in Auctions : RowsRanked(a)
  <2>1. \A a \in Auctions, u \in Users : autoBid[a][u] = NoAutoBid
    BY <1>5
  <2>2. \A a \in Auctions : Registered(a) = {} /\ Seller(a) \in Users
    BY <1>3, <2>1, TermsTyped DEF Registered
  <2> QED BY <1>4, <2>1, <2>2 DEF RowsRanked
<1>8. \A a \in Auctions : ~Running(a) /\ SoundAt(a)
  <2>1. NoLadder.trigger = NoUser
    BY DEF NoLadder
  <2> QED BY <1>5, <2>1 DEF Running, SoundAt
<1> QED BY <1>1, <1>2, <1>6, <1>7, <1>8 DEF ProxyInv, LaddersApart

LEMMA ProxyNextInv ==
  ASSUME Undisturbed, ProxyInv, [ProxyNext]_allVars
  PROVE  ProxyInv'
<1>1. CASE CoreStep
  BY <1>1, CoreStepKeeps
<1>2. ASSUME NEW a \in Auctions, NEW u \in Users, NEW limit \in Limits, SetAutoBid(a, u, limit)
      PROVE  ProxyInv'
  BY <1>2, SetKeeps
<1>3. ASSUME NEW a \in Auctions, NEW u \in Users, CancelAutoBid(a, u)
      PROVE  ProxyInv'
  BY <1>3, CancelKeeps
<1>4. ASSUME NEW a \in Auctions, NEW u \in Users, LadderBegin(a, u)
      PROVE  ProxyInv'
  BY <1>4, BeginKeeps
<1>5. ASSUME NEW a \in Auctions, NEW u \in Users, LadderReturns(a, u) \/ JobLost(a, u)
      PROVE  ProxyInv'
  BY <1>5, JobGoneKeeps
<1>6. ASSUME NEW a \in Auctions, LadderStep(a)
      PROVE  ProxyInv'
  BY <1>6, LoopKeeps, CommitKeeps DEF LadderStep
<1>7. ASSUME NEW a \in Auctions, LadderAbort(a)
      PROVE  ProxyInv'
  BY <1>7, AbortKeeps
<1>8. CASE UNCHANGED allVars
  <2>1. UNCHANGED vars /\ UNCHANGED proxyVars /\ terms' = terms
    BY <1>8 DEF allVars, vars
  <2>2. TablesTyped'
    BY <2>1 DEF proxyVars, ProxyInv, TablesTyped
  <2>3. \A b \in Auctions : RowsRanked(b)'
    BY <2>1, RankedStays DEF proxyVars, ProxyInv
  <2> QED BY <2>1, <2>2, <2>3, TablesStep DEF proxyVars
<1> QED BY <1>1, <1>2, <1>3, <1>4, <1>5, <1>6, <1>7, <1>8 DEF ProxyNext

\* With one server process and no admin overwriting statuses, a ladder's copy of the rows
\* and wallets differs from the database by its own rungs and the hold they move.
THEOREM ProxyInvCorrect ==
  ASSUME Undisturbed
  PROVE  ProxySpec => []ProxyInv
<1>1. Undisturbed
  OBVIOUS
<1>2. ProxyInit => ProxyInv
  BY ProxyInitInv
<1>3. ProxyInv /\ [ProxyNext]_allVars => ProxyInv'
  BY <1>1, ProxyNextInv
<1> QED BY <1>2, <1>3, PTL DEF ProxySpec

\* The ladders' tables are typed, and a proxy that bids or was deactivated was loaded.
THEOREM ProxyTypeCorrect ==
  ASSUME Undisturbed
  PROVE  ProxySpec => []ProxyTypeOK
<1>1. ProxyInv => ProxyTypeOK
  <2> SUFFICES ASSUME ProxyInv PROVE ProxyTypeOK
    OBVIOUS
  <2>1. jobs \in [Auctions -> [Users -> 0 .. MaxJobs + MaxAborts]]
    <3>1. ASSUME NEW a \in Auctions, NEW u \in Users
          PROVE  jobs[a][u] \in 0 .. MaxJobs + MaxAborts
      BY LadderBoundsAssumption DEF ProxyInv, TablesTyped
    <3> QED BY <3>1 DEF ProxyInv, TablesTyped
  <2>2. ASSUME NEW a \in Auctions, Running(a), NEW l, l = ladder[a]
        PROVE  /\ l.trigger \in Users
               /\ l.limit \in [Users -> Nat]
               /\ l.pool \cup l.off \subseteq {u \in Users : l.limit[u] > 0}
               /\ l.left \in Nat /\ l.steps \in Nat
               /\ l.acct \in [Users -> Account]
               /\ l.top = Len(l.rows)
    <3>1. LadderSound(a, l)
      BY <2>2, LadderAlone
    <3> QED BY <3>1 DEF LadderSound, PoolSound, Ladder, RowsClimb
  <2> QED BY <2>1, <2>2 DEF ProxyTypeOK, ProxyInv, TablesTyped
<1> QED BY <1>1, ProxyInvCorrect, PTL

\* A commit explains and covers the wallets that it writes, and shows no sale.
LEMMA CommitMoney ==
  ASSUME TypeOK, NEW a \in Auctions, NEW l, LadderSound(a, l), Committed(a, l)
  PROVE  SafeForMoney /\ terms' = terms
<1>1. /\ acct' \in [Users -> Account] /\ settlement' = settlement /\ terms' = terms
      /\ \A v \in Users : acct'[v] = IF v \in Wallets(l) THEN l.acct[v] ELSE acct[v]
  BY DEF Committed
<1>2. /\ \A v \in Users : Covered(l.acct[v])
      /\ KeepsSales(Wallets(l), acct, l.acct)
      /\ \A v \in Wallets(l) : Explained(acct[v]) => Explained(l.acct[v])
  BY DEF LadderSound, HoldsMoved
<1>3. KeepsBooks(Users, acct, acct')
  BY <1>1, <1>2 DEF KeepsBooks
<1>4. KeepsCovered(Users, acct, acct')
  BY <1>1, <1>2 DEF KeepsCovered
<1>5. KeepsSales(Users, acct, acct')
  BY <1>1, <1>2 DEF KeepsSales
<1> QED BY <1>1, <1>3, <1>4, <1>5 DEF SafeForMoney, NoSaleStep

\* To the core, a step is one of its own, or a stutter, or the commit of a ladder.
LEMMA ProxySteps ==
  ASSUME ProxyInv, [ProxyNext]_allVars
  PROVE  \/ [Next]_vars
         \/ \E a \in Auctions, l \in Ladder :
              l = ladder[a] /\ Running(a) /\ LadderSound(a, l) /\ Committed(a, l)
<1>1. CASE CoreStep \/ UNCHANGED allVars
  BY <1>1 DEF CoreStep, allVars
<1>2. ASSUME NEW a \in Auctions, NEW u \in Users,
             \/ \E limit \in Limits : SetAutoBid(a, u, limit)
             \/ CancelAutoBid(a, u) \/ LadderBegin(a, u) \/ LadderReturns(a, u)
             \/ JobLost(a, u)
      PROVE  UNCHANGED vars
  BY <1>2 DEF SetAutoBid, CancelAutoBid, LadderBegin, LadderReturns, JobLost
<1>3. ASSUME NEW a \in Auctions, LadderSkip(a) \/ LadderRung(a) \/ LadderAbort(a)
      PROVE  UNCHANGED vars
  BY <1>3 DEF LadderSkip, LadderRung, LadderAbort
<1>4. ASSUME NEW a \in Auctions, LadderCommit(a)
      PROVE  \E l \in Ladder :
               l = ladder[a] /\ Running(a) /\ LadderSound(a, l) /\ Committed(a, l)
  <2>1. PICK l : l = ladder[a]
    OBVIOUS
  <2>2. Running(a) /\ LadderSound(a, l) /\ Committed(a, l)
    BY <1>4, <2>1, CommitWrites DEF LadderCommit
  <2> QED BY <2>1, <2>2 DEF LadderSound, PoolSound
<1> QED BY <1>1, <1>2, <1>3, <1>4 DEF ProxyNext, LadderStep

\* Ladders are safe for the money.
LEMMA ProxyMoney ==
  ASSUME ProxyInv, [ProxyNext]_allVars
  PROVE  SafeForMoney /\ terms' = terms
<1>1. Inv /\ TypeOK /\ SellerOutside
  BY DEF ProxyInv, HoldsInv, OutcomeInv, Inv
<1>2. CASE [Next]_vars
  BY <1>1, <1>2, NextMoney, TermsFixed
<1>3. ASSUME NEW a \in Auctions, NEW l, LadderSound(a, l), Committed(a, l)
      PROVE  SafeForMoney /\ terms' = terms
  BY <1>1, <1>3, CommitMoney
<1> QED BY <1>2, <1>3, ProxySteps

\* Ladders keep the promises of the core: with them too, wallets are explained and their
\* total is kept, every hold is the sum of the standing bids and covered, and English
\* bids climb to the one WINNING bid.
THEOREM LaddersKeepPromises ==
  ASSUME Undisturbed
  PROVE  ProxySpec => []LaddersKeepTheBooks
<1> DEFINE Balanced == SumFunctionOnSet(Net, Users) = 0
           Booked == LedgerExplainsWallets /\ Balanced
<1>1. ProxyInit => Booked
  <2>1. ProxyInit => Init
    BY DEF ProxyInit
  <2>2. Init => LedgerExplainsWallets
    BY OpeningAssumption DEF Init, Opened, LedgerExplainsWallets
  <2> QED BY <2>1, <2>2, InitNet
<1>2. ProxyInv /\ Booked /\ [ProxyNext]_allVars => Booked'
  BY ProxyMoney, BooksStay, SaleNet DEF ProxyInv, HoldsInv, OutcomeInv
<1>3. ProxyInv /\ Booked => LaddersKeepTheBooks
  BY BackedMeans, BalancedMoney DEF ProxyInv, HoldsInv, OutcomeInv, Inv, LaddersKeepTheBooks
<1> QED BY <1>1, <1>2, <1>3, ProxyInvCorrect, PTL DEF ProxySpec

\* No ladder that is still at work when its auction ends changes what the auction shows:
\* the worker reads the status under the lock that endAuction takes.  A Dutch auction has
\* no ladders, and its price may still take the drop that was under way.
THEOREM LaddersLeaveOutcomes ==
  ASSUME Undisturbed
  PROVE  ProxySpec => OutcomeFinal
<1> DEFINE Shown(a) == /\ status'[a] = "ENDED"
                       /\ winner'[a] = winner[a]
                       /\ winnerBid'[a] = winnerBid[a]
                       /\ \/ price'[a] = price[a]
                          \/ Dutch(a) /\ [auction |-> a, price |-> price'[a]] \in drops
<1>1. ASSUME ProxyInv, [ProxyNext]_allVars, NEW a \in Auctions, status[a] = "ENDED"
      PROVE  Shown(a)
  <2>1. OutcomeInv
    BY <1>1 DEF ProxyInv, HoldsInv
  <2>2. CASE [Next]_vars
    BY <1>1, <2>1, <2>2, EndedStays
  <2>3. ASSUME NEW b \in Auctions, NEW l, LadderSound(b, l), Committed(b, l)
        PROVE  Shown(a)
    <3>1. a # b
      BY <1>1, <2>3 DEF LadderSound, SceneKept
    <3> QED BY <1>1, <2>3, <3>1 DEF Committed
  <2> QED BY <1>1, <2>2, <2>3, ProxySteps
<1>2. ProxyInv /\ [ProxyNext]_allVars =>
        [\A a \in Auctions : status[a] = "ENDED" => Shown(a)]_vars
  BY <1>1
<1> QED BY <1>2, ProxyInvCorrect, PTL DEF ProxySpec, OutcomeFinal

\* Ladders do not get in the way of the end of an auction: with them too, an auction that
\* has not ended has its job, and an ended one the runs for what is left to do.
THEOREM LaddersForgetNothing ==
  ASSUME Undisturbed, OnlyStalls
  PROVE  ProxySpec => []NothingForgotten
<1>1. ProxyInit => NothingForgotten
  BY DEF ProxyInit, Init, NothingForgotten, Owed, Withheld
<1>2. ASSUME ProxyInv, ProxyInv', [ProxyNext]_allVars, NothingForgotten
      PROVE  NothingForgotten'
  <2>1. HoldsInv /\ HoldsInv' /\ TypeOK
    BY <1>2 DEF ProxyInv, HoldsInv, OutcomeInv, Inv
  <2>2. CASE [Next]_vars
    BY <1>2, <2>1, <2>2, NextWork
  <2>3. ASSUME NEW b \in Auctions, NEW l, LadderSound(b, l), Committed(b, l),
               NEW a \in Auctions
        PROVE  WorkedOn(a)'
    <3>1. UNCHANGED <<terms, status, winner, settlement, endJob, closing>>
      BY <2>3 DEF Committed
    <3>2. status[a] # "ENDED" \/ bids'[a] = bids[a]
      BY <2>1, <2>3 DEF LadderSound, SceneKept, Committed, TypeOK
    <3>3. /\ RunsOn(a)' = RunsOn(a) /\ Owed(a)' = Owed(a)
          /\ Withheld(a)' => Withheld(a)
      BY <3>1, <3>2 DEF RunsOn, Owed, Withheld, Settled, Sealed
    <3> QED BY <1>2, <3>1, <3>3 DEF NothingForgotten, WorkedOn
  <2>4. ASSUME NEW b \in Auctions, NEW l, LadderSound(b, l), Committed(b, l)
        PROVE  NothingForgotten'
    BY <2>3, <2>4 DEF NothingForgotten, WorkedOn
  <2> QED BY <1>2, <2>2, <2>4, ProxySteps
<1>3. ProxyInv /\ ProxyInv' /\ [ProxyNext]_allVars /\ NothingForgotten => NothingForgotten'
  BY <1>2
<1> QED BY <1>1, <1>3, ProxyInvCorrect, PTL DEF ProxySpec

\* With ladders too, an auction that ended by its bids was won by the best of them, a rung
\* or one made by hand; a Dutch auction must have been listed at its reserve or above.
THEOREM BestBidWinsWithLadders ==
  ASSUME Undisturbed, DutchAboveReserve
  PROVE  ProxySpec => []BestBidWins
<1>1. ProxyInv => BestBidWins
  BY DEF ProxyInv, HoldsInv, OutcomeInv, AuctionSound, BestWins, WonByBid, SoldDirectly,
         BestBidWins
<1> QED BY <1>1, ProxyInvCorrect, PTL

\* With ladders too, whoever settled an auction is the winner that it shows and paid the
\* price that it shows (but for the drop under way in a Dutch auction, and direct sales of
\* one), and a winner who has not paid yet can confirm it.
THEOREM PaidAsShownWithLadders ==
  ASSUME Undisturbed
  PROVE  ProxySpec => []PaidAsShown
<1>1. ProxyInv => PaidAsShown
  BY KnownPayment DEF ProxyInv
<1> QED BY <1>1, ProxyInvCorrect, PTL

\* No ladder bids for a user beyond the limit that the user had registered.
THEOREM RungsStayWithinLimits ==
  ASSUME Undisturbed
  PROVE  ProxySpec => []RungsWithinLimits
<1>1. ProxyInv => RungsWithinLimits
  <2> SUFFICES ASSUME ProxyInv, NEW a \in Auctions, Running(a), NEW l, l = ladder[a]
               PROVE  \A i \in Rungs(l) : l.rows[i].amount <= l.limit[l.rows[i].bidder]
    BY DEF RungsWithinLimits
  <2> QED BY LadderAlone DEF LadderSound, RungsSound
<1> QED BY <1>1, ProxyInvCorrect, PTL

\* Every rung of a ladder is in its log, one increment above the bid before it, and a
\* leader raises its own bid only when nobody else could.
THEOREM LogIsFaithful ==
  ASSUME Undisturbed
  PROVE  ProxySpec => []LogFidelity
<1>1. ProxyInv => LogFidelity
  <2> SUFFICES ASSUME ProxyInv, NEW a \in Auctions, Running(a), NEW l, l = ladder[a]
               PROVE  \A i \in Rungs(l) :
                        /\ l.rows[i].amount = l.rows[i - 1].amount + terms[a].minIncrement
                        /\ l.rows[i].bidder = l.rows[i - 1].bidder =>
                             \A v \in Users \ {l.rows[i].bidder} :
                               l.limit[v] >= l.rows[i].amount => v \in l.off
    BY DEF LogFidelity
  <2> QED BY LadderAlone DEF LadderSound, RungsSound
<1> QED BY <1>1, ProxyInvCorrect, PTL
-----------------------------------------------------------------------------
(* The second price: what a ladder aims at                                 *)

\* The price at which the ladder l found the auction, and whose auto-bids it loaded.
PriceBefore(a, l) == l.cur - l.steps * terms[a].minIncrement
LoadedBy(l)       == {u \in Users : l.limit[u] > 0}

\* The ceiling was computed from the highest limit, that of first, and the next one.
AimsAt(a, l, first, runnerUp) ==
  /\ first \in LoadedBy(l)
  /\ \A u \in LoadedBy(l) : l.limit[u] <= l.limit[first]
  /\ l.ceiling = Ceiling(l.limit[first], runnerUp, terms[a].minIncrement)
  /\ IF LoadedBy(l) = {first} THEN runnerUp = PriceBefore(a, l)
     ELSE \E second \in LoadedBy(l) \ {first} :
            /\ runnerUp = l.limit[second]
            /\ \A u \in LoadedBy(l) \ {first} : l.limit[u] <= l.limit[second]

\* The price stays below the ceiling, and the loop has the steps left that lead there.
AimSound(a, l) ==
  /\ \A u \in Users : l.limit[u] \in Limits \cup {0}
  /\ PriceBefore(a, l) \in Nat
  /\ \E first \in Users, runnerUp \in Nat : AimsAt(a, l, first, runnerUp)
  /\ l.steps > 0 => l.cur <= l.ceiling
  /\ l.off = {} =>
       l.left + l.steps = StepBound(l.ceiling, PriceBefore(a, l), terms[a].minIncrement)

AimAt(a) == \A l \in {ladder[a]} : l.trigger # NoUser => AimSound(a, l)

AimInv ==
  /\ terms \in Catalogs
  /\ \A a \in Auctions, u \in Users : autoBid[a][u].limit \in Limits \cup {0}
  /\ \A a \in Auctions : AimAt(a)

\* The loop's own cap, 100000, is more than any limit has increments.
LoopSuffices ==
  \A c \in Catalogs, a \in Auctions, limit \in Limits :
    c[a].type = "ENGLISH" => limit <= MaxLadder * c[a].minIncrement

-----------------------------------------------------------------------------
(* Increments                                                              *)

\* Multiples of an increment are ordered as their factors.
LEMMA Multiples ==
  ASSUME NEW m \in Int, NEW n \in Int, NEW inc \in Nat \ {0}
  PROVE  /\ m * inc \in Int
         /\ (m + 1) * inc = m * inc + inc
         /\ (m + n) * inc = m * inc + n * inc
         /\ m <= n <=> m * inc <= n * inc
  OBVIOUS

\* The quotient is the greatest multiple within n.
LEMMA Quotients ==
  ASSUME NEW n \in Int, NEW inc \in Nat \ {0}
  PROVE  n \div inc \in Int /\ \A m \in Int : m * inc <= n <=> m <= n \div inc
  OBVIOUS

\* What is a multiple is the quotient's.
LEMMA OnGrid ==
  ASSUME NEW n \in Int, NEW inc \in Nat \ {0}, n % inc = 0
  PROVE  n = (n \div inc) * inc
  OBVIOUS

\* The ceiling is reached in as many increments as the first can pay, one more than the
\* runner-up can at the most.
LEMMA CeilingReached ==
  ASSUME NEW highest \in Nat, NEW runnerUp \in Nat, NEW inc \in Nat \ {0}
  PROVE  /\ Ceiling(highest, runnerUp, inc) \in Int
         /\ Ceiling(highest, runnerUp, inc) <= highest
         /\ \A m \in Int :
              m * inc <= Ceiling(highest, runnerUp, inc) <=>
                m <= runnerUp \div inc + 1 /\ m <= highest \div inc
<1> DEFINE q == runnerUp \div inc
<1>1. q \in Int
  OBVIOUS
<1> HIDE DEF q
<1>2. (q + 1) * inc = q * inc + inc /\ (q + 1) * inc \in Int
  BY <1>1, Multiples
<1>3. Ceiling(highest, runnerUp, inc) =
        IF (q + 1) * inc < highest THEN (q + 1) * inc ELSE highest
  BY <1>2 DEF Ceiling, q
<1>4. ASSUME NEW m \in Int
      PROVE  m * inc <= Ceiling(highest, runnerUp, inc) <=> m <= q + 1 /\ m <= highest \div inc
  <2>1. m * inc <= highest <=> m <= highest \div inc
    BY Quotients
  <2>2. m * inc <= (q + 1) * inc <=> m <= q + 1
    BY <1>1, Multiples
  <2>3. m * inc \in Int
    OBVIOUS
  <2> QED BY <1>2, <1>3, <2>1, <2>2, <2>3
<1> QED BY <1>2, <1>3, <1>4 DEF q

\* The loop has the steps for every multiple up to the ceiling, within its cap.
LEMMA StepsSuffice ==
  ASSUME NEW ceiling \in Int, NEW s \in Nat, NEW inc \in Nat \ {0},
         NEW m \in Nat, s < m, m <= MaxLadder, m * inc <= ceiling
  PROVE  m - s <= StepBound(ceiling, s * inc, inc)
<1> DEFINE x == ceiling - s * inc + inc - 1
           q == x \div inc
<1>1. /\ s * inc \in Int /\ m * inc \in Int /\ (m - s) \in Int
      /\ (m - s) * inc + s * inc = m * inc
      /\ (s + 1) * inc = s * inc + inc /\ (s + 1) * inc <= m * inc
  <2>1. ((m - s) + s) * inc = (m - s) * inc + s * inc /\ (m - s) + s = m
    BY Multiples
  <2>2. s + 1 \in Int /\ s + 1 <= m
    OBVIOUS
  <2>3. (s + 1) * inc <= m * inc
    BY <2>2, Multiples
  <2> QED BY <2>1, <2>3, Multiples
<1>2. (m - s) * inc <= x /\ x \in Int /\ (m - s) * inc \in Int
  BY <1>1
<1> HIDE DEF x
<1>3. m - s <= q /\ q \in Int
  BY <1>2, Quotients
<1> HIDE DEF q
<1>4. ~(ceiling <= s * inc)
  BY <1>1
<1>5. StepBound(ceiling, s * inc, inc) = IF q < MaxLadder THEN q ELSE MaxLadder
  BY <1>4 DEF StepBound, q, x
<1> QED BY <1>3, <1>5, LadderBoundsAssumption

-----------------------------------------------------------------------------
(* The aim is kept                                                         *)

\* The row that the query puts first has the highest limit.
LEMMA ForemostHighest ==
  ASSUME NEW limit \in [Users -> Nat], NEW since \in [Users -> Nat],
         NEW S \in SUBSET Users, S # {},
         \A u, v \in S : since[u] = since[v] => u = v
  PROVE  /\ Foremost(limit, since, S) \in S
         /\ \A v \in S : limit[v] <= limit[Foremost(limit, since, S)]
<1> DEFINE First(u) == \A v \in S \ {u} :
                         limit[u] > limit[v] \/ (limit[u] = limit[v] /\ since[u] < since[v])
<1>1. \E u \in S : First(u)
  BY ForemostExists DEF Precedes
<1>2. Foremost(limit, since, S) = CHOOSE u \in S : First(u)
  BY DEF Foremost
<1>3. PICK f : f = Foremost(limit, since, S)
  OBVIOUS
<1>4. f \in S /\ First(f)
  <2> HIDE DEF First
  <2> QED BY <1>1, <1>2, <1>3
<1>5. \A v \in S : limit[v] <= limit[f]
  BY <1>4
<1> QED BY <1>3, <1>4, <1>5

\* The reads of a ladder.
LEMMA LoadedAims ==
  ASSUME ProxyInv, AimInv, NEW a \in Auctions, NEW t \in Users, Eligible(a, t)
  PROVE  AimSound(a, Loaded(a, t))
<1> DEFINE pool     == Rivals(a, t)
           inc      == terms[a].minIncrement
           limit    == [u \in Users |-> IF u \in pool THEN autoBid[a][u].limit ELSE 0]
           since    == [u \in Users |-> autoBid[a][u].since]
           first    == Foremost(limit, since, pool)
           second   == Foremost(limit, since, pool \ {first})
           runnerUp == IF pool = {first} THEN price[a] ELSE limit[second]
           ceiling  == Ceiling(limit[first], runnerUp, inc)
           left     == StepBound(ceiling, price[a], inc)
           l        == Loaded(a, t)
<1>1. /\ l.limit = limit /\ l.since = since /\ l.pool = pool /\ l.off = {}
      /\ l.ceiling = ceiling /\ l.left = left /\ l.steps = 0 /\ l.cur = price[a]
  BY DEF Loaded
<1>2. LadderSound(a, l) /\ Wallets(l) = {t} \cup pool /\ TypeOK
  BY LoadedSound, EligibleFacts DEF ProxyInv
<1>3. l \in Ladder /\ PoolSound(l)
  BY <1>2 DEF LadderSound, PoolSound
<1>4. \A u \in Users : autoBid[a][u].limit \in Limits \cup {0}
  BY DEF AimInv
<1>5. \A u \in Users : limit[u] \in Limits \cup {0}
  BY <1>4
<1>6. pool \in SUBSET Users /\ pool # {}
  BY DEF Rivals, Eligible
<1>7. \A u \in Users \ pool : limit[u] = 0
  OBVIOUS
<1> HIDE DEF l, pool, limit, since
<1>8. limit \in [Users -> Nat] /\ since \in [Users -> Nat]
  BY <1>1, <1>3 DEF Ladder
<1>9. /\ \A u \in pool : limit[u] > 0
      /\ \A u, v \in pool : since[u] = since[v] => u = v
  BY <1>1, <1>3 DEF PoolSound
<1>10. LoadedBy(l) = pool
  BY <1>1, <1>6, <1>7, <1>8, <1>9 DEF LoadedBy
<1>11. first \in pool /\ \A u \in pool : limit[u] <= limit[first]
  BY <1>6, <1>8, <1>9, ForemostHighest
<1>12. price[a] \in Nat /\ inc \in Nat \ {0}
  BY <1>2, TermsTyped DEF TypeOK
<1> HIDE DEF first
<1>13. ASSUME pool # {first}
       PROVE  second \in pool \ {first} /\ \A u \in pool \ {first} : limit[u] <= limit[second]
  <2>1. pool \ {first} \in SUBSET Users /\ pool \ {first} # {}
    BY <1>6, <1>11, <1>13
  <2>2. \A u, v \in pool \ {first} : since[u] = since[v] => u = v
    BY <1>9
  <2> QED BY <1>8, <2>1, <2>2, ForemostHighest
<1> HIDE DEF second
<1>14. runnerUp \in Nat
  BY <1>6, <1>8, <1>12, <1>13
<1>15. PriceBefore(a, l) = price[a]
  <2>1. 0 * inc = 0 /\ price[a] - 0 = price[a]
    BY <1>12
  <2> QED BY <1>1, <2>1 DEF PriceBefore
<1>16. AimsAt(a, l, first, runnerUp)
  <2>1. IF LoadedBy(l) = {first} THEN runnerUp = PriceBefore(a, l)
        ELSE \E v \in LoadedBy(l) \ {first} :
               /\ runnerUp = l.limit[v]
               /\ \A u \in LoadedBy(l) \ {first} : l.limit[u] <= l.limit[v]
    BY <1>1, <1>10, <1>13, <1>15
  <2> HIDE DEF runnerUp
  <2> QED BY <1>1, <1>10, <1>11, <2>1 DEF AimsAt
<1>17. first \in Users
  BY <1>6, <1>11
<1> HIDE DEF runnerUp, inc
<1>18. left \in Nat
  <2>1. limit[first] \in Nat
    BY <1>8, <1>17
  <2>2. ceiling \in Int
    BY <1>12, <1>14, <2>1, CeilingReached
  <2> HIDE DEF ceiling
  <2> QED BY <1>12, <2>2, StepBoundTyped
<1> HIDE DEF ceiling, left
<1>19. l.left + l.steps = StepBound(l.ceiling, PriceBefore(a, l), terms[a].minIncrement)
  BY <1>1, <1>15, <1>18 DEF left, inc
<1>20. ~(l.steps > 0)
  BY <1>1
<1>21. l = Loaded(a, t)
  BY DEF l
<1>22. \A u \in Users : l.limit[u] \in Limits \cup {0}
  BY <1>1, <1>5
<1>23. AimSound(a, l)
  BY <1>12, <1>14, <1>15, <1>16, <1>17, <1>19, <1>20, <1>22 DEF AimSound
<1> QED BY <1>21, <1>23

\* An iteration leaves the aim alone.
LEMMA AimStays ==
  ASSUME NEW a \in Auctions, NEW l, NEW r, AimSound(a, l),
         r.limit = l.limit, r.ceiling = l.ceiling, PriceBefore(a, r) = PriceBefore(a, l),
         r.steps > 0 => r.cur <= r.ceiling,
         r.off = {} => l.off = {} /\ r.left + r.steps = l.left + l.steps
  PROVE  AimSound(a, r)
<1>1. \A first, runnerUp : AimsAt(a, l, first, runnerUp) => AimsAt(a, r, first, runnerUp)
  BY DEF AimsAt, LoadedBy
<1> QED BY <1>1 DEF AimSound

LEMMA SkipAims ==
  ASSUME NEW a \in Auctions, NEW l \in Ladder, AimSound(a, l)
  PROVE  AimSound(a, AfterSkip(a, l))
<1> DEFINE r == AfterSkip(a, l)
<1>1. /\ r.limit = l.limit /\ r.ceiling = l.ceiling /\ r.cur = l.cur /\ r.steps = l.steps
      /\ r.off = l.off \cup {Challenger(a, l)}
  BY DEF AfterSkip, Ladder
<1> HIDE DEF r
<1>2. r.off # {} /\ PriceBefore(a, r) = PriceBefore(a, l)
  BY <1>1 DEF PriceBefore
<1>3. r.steps > 0 => r.cur <= r.ceiling
  BY <1>1 DEF AimSound
<1> QED BY <1>1, <1>2, <1>3, AimStays DEF r

LEMMA RungAims ==
  ASSUME TypeOK, NEW a \in Auctions, NEW l, LadderSound(a, l), AimSound(a, l), Going(a, l)
  PROVE  AimSound(a, AfterRung(a, l))
<1> DEFINE r   == AfterRung(a, l)
           inc == terms[a].minIncrement
<1>1. l \in Ladder /\ l.top = Len(l.rows)
  BY DEF LadderSound, PoolSound, RowsClimb
<1>2. /\ r.limit = l.limit /\ r.off = l.off /\ r.ceiling = l.ceiling
      /\ r.left = l.left - 1 /\ r.steps = l.steps + 1 /\ r.cur = NextBid(a, l)
  BY <1>1, RungFields
<1>3. /\ inc \in Nat \ {0} /\ l.cur \in Int /\ l.steps \in Int /\ l.left \in Int
      /\ NextBid(a, l) = l.cur + inc
  BY <1>1, NextBidTyped DEF Ladder
<1> HIDE DEF r, inc
<1>4. (l.steps + 1) * inc = l.steps * inc + inc /\ l.steps * inc \in Int
  BY <1>3, Multiples
<1>5. PriceBefore(a, r) = PriceBefore(a, l)
  BY <1>2, <1>3, <1>4 DEF PriceBefore, inc
<1>6. r.cur <= r.ceiling
  BY <1>2 DEF Going
<1>7. r.left + r.steps = l.left + l.steps
  BY <1>2, <1>3
<1> QED BY <1>2, <1>5, <1>6, <1>7, AimStays DEF r

\* What ladders aim at stays while nobody else writes it.
LEMMA AimSame ==
  ASSUME NEW a \in Auctions, AimAt(a), terms' = terms, ladder'[a] = ladder[a]
  PROVE  AimAt(a)'
<1>1. ASSUME NEW l, AimSound(a, l)
      PROVE  AimSound(a, l)'
  BY <1>1 DEF AimSound, AimsAt, PriceBefore, LoadedBy
<1> QED BY <1>1 DEF AimAt

\* The ladder of one auction becomes r.
LEMMA AimMoves ==
  ASSUME ProxyInv, AimInv, NEW a \in Auctions, NEW r, ladder' = [ladder EXCEPT ![a] = r],
         terms' = terms, r.trigger # NoUser => AimSound(a, r)
  PROVE  \A b \in Auctions : AimAt(b)'
<1>1. ladder'[a] = r /\ \A b \in Auctions \ {a} : ladder'[b] = ladder[b]
  BY DEF ProxyInv, TablesTyped
<1>2. \A b \in Auctions \ {a} : AimAt(b)'
  BY <1>1, AimSame DEF AimInv
<1>3. AimSound(a, r) => AimSound(a, r)'
  BY DEF AimSound, AimsAt, PriceBefore, LoadedBy
<1>4. AimAt(a)'
  BY <1>1, <1>3 DEF AimAt
<1> QED BY <1>2, <1>4

LEMMA AimNext ==
  ASSUME Undisturbed, ProxyInv, AimInv, [ProxyNext]_allVars
  PROVE  AimInv'
<1>1. TypeOK /\ HoldsInv /\ HoldsCovered
  BY DEF ProxyInv, HoldsInv, OutcomeInv, Inv
<1>2. ASSUME terms' = terms, autoBid' = autoBid, \A a \in Auctions : AimAt(a)'
      PROVE  AimInv'
  BY <1>2 DEF AimInv
<1>3. CASE CoreStep \/ UNCHANGED allVars
  <2>1. ladder' = ladder /\ autoBid' = autoBid /\ [Next]_vars
    BY <1>3 DEF CoreStep, allVars, proxyVars
  <2>2. terms' = terms
    BY <1>1, <2>1, CoreKept
  <2> QED BY <1>2, <2>1, <2>2, AimSame DEF AimInv
<1>4. ASSUME NEW a \in Auctions, NEW u \in Users,
             (\E limit \in Limits : SetAutoBid(a, u, limit)) \/ CancelAutoBid(a, u)
      PROVE  AimInv'
  <2>1. ladder' = ladder /\ terms' = terms
    BY <1>4 DEF SetAutoBid, CancelAutoBid, vars
  <2>2. \A b \in Auctions : AimAt(b)'
    BY <2>1, AimSame DEF AimInv
  <2>3. autoBid \in [Auctions -> [Users -> AutoBid]]
    BY DEF ProxyInv, TablesTyped
  <2>4. PICK row : /\ autoBid' = [autoBid EXCEPT ![a][u] = row]
                   /\ row.limit \in Limits \cup {0}
    <3>1. ASSUME NEW limit \in Limits, SetAutoBid(a, u, limit)
          PROVE  \E row : /\ autoBid' = [autoBid EXCEPT ![a][u] = row]
                          /\ row.limit \in Limits \cup {0}
      <4> DEFINE row == [limit |-> limit, active |-> TRUE,
                         since |-> IF u \in Registered(a) THEN autoBid[a][u].since
                                   ELSE Cardinality(Registered(a)) + 1]
      <4>1. autoBid' = [autoBid EXCEPT ![a][u] = row]
        BY <2>3, <3>1 DEF SetAutoBid
      <4>2. row.limit = limit
        OBVIOUS
      <4> QED BY <4>1, <4>2
    <3>2. ASSUME CancelAutoBid(a, u)
          PROVE  \E row : /\ autoBid' = [autoBid EXCEPT ![a][u] = row]
                          /\ row.limit \in Limits \cup {0}
      <4> DEFINE row == [autoBid[a][u] EXCEPT !.active = FALSE]
      <4>1. autoBid' = [autoBid EXCEPT ![a][u] = row]
        BY <2>3, <3>2 DEF CancelAutoBid
      <4>2. row.limit = autoBid[a][u].limit
        BY <2>3 DEF AutoBid
      <4> QED BY <4>1, <4>2 DEF AimInv
    <3> QED BY <1>4, <3>1, <3>2
  <2>5. \A b \in Auctions, v \in Users : autoBid'[b][v].limit \in Limits \cup {0}
    <3>1. \A b \in Auctions, v \in Users :
            autoBid'[b][v] = IF b = a /\ v = u THEN row ELSE autoBid[b][v]
      BY <2>3, <2>4
    <3> QED BY <2>4, <3>1 DEF AimInv
  <2> QED BY <2>1, <2>2, <2>5 DEF AimInv
<1>5. ASSUME NEW a \in Auctions, NEW t \in Users, LadderBegin(a, t)
      PROVE  AimInv'
  <2>1. /\ ladder' = [ladder EXCEPT ![a] = Loaded(a, t)]
        /\ terms' = terms /\ autoBid' = autoBid /\ Eligible(a, t)
    BY <1>5 DEF LadderBegin, vars
  <2>2. AimSound(a, Loaded(a, t))
    BY <2>1, LoadedAims
  <2> QED BY <1>2, <2>1, <2>2, AimMoves
<1>6. ASSUME NEW a \in Auctions, NEW t \in Users, LadderReturns(a, t) \/ JobLost(a, t)
      PROVE  AimInv'
  <2>1. ladder' = ladder /\ autoBid' = autoBid /\ terms' = terms
    BY <1>6 DEF LadderReturns, JobLost, vars
  <2> QED BY <1>2, <2>1, AimSame DEF AimInv
<1>7. ASSUME NEW a \in Auctions, LadderSkip(a) \/ LadderRung(a)
      PROVE  AimInv'
  <2>1. PICK l : l = ladder[a]
    OBVIOUS
  <2>2. /\ Running(a) /\ Going(a, l) /\ terms' = terms /\ autoBid' = autoBid
        /\ \/ ladder' = [ladder EXCEPT ![a] = AfterSkip(a, l)]
           \/ ladder' = [ladder EXCEPT ![a] = AfterRung(a, l)]
    BY <1>7, <2>1 DEF LadderSkip, LadderRung, vars
  <2>3. LadderSound(a, l) /\ l \in Ladder
    BY <2>1, <2>2, LadderAlone DEF LadderSound, PoolSound
  <2>4. AimSound(a, l)
    BY <2>1, <2>2 DEF AimInv, AimAt, Running
  <2>5. AimSound(a, AfterSkip(a, l)) /\ AimSound(a, AfterRung(a, l))
    BY <1>1, <2>2, <2>3, <2>4, SkipAims, RungAims
  <2>6. \A b \in Auctions : AimAt(b)'
    BY <2>2, <2>5, AimMoves
  <2> QED BY <1>2, <2>2, <2>6
<1>8. ASSUME NEW a \in Auctions, LadderAbort(a)
      PROVE  AimInv'
  <2>1. ladder' = [ladder EXCEPT ![a] = NoLadder] /\ terms' = terms /\ autoBid' = autoBid
    BY <1>8 DEF LadderAbort, vars
  <2>2. NoLadder.trigger = NoUser
    BY DEF NoLadder
  <2> QED BY <1>2, <2>1, <2>2, AimMoves
<1>9. ASSUME NEW a \in Auctions, LadderCommit(a)
      PROVE  AimInv'
  <2>1. /\ ladder' = [ladder EXCEPT ![a] = NoLadder] /\ terms' = terms
        /\ autoBid' = [autoBid EXCEPT ![a] = [u \in Users |->
             IF u \in ladder[a].off THEN [@[u] EXCEPT !.active = FALSE] ELSE @[u]]]
    BY <1>9 DEF LadderCommit
  <2>2. NoLadder.trigger = NoUser
    BY DEF NoLadder
  <2>3. autoBid \in [Auctions -> [Users -> AutoBid]]
    BY DEF ProxyInv, TablesTyped
  <2>4. \A b \in Auctions, v \in Users : autoBid'[b][v].limit = autoBid[b][v].limit
    <3> SUFFICES ASSUME NEW b \in Auctions, NEW v \in Users
                 PROVE  autoBid'[b][v].limit = autoBid[b][v].limit
      OBVIOUS
    <3> DEFINE row == [autoBid[b][v] EXCEPT !.active = FALSE]
    <3>1. autoBid'[b][v] \in {autoBid[b][v], row}
      BY <2>1, <2>3
    <3>2. row.limit = autoBid[b][v].limit
      BY <2>3 DEF AutoBid
    <3> HIDE DEF row
    <3> QED BY <3>1, <3>2
  <2>5. \A b \in Auctions : AimAt(b)'
    BY <2>1, <2>2, AimMoves
  <2> QED BY <2>1, <2>4, <2>5 DEF AimInv
<1> QED BY <1>3, <1>4, <1>5, <1>6, <1>7, <1>8, <1>9 DEF ProxyNext, LadderStep
LEMMA AimInit ==
  ASSUME ProxyInit
  PROVE  AimInv
<1>1. \A a \in Auctions : ladder[a].trigger = NoUser
  BY DEF ProxyInit, NoLadder
<1>2. \A a \in Auctions, u \in Users : autoBid[a][u].limit = 0
  BY DEF ProxyInit, NoAutoBid
<1> QED BY <1>1, <1>2 DEF AimInv, AimAt, ProxyInit, Init

-----------------------------------------------------------------------------
(* The escrow path with ladders implements Sale                            *)

\* Every bid, rung or made by hand, is of an amount that somebody asked for.
Asked ==
  \A a \in Auctions : \A i \in DOMAIN bids[a] : bids[a][i].amount \in ProxyAmounts

\* A rung is within the limit that its bidder registered.
LEMMA CommitAsked ==
  ASSUME TypeOK, Asked, NEW a \in Auctions, NEW l, LadderSound(a, l), AimSound(a, l),
         Committed(a, l)
  PROVE  Asked'
<1>1. /\ DOMAIN l.rows = 1 .. Len(l.rows) /\ Len(l.rows) \in Nat
      /\ DOMAIN bids[a] = 1 .. Len(bids[a]) /\ Len(bids[a]) \in Nat
      /\ Len(l.rows) = Len(bids[a]) + l.steps /\ l.steps \in Nat
      /\ \A i \in DOMAIN l.rows : l.rows[i].bidder \in Users /\ l.rows[i].amount \in Nat \ {0}
  BY LadderRows
<1>2. bids'[a] = l.rows /\ \A b \in Auctions \ {a} : bids'[b] = bids[b]
  BY DEF Committed
<1>3. ASSUME NEW i \in DOMAIN bids[a]
      PROVE  l.rows[i].amount \in ProxyAmounts
  <2>1. l.rows[i].amount = bids[a][i].amount
    BY DEF LadderSound, RowsClimb
  <2> QED BY <2>1 DEF Asked
<1>4. ASSUME NEW i \in DOMAIN l.rows \ DOMAIN bids[a]
      PROVE  l.rows[i].amount \in ProxyAmounts
  <2> DEFINE limit == l.limit[l.rows[i].bidder]
  <2>1. i \in Rungs(l)
    BY <1>1, <1>4 DEF Rungs
  <2>2. l.rows[i].amount <= limit /\ l.rows[i].amount \in Nat \ {0}
    BY <1>1, <2>1 DEF LadderSound, RungsSound
  <2>3. limit \in Limits \cup {0}
    BY <1>1 DEF AimSound
  <2> HIDE DEF limit
  <2>4. limit \in Limits /\ l.rows[i].amount \in 1 .. limit
    BY <2>2, <2>3, LimitsAssumption
  <2> QED BY <2>4 DEF ProxyAmounts
<1>5. \A i \in DOMAIN l.rows : l.rows[i].amount \in ProxyAmounts
  BY <1>3, <1>4
<1> QED BY <1>2, <1>5 DEF Asked

\* What is asked for stays asked for.
LEMMA AskedStays ==
  ASSUME ProxyInv, AimInv, Asked, [ProxyNext]_allVars
  PROVE  Asked'
<1>1. Inv /\ TypeOK
  BY DEF ProxyInv, HoldsInv, OutcomeInv, Inv
<1>2. CASE [Next]_vars
  <2>1. RowsKept
    BY <1>1, <1>2, NextRows DEF Inv
  <2>2. BidAmounts \subseteq ProxyAmounts
    BY DEF ProxyAmounts, SaleAmounts
  <2> QED BY <2>1, <2>2 DEF RowsKept, RowsStay, Asked
<1>3. ASSUME NEW a \in Auctions, NEW l, l = ladder[a], Running(a), LadderSound(a, l),
             Committed(a, l)
      PROVE  Asked'
  <2>1. AimSound(a, l)
    BY <1>3 DEF AimInv, AimAt, Running
  <2> QED BY <1>1, <1>3, <2>1, CommitAsked
<1> QED BY <1>2, <1>3, ProxySteps

\* A step that is safe for the money maps to the sale it makes, or to a stutter.
LEMMA ProxySale ==
  ASSUME Inv, Asked, terms' = terms, SafeForMoney
  PROVE  [ProxyLedger!SaleNext]_(ProxyLedger!saleVars)
<1>1. CASE NoSaleStep
  BY <1>1 DEF NoSaleStep, KeepsSales, ProxyLedger!saleVars, Seller
<1>2. ASSUME NEW a, NEW u, NEW amount, NEW kind, SaleStep(a, u, amount, kind)
      PROVE  ProxyLedger!SaleNext
  <2>1. /\ a \in Auctions /\ u \in Users /\ kind \in {"WON_AUCTION", "DIRECT_SALE"}
        /\ amount \in ProxyAmounts
    BY <1>2 DEF SaleStep, Offered, Asked, ProxyAmounts
  <2>2. /\ Paid' = [Paid EXCEPT ![u] = @ + amount]
        /\ Earned' = [Earned EXCEPT ![Seller(a)] = @ + amount]
    BY <1>2, SaleMoves
  <2>3. [b \in Auctions |-> Seller(b)]' = [b \in Auctions |-> Seller(b)]
    BY DEF Seller
  <2>4. /\ settlement[a] = NoSettlement /\ u # Seller(a) /\ amount > 0
        /\ settlement' = [settlement EXCEPT ![a] =
                             [party |-> u, amount |-> amount, kind |-> kind]]
    BY <1>2 DEF SaleStep, Settled
  <2>5. ProxyLedger!Sell(a, u, amount, kind)
    BY <2>1, <2>2, <2>3, <2>4 DEF ProxyLedger!Sell, Paid, Earned
  <2> QED BY <2>1, <2>5 DEF ProxyLedger!SaleNext
<1> QED BY <1>1, <1>2 DEF SafeForMoney

\* The composition of the escrow path with ladders implements Sale: a commit, which writes
\* the wallets of all its proxies, makes no payment and undoes none, and what a rung wins
\* is sold once, within the limit of its bidder.
THEOREM LaddersSellOnce ==
  ASSUME Undisturbed
  PROVE  ProxySpec => SoldOnceWithLadders
<1>1. Undisturbed
  OBVIOUS
<1>2. ProxyInit => ProxyLedger!SaleInit /\ AimInv /\ Asked
  <2> SUFFICES ASSUME ProxyInit
               PROVE  ProxyLedger!SaleInit /\ AimInv /\ Asked
    OBVIOUS
  <2>1. Init
    BY DEF ProxyInit
  <2>2. ProxyLedger!SaleInit
    <3>1. \A a \in Auctions : Seller(a) \in Users
      BY <2>1, CatalogsAssumption DEF Init, Seller, AuctionTerms
    <3>2. \A u \in Users : acct[u].won + acct[u].bought = 0 /\ acct[u].sold = 0
      BY <2>1 DEF Init, Opened
    <3> QED BY <2>1, <3>1, <3>2 DEF Init, ProxyLedger!SaleInit
  <2> QED BY <2>1, <2>2, AimInit DEF Init, Asked
<1>3. ProxyInv /\ AimInv /\ [ProxyNext]_allVars => AimInv'
  BY <1>1, AimNext
<1>4. ProxyInv /\ AimInv /\ Asked /\ [ProxyNext]_allVars =>
        Asked' /\ [ProxyLedger!SaleNext]_(ProxyLedger!saleVars)
  BY AskedStays, ProxyMoney, ProxySale DEF ProxyInv, HoldsInv, OutcomeInv
<1> QED BY <1>2, <1>3, <1>4, ProxyInvCorrect, PTL
        DEF ProxySpec, SoldOnceWithLadders, ProxyLedger!SaleSpec

-----------------------------------------------------------------------------
(* The end of a ladder                                                     *)

\* In increments: the price goes as far as the first limit allows, and no further than one
\* above the runner-up, and the loop is not over before.
LEMMA PriceReachesAim ==
  ASSUME ProxyInv, AimInv, LoopSuffices, NEW a \in Auctions, NEW l, l = ladder[a],
         Resolved(a), l.off = {},
         NEW inc, inc = terms[a].minIncrement,
         NEW s \in Nat, PriceBefore(a, l) = s * inc,
         NEW first \in Users, NEW runnerUp \in Nat, AimsAt(a, l, first, runnerUp),
         NEW aim \in Nat, s < aim,
         \A m \in Int : m * inc <= l.ceiling <=> m <= aim,
         aim <= l.limit[first] \div inc
  PROVE  l.cur = aim * inc /\ l.steps > 0
<1>1. LadderSound(a, l) /\ AimSound(a, l) /\ Running(a) /\ ~Going(a, l) /\ TypeOK
  BY LadderAlone DEF Resolved, AimInv, AimAt, Running, ProxyInv, HoldsInv, OutcomeInv, Inv
<1>2. /\ l.limit \in [Users -> Nat] /\ l.left \in Nat /\ l.steps \in Nat /\ l.cur \in Nat
      /\ l.ceiling \in Int
  BY <1>1 DEF LadderSound, PoolSound, Ladder
<1>3. inc \in Nat \ {0} /\ NextBid(a, l) = l.cur + inc
  BY <1>1, NextBidTyped
<1> DEFINE k     == s + l.steps
           reach == l.limit[first] \div inc
<1>12. l.limit[first] \in Int /\ reach \in Int
  BY <1>2, <1>3
<1>13. \A m \in Int : m * inc <= l.limit[first] <=> m <= reach
  BY <1>3, <1>12, Quotients
<1>14. aim <= reach
  OBVIOUS
<1> HIDE DEF reach
<1>4. k \in Nat /\ l.cur = k * inc /\ NextBid(a, l) = (k + 1) * inc
  <2>1. s * inc = l.cur - l.steps * inc
    BY DEF PriceBefore
  <2>2. (s + l.steps) * inc = s * inc + l.steps * inc /\ l.steps * inc \in Int
    BY <1>2, <1>3, Multiples
  <2>3. l.cur = k * inc
    BY <1>2, <2>1, <2>2
  <2>4. k \in Nat
    BY <1>2
  <2> HIDE DEF k
  <2>5. (k + 1) * inc = k * inc + inc
    BY <1>3, <2>4, Multiples
  <2> QED BY <1>3, <2>3, <2>4, <2>5
<1>5. l.left = StepBound(l.ceiling, s * inc, inc) - l.steps
  <2>1. l.left + l.steps = StepBound(l.ceiling, s * inc, inc)
    BY <1>1 DEF AimSound
  <2> QED BY <1>2, <2>1
<1>6. aim <= MaxLadder
  <2>1. l.limit[first] \in Limits
    BY <1>1, <1>2 DEF AimSound, AimsAt, LoadedBy
  <2>2. l.limit[first] <= MaxLadder * inc
    BY <1>1, <2>1 DEF LoopSuffices, AimInv, LadderSound, SceneKept, English
  <2>3. aim * inc <= l.limit[first] /\ aim * inc \in Int
    BY <1>3, <1>13, <1>14
  <2>4. MaxLadder \in Nat /\ MaxLadder * inc \in Int
    BY <1>3, LadderBoundsAssumption
  <2>5. aim * inc <= MaxLadder * inc
    BY <1>12, <2>2, <2>3, <2>4
  <2> QED BY <1>3, <2>4, <2>5, Multiples
<1>7. aim - s <= StepBound(l.ceiling, s * inc, inc)
  <2>1. aim * inc <= l.ceiling
    OBVIOUS
  <2> QED BY <1>2, <1>3, <1>6, <2>1, StepsSuffice
<1>8. StepBound(l.ceiling, s * inc, inc) \in Nat
  <2>1. s * inc \in Nat
    BY <1>1 DEF AimSound
  <2> QED BY <1>2, <1>3, <2>1, StepBoundTyped
<1> HIDE DEF k
<1>9. k <= aim
  <2>1. CASE l.steps > 0
    BY <1>1, <1>4, <2>1 DEF AimSound
  <2>2. CASE ~(l.steps > 0)
    BY <1>2, <2>2 DEF k
  <2> QED BY <2>1, <2>2
<1>10. ASSUME k < aim PROVE FALSE
  <2>1. l.left > 0
    BY <1>2, <1>5, <1>7, <1>8, <1>10 DEF k
  <2>2. NextBid(a, l) <= l.ceiling
    <3>1. k + 1 \in Int /\ k + 1 <= aim
      BY <1>4, <1>10
    <3> QED BY <1>4, <3>1
  <2>3. NextBid(a, l) <= l.limit[first]
    <3>1. k + 1 \in Int /\ k + 1 <= reach
      BY <1>4, <1>10, <1>12, <1>14
    <3> QED BY <1>4, <1>13, <3>1
  <2>4. first \in Able(a, l)
    <3>1. first \in l.pool
      BY <1>1, <1>2, <1>3, <2>3 DEF LadderSound, RungsSound
    <3> QED BY <2>3, <3>1 DEF Able
  <2>5. Challenger(a, l) # NoUser
    <3>1. Able(a, l) \subseteq Users
      BY <1>1 DEF LadderSound, PoolSound, Ladder, Able
    <3>2. CASE Able(a, l) \ {Leader(l)} # {}
      <4> DEFINE S == Able(a, l) \ {Leader(l)}
      <4>1. /\ S \in SUBSET Users /\ S # {}
            /\ \A u, v \in S : l.since[u] = l.since[v] => u = v
        BY <1>1, <3>1, <3>2 DEF LadderSound, PoolSound, Able
      <4>2. l.since \in [Users -> Nat]
        BY <1>1 DEF LadderSound, PoolSound, Ladder
      <4>3. Challenger(a, l) = Foremost(l.limit, l.since, S)
        BY <3>2 DEF Challenger
      <4> HIDE DEF S
      <4>4. Challenger(a, l) \in S
        BY <1>2, <4>1, <4>2, <4>3, ForemostIn
      <4> QED BY <4>1, <4>4, NoUserAssumption
    <3>3. CASE Able(a, l) \ {Leader(l)} = {}
      <4>1. Leader(l) = first /\ Leader(l) \in Able(a, l)
        BY <2>4, <3>3
      <4> QED BY <3>1, <3>3, <4>1, NoUserAssumption DEF Challenger
    <3> QED BY <3>2, <3>3
  <2> QED BY <1>1, <2>1, <2>2, <2>5 DEF Going
<1>11. k = aim
  BY <1>4, <1>9, <1>10
<1> QED BY <1>2, <1>4, <1>11 DEF k

\* Whoever bid the last rung can pay it.
LEMMA LeaderPays ==
  ASSUME TypeOK, NEW a \in Auctions, NEW l, LadderSound(a, l), l.steps > 0
  PROVE  Leader(l) \in LoadedBy(l) /\ l.cur <= l.limit[Leader(l)]
<1>1. /\ l.top = Len(l.rows) /\ Len(l.rows) \in Nat /\ l.steps \in Nat
      /\ l.top \in DOMAIN l.rows
      /\ Leader(l) \in Users /\ l.rows[l.top].amount \in Nat \ {0}
  BY LadderRows DEF Leader
<1>2. l.top \in Rungs(l)
  BY <1>1 DEF Rungs
<1>3. l.rows[l.top].amount <= l.limit[Leader(l)] /\ l.rows[l.top].amount = l.cur
  BY <1>2 DEF LadderSound, RungsSound, RowsClimb, Leader
<1>4. l.limit[Leader(l)] \in Nat
  BY <1>1 DEF LadderSound, PoolSound, Ladder
<1> QED BY <1>1, <1>3, <1>4 DEF LoadedBy

\* With R the limits in increments and s the price before: what ClearsAtSecondPrice says.
Cleared(l, inc, R, s) ==
  /\ Leader(l) \in LoadedBy(l)
  /\ \A u \in LoadedBy(l) : R[u] <= R[Leader(l)]
  /\ IF LoadedBy(l) = {Leader(l)} THEN l.cur = (s + 1) * inc
     ELSE \E second \in LoadedBy(l) \ {Leader(l)} :
            /\ \A u \in LoadedBy(l) \ {Leader(l)} : R[u] <= R[second]
            /\ l.cur = inc * (IF R[second] < R[Leader(l)] THEN R[second] + 1 ELSE R[second])

LEMMA LadderClears ==
  ASSUME ProxyInv, AimInv, LoopSuffices, NEW a \in Auctions, Resolved(a), ladder[a].off = {},
         StartPrice(a) % terms[a].minIncrement = 0,
         \A u \in LoadedBy(ladder[a]) :
           Reach(a, u) > StartPrice(a) \div terms[a].minIncrement
  PROVE  Cleared(ladder[a], terms[a].minIncrement, [u \in Users |-> Reach(a, u)],
                 StartPrice(a) \div terms[a].minIncrement)
<1> DEFINE l   == ladder[a]
           inc == terms[a].minIncrement
           s   == StartPrice(a) \div inc
           R   == [u \in Users |-> Reach(a, u)]
<1>17. /\ l = ladder[a] /\ inc = terms[a].minIncrement /\ s = StartPrice(a) \div inc
       /\ Resolved(a) /\ l.off = {} /\ StartPrice(a) % inc = 0
       /\ \A u \in Users : R[u] = l.limit[u] \div inc
  BY DEF Reach
<1>18. \A u \in LoadedBy(l) : R[u] > s
  BY DEF LoadedBy
<1> HIDE DEF l, inc, s, R
<1>1. LadderSound(a, l) /\ AimSound(a, l) /\ Running(a) /\ TypeOK
  BY <1>17, LadderAlone DEF Resolved, AimInv, AimAt, Running, ProxyInv, HoldsInv,
     OutcomeInv, Inv
<1>2. l.limit \in [Users -> Nat] /\ l.cur \in Nat /\ l.ceiling \in Int
  BY <1>1 DEF LadderSound, PoolSound, Ladder
<1>3. inc \in Nat \ {0}
  BY <1>1, <1>17, TermsTyped
<1>4. \A u \in Users : /\ R[u] = l.limit[u] \div inc /\ R[u] \in Int
                       /\ \A m \in Int : m * inc <= l.limit[u] <=> m <= R[u]
  <2> SUFFICES ASSUME NEW u \in Users
               PROVE  /\ R[u] = l.limit[u] \div inc /\ R[u] \in Int
                      /\ \A m \in Int : m * inc <= l.limit[u] <=> m <= R[u]
    OBVIOUS
  <2>1. R[u] = l.limit[u] \div inc /\ l.limit[u] \in Int
    BY <1>2, <1>17
  <2> QED BY <1>3, <2>1, Quotients
<1>5. LoadedBy(l) \subseteq Users
  BY DEF LoadedBy
<1>6. s \in Nat /\ PriceBefore(a, l) = s * inc
  <2>1. PriceBefore(a, l) = StartPrice(a) /\ PriceBefore(a, l) \in Nat
    BY <1>1, <1>17 DEF AimSound, StartPrice, PriceBefore
  <2>2. s \in Int /\ StartPrice(a) = s * inc
    <3>1. StartPrice(a) \in Int
      BY <2>1
    <3>2. StartPrice(a) = (StartPrice(a) \div inc) * inc
      BY <1>3, <1>17, <3>1, OnGrid
    <3>3. StartPrice(a) \div inc \in Int
      BY <1>3, <3>1, Quotients
    <3> QED BY <1>17, <3>2, <3>3
  <2>3. 0 * inc = 0 /\ 0 * inc <= s * inc
    BY <1>3, <2>1, <2>2
  <2>4. 0 <= s
    BY <1>3, <2>2, <2>3, Multiples
  <2> QED BY <2>1, <2>2, <2>4
<1>7. PICK first \in Users, runnerUp \in Nat : AimsAt(a, l, first, runnerUp)
  BY <1>1 DEF AimSound
<1>8. first \in LoadedBy(l) /\ \A u \in LoadedBy(l) : l.limit[u] <= l.limit[first]
  BY <1>7 DEF AimsAt
<1>9. ASSUME NEW u \in Users, NEW v \in Users, l.limit[u] <= l.limit[v]
      PROVE  R[u] <= R[v]
  <2>1. R[u] \in Int /\ R[u] * inc <= l.limit[u]
    BY <1>4
  <2>2. R[u] * inc \in Int /\ l.limit[u] \in Int /\ l.limit[v] \in Int
    BY <1>2, <1>3, <2>1
  <2>3. R[u] * inc <= l.limit[v]
    BY <1>9, <2>1, <2>2
  <2> QED BY <1>4, <2>1, <2>3
<1>10. \A u \in LoadedBy(l) : R[u] <= R[first]
  BY <1>5, <1>8, <1>9
<1> DEFINE q   == runnerUp \div inc
           aim == IF q + 1 <= R[first] THEN q + 1 ELSE R[first]
<1>11. q \in Int
  BY <1>3
<1> HIDE DEF q
<1>12. \A m \in Int : m * inc <= l.ceiling <=> m <= aim
  <2>1. l.limit[first] \in Nat /\ l.ceiling = Ceiling(l.limit[first], runnerUp, inc)
    BY <1>2, <1>7, <1>17 DEF AimsAt
  <2>2. l.limit[first] \div inc = R[first]
    BY <1>4
  <2>3. \A m \in Int : m * inc <= l.ceiling <=>
                       m <= runnerUp \div inc + 1 /\ m <= l.limit[first] \div inc
    <3>1. PICK highest \in Nat : highest = l.limit[first]
      BY <2>1
    <3>2. \A m \in Int : m * inc <= Ceiling(highest, runnerUp, inc) <=>
                         m <= runnerUp \div inc + 1 /\ m <= highest \div inc
      BY <1>3, CeilingReached
    <3> QED BY <2>1, <3>1, <3>2
  <2>4. \A m \in Int : m * inc <= l.ceiling <=> m <= q + 1 /\ m <= R[first]
    BY <2>2, <2>3 DEF q
  <2> QED BY <1>4, <1>11, <2>4
<1>13. ASSUME LoadedBy(l) = {first} PROVE Cleared(l, inc, R, s)
  <2>1. q = s
    <3>1. runnerUp = PriceBefore(a, l)
      BY <1>7, <1>13 DEF AimsAt
    <3>2. runnerUp = StartPrice(a)
      BY <1>17, <3>1 DEF StartPrice, PriceBefore
    <3> QED BY <1>17, <3>2 DEF q
  <2>2. aim = s + 1 /\ aim \in Nat /\ s < aim /\ aim <= R[first]
    <3>1. R[first] \in Int /\ R[first] > s
      BY <1>4, <1>8, <1>18
    <3> QED BY <1>6, <2>1, <3>1
  <2> HIDE DEF aim
  <2>3. l.cur = aim * inc /\ l.steps > 0
    BY <1>4, <1>6, <1>7, <1>12, <1>17, <2>2, PriceReachesAim
  <2>4. Leader(l) = first
    BY <1>1, <1>13, <2>3, LeaderPays
  <2> QED BY <1>10, <1>13, <2>2, <2>3, <2>4 DEF Cleared
<1>14. ASSUME LoadedBy(l) # {first} PROVE Cleared(l, inc, R, s)
  <2>1. PICK second \in LoadedBy(l) \ {first} :
          /\ runnerUp = l.limit[second]
          /\ \A u \in LoadedBy(l) \ {first} : l.limit[u] <= l.limit[second]
    BY <1>7, <1>14 DEF AimsAt
  <2>2. \A u \in LoadedBy(l) \ {first} : R[u] <= R[second]
    BY <1>5, <1>9, <2>1
  <2>3. q = R[second] /\ R[second] > s /\ R[first] > s /\ R[second] <= R[first]
    BY <1>4, <1>5, <1>8, <1>10, <1>18, <2>1 DEF q
  <2>4. aim \in Nat /\ s < aim /\ aim <= R[first]
    BY <1>4, <1>6, <1>11, <2>3
  <2>5. \/ aim = R[second] + 1 /\ R[second] < R[first]
        \/ aim = R[first] /\ R[second] = R[first]
    BY <1>4, <1>11, <2>3
  <2> HIDE DEF aim
  <2>6. l.cur = aim * inc /\ l.steps > 0
    BY <1>4, <1>6, <1>7, <1>12, <1>17, <2>4, PriceReachesAim
  <2>7. Leader(l) \in LoadedBy(l) /\ aim <= R[Leader(l)]
    BY <1>1, <1>4, <1>5, <2>4, <2>6, LeaderPays
  <2>8. aim * inc = inc * aim
    BY <1>3, <2>4
  <2>9. CASE aim = R[second] + 1 /\ R[second] < R[first]
    <3>1. Leader(l) = first
      BY <1>4, <1>5, <2>1, <2>2, <2>7, <2>9
    <3> QED BY <1>10, <1>14, <2>1, <2>2, <2>6, <2>7, <2>8, <2>9, <3>1 DEF Cleared
  <2>10. CASE aim = R[first] /\ R[second] = R[first]
    <3>1. \A u \in LoadedBy(l) : R[u] <= R[Leader(l)]
      BY <1>4, <1>5, <1>10, <2>7, <2>10
    <3>2. R[Leader(l)] = R[first]
      BY <1>4, <1>5, <1>8, <1>10, <2>7, <2>10
    <3>3. PICK other \in LoadedBy(l) \ {Leader(l)} : R[other] = R[first]
      <4>1. CASE Leader(l) = first
        BY <2>1, <2>10, <4>1
      <4>2. CASE Leader(l) # first
        BY <1>8, <4>2
      <4> QED BY <4>1, <4>2
    <3>4. \A u \in LoadedBy(l) \ {Leader(l)} : R[u] <= R[other]
      BY <1>10, <3>3
    <3>5. ~(R[other] < R[Leader(l)])
      BY <1>4, <3>2, <3>3
    <3>6. l.cur = inc * R[other]
      BY <2>6, <2>8, <2>10, <3>3
    <3> QED BY <2>7, <3>1, <3>3, <3>4, <3>5, <3>6 DEF Cleared
  <2> QED BY <2>5, <2>9, <2>10
<1>15. Cleared(l, inc, R, s)
  BY <1>13, <1>14
<1> QED BY <1>15 DEF l, inc, s, R

\* On the grid of the increment, and among proxies that can pay and are not priced out
\* already, a ladder ends at the second price, although its loop compares limits that need
\* not be on the grid, leaves proxies out on its way and stops at a computed number of
\* steps (workers/index.ts, tightCeiling and maxSteps).
THEOREM ClearedAtSecondPrice ==
  ASSUME Undisturbed, LoopSuffices
  PROVE  ProxySpec => []ClearsAtSecondPrice
<1>1. Undisturbed /\ LoopSuffices
  OBVIOUS
<1>2. ProxyInit => AimInv
  BY AimInit
<1>3. ProxyInv /\ AimInv /\ [ProxyNext]_allVars => AimInv'
  BY <1>1, AimNext
<1>4. ProxyInv /\ AimInv => ClearsAtSecondPrice
  <2> SUFFICES ASSUME ProxyInv, AimInv, NEW a \in Auctions, Resolved(a), ladder[a].off = {},
                      StartPrice(a) % terms[a].minIncrement = 0,
                      \A u \in LoadedBy(ladder[a]) :
                        Reach(a, u) > StartPrice(a) \div terms[a].minIncrement
               PROVE  Cleared(ladder[a], terms[a].minIncrement, [u \in Users |-> Reach(a, u)],
                              StartPrice(a) \div terms[a].minIncrement)
    BY DEF ClearsAtSecondPrice, Cleared, LoadedBy
  <2> QED BY <1>1, LadderClears
<1> QED BY <1>2, <1>3, <1>4, ProxyInvCorrect, <1>1, PTL DEF ProxySpec
=============================================================================
