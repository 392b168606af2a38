---------------------------- MODULE ProxyBidding ----------------------------
(***************************************************************************)
(* Auto-bids on English auctions, composed with the core: setAutoBid,      *)
(* cancelAutoBid and the auto-bid worker's processAutoBidLadder.           *)
(*                                                                         *)
(* A ladder is one transaction that holds the auction row and the wallets  *)
(* of the trigger and of every auto-bidder it loaded.  It works on rows    *)
(* that nobody else sees until it commits; auto_bids rows are not locked,  *)
(* so setAutoBid and cancelAutoBid go on meanwhile.                        *)
(***************************************************************************)
EXTENDS AuctionHouse

CONSTANTS
  Limits,         \* amounts that users pass to setAutoBid
  MaxLadder,      \* the loop's own cap (100000)
  MaxJobs,        \* bound: ladder jobs queued for one auction and trigger
  MaxAborts       \* bound: ladder faults; below the three attempts of a job

ASSUME LimitsAssumption == Limits \subseteq Nat \ {0}
ASSUME LadderBoundsAssumption == MaxLadder \in Nat \ {0} /\ MaxJobs \in Nat /\ MaxAborts \in 0 .. 2

VARIABLES
  autoBid,   \* [Auctions -> [Users -> auto_bids row]], limit 0: no row
  jobs,      \* [Auctions -> [Users -> process-ladder jobs queued with that trigger]]
  ladder,    \* [Auctions -> the ladder transaction under way, or NoLadder]
  aborts     \* ladder faults so far

proxyVars == <<autoBid, jobs, ladder, aborts>>
allVars == <<vars, proxyVars>>

\* limit is maxAmount, since the rank of createdAt, which an update keeps.
AutoBid == [limit: Nat, active: BOOLEAN, since: Nat]
NoAutoBid == [limit |-> 0, active |-> FALSE, since |-> 0]

NoLadder == [trigger |-> NoUser]

-----------------------------------------------------------------------------
(* Row locks                                                               *)

Running(a) == ladder[a].trigger # NoUser

\* The wallets that the ladder on a has locked.
Involved(a) == {ladder[a].trigger} \cup {u \in Users : ladder[a].limit[u] > 0}

\* A step of the core waits for the rows that a ladder has locked.
RespectsLocks ==
  \A a \in Auctions : Running(a) =>
    /\ status'[a] = status[a] /\ price'[a] = price[a] /\ winner'[a] = winner[a]
    /\ bids'[a] = bids[a] /\ settlement'[a] = settlement[a]
    /\ \A u \in Involved(a) : acct'[u] = acct[u]

\* The trigger of the job that a placeBid of this step enqueues after its commit.
Bidders(a) == IF Len(bids'[a]) > Len(bids[a]) THEN {bids'[a][Len(bids'[a])].bidder} ELSE {}

\* Any step of the core.
CoreStep ==
  /\ Next
  /\ RespectsLocks
  /\ jobs' = [a \in Auctions |-> [u \in Users |->
                jobs[a][u] + IF u \in Bidders(a) THEN 1 ELSE 0]]
  /\ \A a \in Auctions, u \in Users : jobs'[a][u] <= MaxJobs
  /\ UNCHANGED <<autoBid, ladder, aborts>>

-----------------------------------------------------------------------------
(* setAutoBid and cancelAutoBid                                            *)

\* The positions of the rungs that the ladder l has added.
Rungs(l) == Len(l.rows) - l.steps + 1 .. Len(l.rows)

\* The auto_bids rows that the ladder l has written, those of the proxies it has
\* deactivated or bid for, are locked until it ends.
Written(l) == l.off \cup {l.rows[i].bidder : i \in Rungs(l)}

RowFree(a, u) == Running(a) => u \notin Written(ladder[a])

Registered(a) == {u \in Users : autoBid[a][u] # NoAutoBid}

\* Plain reads and an upsert; the ladder is enqueued with this bidder as trigger.
SetAutoBid(a, u, limit) ==
  /\ English(a)
  /\ status[a] = "ACTIVE"
  /\ Seller(a) # u
  /\ limit > price[a]
  /\ Available(acct[u]) >= limit
  /\ RowFree(a, u)
  /\ jobs[a][u] < MaxJobs
  /\ autoBid' = [autoBid EXCEPT ![a][u] =
                   [limit |-> limit, active |-> TRUE,
                    since |-> IF u \in Registered(a) THEN @.since
                              ELSE Cardinality(Registered(a)) + 1]]
  /\ jobs' = [jobs EXCEPT ![a][u] = @ + 1]
  /\ UNCHANGED <<vars, ladder, aborts>>

CancelAutoBid(a, u) ==
  /\ autoBid[a][u].active
  /\ RowFree(a, u)
  /\ autoBid' = [autoBid EXCEPT ![a][u].active = FALSE]
  /\ UNCHANGED <<vars, jobs, ladder, aborts>>

-----------------------------------------------------------------------------
(* processAutoBidLadder: the reads                                         *)

\* The auto-bids the ladder of trigger t loads: its own is left out.
Rivals(a, t) == {u \in Users \ {t} : autoBid[a][u].active}

\* The row that ORDER BY maxAmount DESC, createdAt ASC puts first among S.
Foremost(limit, since, S) ==
  CHOOSE u \in S : \A v \in S \ {u} :
    limit[u] > limit[v] \/ (limit[u] = limit[v] /\ since[u] < since[v])

\* Positions of the WINNING bids of t.
WinningOf(a, t) == {i \in BidsWith(a, "WINNING") : bids[a][i].bidder = t}

\* The early returns of the ladder of trigger t are not taken.
Eligible(a, t) ==
  /\ status[a] = "ACTIVE"
  /\ ~expired[a]
  /\ English(a)
  /\ Rivals(a, t) # {}
  /\ WinningOf(a, t) # {}

\* Mutation: the runner-up's limit itself is the ceiling.
CeilingAtRunnerUp(highest, runnerUp, inc) == IF runnerUp < highest THEN runnerUp ELSE highest

\* tightCeiling: the first multiple of the increment above the runner-up's
\* limit, capped by the highest limit.
Ceiling(highest, runnerUp, inc) ==
  LET grid == (runnerUp \div inc) * inc + inc
  IN  IF grid < highest THEN grid ELSE highest

\* maxSteps, the ceiling of (ceiling - cur) / inc within 0 .. MaxLadder.
StepBound(ceiling, cur, inc) ==
  LET steps == (ceiling - cur + inc - 1) \div inc
  IN  IF ceiling <= cur THEN 0 ELSE IF steps < MaxLadder THEN steps ELSE MaxLadder

\* The loop state before the first iteration.
Loaded(a, t) ==
  LET pool     == Rivals(a, t)
      limit    == [u \in Users |-> IF u \in pool THEN autoBid[a][u].limit ELSE 0]
      since    == [u \in Users |-> autoBid[a][u].since]
      first    == Foremost(limit, since, pool)
      runnerUp == IF pool = {first} THEN price[a]
                  ELSE limit[Foremost(limit, since, pool \ {first})]
      ceiling  == Ceiling(limit[first], runnerUp, terms[a].minIncrement)
      top      == CHOOSE i \in WinningOf(a, t) : \A j \in WinningOf(a, t) : j <= i
  IN  [trigger |-> t, limit |-> limit, since |-> since, pool |-> pool, off |-> {},
       ceiling |-> ceiling, left |-> StepBound(ceiling, price[a], terms[a].minIncrement),
       steps |-> 0, cur |-> price[a], top |-> top, rows |-> bids[a], acct |-> acct]

LadderBegin(a, t) ==
  /\ jobs[a][t] > 0
  /\ ~Running(a)
  /\ Eligible(a, t)
  /\ \A b \in Auctions : Running(b) => ({t} \cup Rivals(a, t)) \cap Involved(b) = {}
  /\ jobs'   = [jobs EXCEPT ![a][t] = @ - 1]
  /\ ladder' = [ladder EXCEPT ![a] = Loaded(a, t)]
  /\ UNCHANGED <<vars, autoBid, aborts>>

\* A ladder that returns without a step.
LadderReturns(a, t) ==
  /\ jobs[a][t] > 0
  /\ ~Running(a)
  /\ ~Eligible(a, t)
  /\ jobs' = [jobs EXCEPT ![a][t] = @ - 1]
  /\ UNCHANGED <<vars, autoBid, ladder, aborts>>

-----------------------------------------------------------------------------
(* processAutoBidLadder: the loop, on the state l of one ladder            *)

NextBid(a, l) == l.cur + terms[a].minIncrement

\* Mutation: proxies keep bidding above their limit.
AbleUnlimited(a, l) == l.pool

\* The proxies whose limit covers the next bid.
Able(a, l) == {u \in l.pool : l.limit[u] >= NextBid(a, l)}

Leader(l) == l.rows[l.top].bidder

\* Mutation: the leader is not passed over.
ChallengerAnyone(a, l) ==
  IF Able(a, l) # {} THEN Foremost(l.limit, l.since, Able(a, l)) ELSE NoUser

\* The first able proxy that does not lead; failing that the leader itself for
\* the decisive rung; NoUser when the loop breaks.
Challenger(a, l) ==
  LET able == Able(a, l)
  IN  IF able \ {Leader(l)} # {} THEN Foremost(l.limit, l.since, able \ {Leader(l)})
      ELSE IF Leader(l) \in able THEN Leader(l) ELSE NoUser

Going(a, l) ==
  /\ l.left > 0
  /\ NextBid(a, l) <= l.ceiling
  /\ Challenger(a, l) # NoUser

\* Mutation: every challenger is checked against the increment only.
RequiredIncrement(a, l, u) == NextBid(a, l) - l.rows[l.top].amount

\* What challenger u must have available: its own hold is about to be released.
Required(a, l, u) ==
  IF u = Leader(l) THEN NextBid(a, l) - l.rows[l.top].amount ELSE NextBid(a, l)

Short(a, l, u) == Available(l.acct[u]) < Required(a, l, u)

\* Mutation: the loop continues with the same pool and counter.
AfterSkipUnchanged(a, l) == l

\* The challenger cannot pay: it is deactivated and leaves the pool.
AfterSkip(a, l) ==
  LET u == Challenger(a, l)
  IN  [l EXCEPT !.left = @ - 1, !.pool = Able(a, l) \ {u}, !.off = @ \cup {u}]

\* What a rung changes in any case: the challenger's row is the new top.
Raised(a, l, u) ==
  [l EXCEPT !.left = @ - 1, !.steps = @ + 1, !.pool = Able(a, l), !.cur = NextBid(a, l),
            !.top  = Len(l.rows) + 1,
            !.rows = Append(@, NewBid(u, NextBid(a, l), "WINNING"))]

\* Mutations: the hold of the displaced bid stays; its row stays WINNING.
AfterRungUnreleased(a, l) ==
  LET u == Challenger(a, l)
  IN  [Raised(a, l, u) EXCEPT !.rows = [@ EXCEPT ![l.top].status = "OUTBID"],
                              !.acct = Hold(@, u, NextBid(a, l))]

\* The rung: the leading bid is OUTBID and released, the challenger's is held.
AfterRung(a, l) ==
  LET u == Challenger(a, l)
  IN  [Raised(a, l, u) EXCEPT
         !.rows = [@ EXCEPT ![l.top].status = "OUTBID"],
         !.acct = Hold(Release(@, Leader(l), l.rows[l.top].amount), u, NextBid(a, l))]

LadderSkip(a) ==
  /\ Running(a)
  /\ Going(a, ladder[a])
  /\ Short(a, ladder[a], Challenger(a, ladder[a]))
  /\ ladder' = [ladder EXCEPT ![a] = AfterSkip(a, @)]
  /\ UNCHANGED <<vars, autoBid, jobs, aborts>>

LadderRung(a) ==
  /\ Running(a)
  /\ Going(a, ladder[a])
  /\ ~Short(a, ladder[a], Challenger(a, ladder[a]))
  /\ ladder' = [ladder EXCEPT ![a] = AfterRung(a, @)]
  /\ UNCHANGED <<vars, autoBid, jobs, aborts>>

\* The transaction commits: its rows, wallets, deactivations and price.
LadderCommit(a) ==
  /\ Running(a)
  /\ ~Going(a, ladder[a])
  /\ acct'    = [u \in Users |-> IF u \in Involved(a) THEN ladder[a].acct[u] ELSE acct[u]]
  /\ bids'    = [bids EXCEPT ![a] = ladder[a].rows]
  /\ price'   = [price EXCEPT ![a] = ladder[a].cur]
  /\ autoBid' = [autoBid EXCEPT ![a] = [u \in Users |->
                   IF u \in ladder[a].off THEN [@[u] EXCEPT !.active = FALSE] ELSE @[u]]]
  /\ ladder'  = [ladder EXCEPT ![a] = NoLadder]
  /\ UNCHANGED <<terms, status, expired, winner, winnerBid, settlement, starting,
                 drops, endJob, closing, faults, jobs, aborts>>

\* The transaction fails or its worker dies: it rolls back and the job is retried.
LadderAbort(a) ==
  /\ Running(a)
  /\ aborts < MaxAborts
  /\ aborts' = aborts + 1
  /\ jobs'   = [jobs EXCEPT ![a][ladder[a].trigger] = @ + 1]
  /\ ladder' = [ladder EXCEPT ![a] = NoLadder]
  /\ UNCHANGED <<vars, autoBid>>

\* The enqueue after a commit fails; the error is logged.
JobLost(a, t) ==
  /\ jobs[a][t] > 0
  /\ aborts < MaxAborts
  /\ aborts' = aborts + 1
  /\ jobs'   = [jobs EXCEPT ![a][t] = @ - 1]
  /\ UNCHANGED <<vars, autoBid, ladder>>

-----------------------------------------------------------------------------
ProxyInit ==
  /\ Init
  /\ autoBid = [a \in Auctions |-> [u \in Users |-> NoAutoBid]]
  /\ jobs    = [a \in Auctions |-> [u \in Users |-> 0]]
  /\ ladder  = [a \in Auctions |-> NoLadder]
  /\ aborts  = 0

LadderStep(a) == LadderSkip(a) \/ LadderRung(a) \/ LadderCommit(a)

ProxyNext ==
  \/ CoreStep
  \/ \E a \in Auctions :
       \/ \E u \in Users :
            \/ \E limit \in Limits : SetAutoBid(a, u, limit)
            \/ CancelAutoBid(a, u)
            \/ LadderBegin(a, u)
            \/ LadderReturns(a, u)
            \/ JobLost(a, u)
       \/ LadderStep(a)
       \/ LadderAbort(a)

ProxySpec == ProxyInit /\ [][ProxyNext]_allVars

\* A transaction that has begun goes on, and a free worker takes a queued job.
ProxyFairness ==
  \A a \in Auctions :
    /\ WF_allVars(LadderStep(a))
    /\ \A t \in Users : WF_allVars(LadderBegin(a, t) \/ LadderReturns(a, t))

FairProxySpec == ProxySpec /\ ProxyFairness
=============================================================================
