----------------------------- MODULE Timetable -----------------------------
(***************************************************************************)
(* When an auction opens, gets cheaper, is extended and closes: the        *)
(* createAuction handler and the jobs it leaves in the queues, the start-  *)
(* auction, drop-price and end-auction jobs, anti-sniping, ladders that    *)
(* outbid without it, auto-accept targets of Dutch auctions, and the       *)
(* reconciliation at start-up.  One auction, integer time; other auctions  *)
(* only delay its jobs, and a job may run at any time from its due time    *)
(* on.                                                                     *)
(*                                                                         *)
(* Money and the choice of a winner are those of AuctionHouse; here only   *)
(* the status, the price and the times of the row matter, and a direct     *)
(* purchase, which ends an auction at once, is left out.  A handler is     *)
(* split where it awaits: between two of its steps anything may happen.    *)
(***************************************************************************)
EXTENDS Integers

CONSTANTS
  Listings,      \* what sellers ask createAuction for
  Bidders,
  NoBidder,      \* the null winnerId
  Purse,         \* [Bidders -> what a bidder has available]
  Targets,       \* [Bidders -> the auto-accept targets that a bidder sets]
  MaxPrice,      \* bound: English bids go no higher
  Horizon,       \* bound: the last instant; later due times count as this one
  MaxFaults      \* bound: crashes of the server

\* start = 0: begin now.  end = 0: not given.  reserve = 0: the column is null.
Listing == [type: {"ENGLISH", "DUTCH"}, price: Nat \ {0}, reserve: Nat, step: Nat \ {0},
            interval: Nat \ {0}, start: Nat, end: Nat, snipe: Nat]

ASSUME ListingsAssumption == Listings \subseteq Listing
ASSUME PurseAssumption    == Purse \in [Bidders -> Nat] /\ Targets \in [Bidders -> SUBSET (Nat \ {0})]
ASSUME NoBidderAssumption == NoBidder \notin Bidders
ASSUME TimesAssumption    == Horizon \in Nat \ {0} /\ MaxPrice \in Nat
\* A job that stalls a second time is failed (maxStalledCount: 1), so the model,
\* which always delivers it again, has at most one crash.
ASSUME FaultsAssumption   == MaxFaults \in {0, 1}

VARIABLES
  now,
  listing,       \* the request, with start and end as the controller resolved them
  auction,       \* the auctions row: status, end, price, winner; what the buyer
                 \* paid, when it opened and when it was last bid on by hand
  create,        \* where the createAuction handler stands
  jobs,          \* due times of the queued jobs, 0 for none, and whether a
                 \* stalled drop-price job waits to be run again
  starting,      \* where the start-auction job stands
  dropping,      \* where the drop-price job stands, its price and its candidates
  armed,         \* auto_bids: the active target of each bidder, 0 for none
  arming,        \* targets that setAutoBid has validated and not yet written
  up,            \* is the server process running?
  reconciled,    \* has reconcileDutchAuctions run since the start?
  faults

vars == <<now, listing, auction, create, jobs, starting, dropping, armed, arming,
          up, reconciled, faults>>

Dutch   == listing.type = "DUTCH"
English == listing.type = "ENGLISH"
Closed  == auction.status \in {"ENDED", "CANCELLED"}

CeilDiv(a, b) == (a + b - 1) \div b
Clip(t)       == IF t < Horizon THEN t ELSE Horizon

Idle == [step |-> "idle", price |-> 0, asked |-> {}]

-----------------------------------------------------------------------------
(* createAuction: the row, then its jobs                                   *)

\* A Dutch auction without an end lasts as long as its price needs to the floor.
ResolvedEnd(l, start) ==
  IF l.type = "DUTCH" /\ l.end = 0
  THEN start + CeilDiv(l.price - l.reserve, l.step) * l.interval
  ELSE l.end

StoreAuction(l) ==
  LET start == IF l.start = 0 THEN now ELSE l.start
      end   == ResolvedEnd(l, start)
  IN  /\ up
      /\ create = "none"
      /\ start < end
      /\ listing' = [l EXCEPT !.start = start, !.end = end]
      /\ auction' = [status |-> IF start <= now THEN "ACTIVE" ELSE "PENDING",
                     end |-> end, price |-> l.price, winner |-> NoBidder, paid |-> 0,
                     opened |-> now, lastBid |-> 0]
      /\ create' = "stored"
      /\ UNCHANGED <<now, jobs, starting, dropping, armed, arming, up, reconciled, faults>>

\* When the first drop of a repeatable job added now is due: BullMQ aligns
\* `every' to multiples of the interval, so within one interval.
FirstSlots == {Clip(now + d) : d \in 1..listing.interval}

\* Adding a repeatable job that exists already, put back by the reconciliation, say,
\* changes nothing.
AddClock(slot) == IF jobs.drop = 0 THEN slot ELSE jobs.drop

\* Both delays are computed from one instant, later than the one that decided
\* between ACTIVE and PENDING.
ScheduleStart ==
  /\ up
  /\ create = "stored"
  /\ \/ /\ listing.start > now
        /\ jobs' = [jobs EXCEPT !.start = Clip(listing.start)]
     \/ /\ listing.start <= now /\ Dutch
        /\ \E slot \in FirstSlots : jobs' = [jobs EXCEPT !.drop = AddClock(slot)]
     \/ /\ listing.start <= now /\ English
        /\ UNCHANGED jobs
  /\ create' = IF listing.end > now THEN "timed" ELSE "done"
  /\ UNCHANGED <<now, listing, auction, starting, dropping, armed, arming, up,
                 reconciled, faults>>

ScheduleEnd ==
  /\ up
  /\ create = "timed"
  /\ jobs'   = [jobs EXCEPT !.end = Clip(listing.end)]
  /\ create' = "done"
  /\ UNCHANGED <<now, listing, auction, starting, dropping, armed, arming, up,
                 reconciled, faults>>

-----------------------------------------------------------------------------
(* The auction-scheduler worker: one job at a time                         *)

ReadPending ==
  /\ up
  /\ starting = "idle"
  /\ jobs.start # 0 /\ now >= jobs.start
  /\ \/ /\ auction.status = "PENDING"
        /\ starting' = "read"
        /\ UNCHANGED jobs
     \/ /\ auction.status # "PENDING"
        /\ jobs' = [jobs EXCEPT !.start = 0]
        /\ UNCHANGED starting
  /\ UNCHANGED <<now, listing, auction, create, dropping, armed, arming, up,
                 reconciled, faults>>

\* Unconditional: a cancellation since the read is overwritten.
WriteActive ==
  /\ up
  /\ starting = "read"
  /\ auction'  = [auction EXCEPT !.status = "ACTIVE", !.opened = now]
  /\ starting' = IF Dutch THEN "written" ELSE "idle"
  /\ jobs'     = IF Dutch THEN jobs ELSE [jobs EXCEPT !.start = 0]
  /\ UNCHANGED <<now, listing, create, dropping, armed, arming, up, reconciled, faults>>

StartClock ==
  /\ up
  /\ starting = "written"
  /\ \E slot \in FirstSlots :
       jobs' = [jobs EXCEPT !.start = 0, !.drop = AddClock(slot)]
  /\ starting' = "idle"
  /\ UNCHANGED <<now, listing, auction, create, dropping, armed, arming, up,
                 reconciled, faults>>

\* endAuction: the transaction of its determination.  Whatever is not ENDED ends.
EndAuction(a) == [a EXCEPT !.status = "ENDED"]

RunEndJob ==
  /\ up
  /\ starting = "idle"
  /\ jobs.end # 0 /\ now >= jobs.end
  /\ auction' = EndAuction(auction)
  /\ jobs'    = [jobs EXCEPT !.end = 0]
  /\ UNCHANGED <<now, listing, create, starting, dropping, armed, arming, up,
                 reconciled, faults>>

-----------------------------------------------------------------------------
(* The dutch-auction worker: drop-price                                    *)

\* Mutations: the status is not looked at; the reserve itself counts as below it; the
\* repeatable job does not move on.
DroppableAlways == TRUE
AtFloorEarly(p) == p <= 0 \/ (listing.reserve # 0 /\ p <= listing.reserve)
NextSlotAtOnce  == Clip(now)

Droppable == auction.status = "ACTIVE"

Dropped == IF auction.price < listing.step THEN 0 ELSE auction.price - listing.step

\* A price at which the auction ends unsold.
AtFloor(p) == p <= 0 \/ (listing.reserve # 0 /\ p < listing.reserve)

\* Slots that went by unnoticed are not made up for.
NextSlot ==
  Clip(CHOOSE t \in (now + 1)..(now + listing.interval) :
         (t - jobs.drop) % listing.interval = 0)

\* The job is taken: the row is read without a lock and the next price computed.
TakeDrop ==
  /\ up
  /\ dropping.step = "idle"
  /\ \/ /\ jobs.drop # 0 /\ now >= jobs.drop
        /\ jobs' = [jobs EXCEPT !.drop = NextSlot]
     \/ /\ jobs.redrop
        /\ jobs' = [jobs EXCEPT !.redrop = FALSE]
  /\ dropping' = IF ~Droppable THEN Idle
                 ELSE [Idle EXCEPT !.step = IF AtFloor(Dropped) THEN "end" ELSE "write",
                                   !.price = Dropped]
  /\ UNCHANGED <<now, listing, auction, create, starting, armed, arming, up,
                 reconciled, faults>>

EndAtFloor ==
  /\ up
  /\ dropping.step = "end"
  /\ auction'  = EndAuction(auction)
  /\ dropping' = Idle
  /\ UNCHANGED <<now, listing, create, jobs, starting, armed, arming, up, reconciled, faults>>

\* Unconditional: also after somebody has accepted the price that was read.
WritePrice ==
  /\ up
  /\ dropping.step = "write"
  /\ auction'  = [auction EXCEPT !.price = dropping.price]
  /\ dropping' = [dropping EXCEPT !.step = "match"]
  /\ UNCHANGED <<now, listing, create, jobs, starting, armed, arming, up, reconciled, faults>>

Matching(p) == {u \in Bidders : armed[u] # 0 /\ armed[u] >= p}

MatchTargets ==
  /\ up
  /\ dropping.step = "match"
  /\ dropping' = [dropping EXCEPT !.step = "offer",
                                  !.asked = {<<u, armed[u]>> : u \in Matching(dropping.price)}]
  /\ UNCHANGED <<now, listing, auction, create, jobs, starting, armed, arming, up,
                 reconciled, faults>>

\* What placeBid demands of an acceptance at price p.
CanAccept(u, p) ==
  /\ auction.status = "ACTIVE"
  /\ now <= auction.end
  /\ p = auction.price
  /\ Purse[u] >= p

Accept(u, p) ==
  auction' = [auction EXCEPT !.status = "ENDED", !.winner = u, !.paid = p]

\* The highest target is served first.  A target whose bid fails is switched off.
OfferToTarget(u) ==
  LET p == dropping.price
      \* u's entry, if no other has a higher target
      first == {t \in dropping.asked : t[1] = u /\ \A o \in dropping.asked : o[2] <= t[2]}
  IN  /\ up
      /\ dropping.step = "offer"
      /\ first # {}
      /\ \/ /\ CanAccept(u, p)
            /\ Accept(u, p)
            /\ dropping' = Idle
            /\ UNCHANGED armed
         \/ /\ ~CanAccept(u, p)
            /\ armed'    = [armed EXCEPT ![u] = 0]
            /\ dropping' = [dropping EXCEPT !.asked = @ \ first]
            /\ UNCHANGED auction
      /\ UNCHANGED <<now, listing, create, jobs, starting, arming, up, reconciled, faults>>

\* Nobody accepted: the new price is announced.
NobodyAccepts ==
  /\ up
  /\ dropping.step = "offer"
  /\ dropping.asked = {}
  /\ dropping' = Idle
  /\ UNCHANGED <<now, listing, auction, create, jobs, starting, armed, arming, up,
                 reconciled, faults>>

-----------------------------------------------------------------------------
(* Bidders and the seller                                                  *)

AcceptByHand(u) ==
  /\ up
  /\ Dutch
  /\ CanAccept(u, auction.price)
  /\ Accept(u, auction.price)
  /\ UNCHANGED <<now, listing, create, jobs, starting, dropping, armed, arming, up,
                 reconciled, faults>>

\* Mutation: the window is added to the end, as the book has it (chapter 4).
ExtendedFromEnd ==
  IF listing.snipe > 0 /\ now >= auction.end - listing.snipe
  THEN auction.end + listing.snipe ELSE auction.end

\* Anti-sniping: a bid in the last antiSnipingMins moves the end to that long
\* from now.  The queued end-auction job keeps its time.
Extended ==
  IF listing.snipe > 0 /\ now >= auction.end - listing.snipe
  THEN now + listing.snipe ELSE auction.end

BidEnglish ==
  /\ up
  /\ English
  /\ auction.status = "ACTIVE"
  /\ now <= auction.end
  /\ auction.price < MaxPrice
  /\ auction' = [auction EXCEPT !.price = @ + 1, !.end = Extended, !.lastBid = now]
  /\ UNCHANGED <<now, listing, create, jobs, starting, dropping, armed, arming, up,
                 reconciled, faults>>

\* processAutoBidLadder, queued by a bid or by setAutoBid and run whenever the worker
\* comes to it: one transaction under the lock of the auction, whose rungs raise the price
\* and outbid without extending the auction.
RunLadder ==
  /\ up
  /\ English
  /\ auction.status = "ACTIVE"
  /\ now <= auction.end
  /\ \E p \in (auction.price + 1)..MaxPrice : auction' = [auction EXCEPT !.price = p]
  /\ UNCHANGED <<now, listing, create, jobs, starting, dropping, armed, arming, up,
                 reconciled, faults>>

\* setAutoBid on a Dutch auction: plain reads ...
ReadForTarget(u, target) ==
  /\ up
  /\ Dutch
  /\ auction.status = "ACTIVE"
  /\ arming[u] = 0
  /\ target < auction.price
  /\ listing.reserve = 0 \/ target >= listing.reserve
  /\ Purse[u] >= target
  /\ arming' = [arming EXCEPT ![u] = target]
  /\ UNCHANGED <<now, listing, auction, create, jobs, starting, dropping, armed, up,
                 reconciled, faults>>

\* ... then the upsert, whatever has happened since.
WriteTarget(u) ==
  /\ up
  /\ arming[u] # 0
  /\ armed'  = [armed EXCEPT ![u] = arming[u]]
  /\ arming' = [arming EXCEPT ![u] = 0]
  /\ UNCHANGED <<now, listing, auction, create, jobs, starting, dropping, up,
                 reconciled, faults>>

CancelTarget(u) ==
  /\ up
  /\ armed[u] # 0
  /\ armed' = [armed EXCEPT ![u] = 0]
  /\ UNCHANGED <<now, listing, auction, create, jobs, starting, dropping, arming, up,
                 reconciled, faults>>

CancelAuction ==
  /\ up
  /\ auction.status \in {"PENDING", "ACTIVE"}
  /\ auction' = [auction EXCEPT !.status = "CANCELLED"]
  /\ UNCHANGED <<now, listing, create, jobs, starting, dropping, armed, arming, up,
                 reconciled, faults>>

-----------------------------------------------------------------------------
(* The process and the clock                                               *)

\* The handlers in progress are gone; jobs in progress stall and are delivered
\* again: the start-auction job is still in `jobs'.
Crash ==
  /\ up
  /\ faults < MaxFaults
  /\ up'       = FALSE
  /\ faults'   = faults + 1
  /\ create'   = IF create \in {"stored", "timed"} THEN "lost" ELSE create
  /\ starting' = "idle"
  /\ jobs'     = [jobs EXCEPT !.redrop = @ \/ dropping.step # "idle"]
  /\ dropping' = Idle
  /\ arming'   = [u \in Bidders |-> 0]
  /\ UNCHANGED <<now, listing, auction, armed, reconciled>>

Restart ==
  /\ ~up
  /\ up' = TRUE
  /\ reconciled' = FALSE
  /\ UNCHANGED <<now, listing, auction, create, jobs, starting, dropping, armed, arming, faults>>

\* Mutation: nothing is reconciled.
NeedsClockNever == FALSE

NeedsClock == Dutch /\ auction.status = "ACTIVE" /\ jobs.drop = 0

\* reconcileDutchAuctions, in the background of the start-up.
Reconcile ==
  /\ up
  /\ ~reconciled
  /\ reconciled' = TRUE
  /\ \/ /\ NeedsClock
        /\ \E slot \in FirstSlots : jobs' = [jobs EXCEPT !.drop = slot]
     \/ /\ ~NeedsClock
        /\ UNCHANGED jobs
  /\ UNCHANGED <<now, listing, auction, create, starting, dropping, armed, arming, up, faults>>

Tick ==
  /\ now < Horizon
  /\ now' = now + 1
  /\ UNCHANGED <<listing, auction, create, jobs, starting, dropping, armed, arming, up,
                 reconciled, faults>>

Init ==
  /\ now = 1
  /\ listing \in Listings
  /\ auction = [status |-> "NONE", end |-> 0, price |-> 0, winner |-> NoBidder, paid |-> 0,
                opened |-> 0, lastBid |-> 0]
  /\ create     = "none"
  /\ jobs       = [start |-> 0, end |-> 0, drop |-> 0, redrop |-> FALSE]
  /\ starting   = "idle"
  /\ dropping   = Idle
  /\ armed      = [u \in Bidders |-> 0]
  /\ arming     = [u \in Bidders |-> 0]
  /\ up         = TRUE
  /\ reconciled = TRUE
  /\ faults     = 0

Handler == ScheduleStart \/ ScheduleEnd
Scheduler == ReadPending \/ WriteActive \/ StartClock \/ RunEndJob
Dropper ==
  \/ TakeDrop \/ EndAtFloor \/ WritePrice \/ MatchTargets \/ NobodyAccepts
  \/ \E u \in Bidders : OfferToTarget(u)
People ==
  \/ StoreAuction(listing) \/ BidEnglish \/ RunLadder \/ CancelAuction
  \/ \E u \in Bidders :
       AcceptByHand(u) \/ WriteTarget(u) \/ CancelTarget(u)
         \/ \E target \in Targets[u] : ReadForTarget(u, target)

Next == Handler \/ Scheduler \/ Dropper \/ People \/ Crash \/ Restart \/ Reconcile \/ Tick

Spec == Init /\ [][Next]_vars

\* Handlers and workers go on, a server that died is started again, time passes.
Fairness ==
  /\ WF_vars(Handler) /\ WF_vars(Scheduler) /\ WF_vars(Dropper)
  /\ WF_vars(Restart) /\ WF_vars(Reconcile) /\ WF_vars(Tick)

FairSpec == Spec /\ Fairness
=============================================================================
