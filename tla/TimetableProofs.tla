-------------------------- MODULE TimetableProofs --------------------------
(***************************************************************************)
(* What the timetable guarantees, for all listings, bidders, purses and    *)
(* targets and however many times the server dies.                         *)
(***************************************************************************)
EXTENDS TimetableProperties, TLAPS

-----------------------------------------------------------------------------
(* Arithmetic of intervals                                                 *)

\* Division with remainder, for any divisor.
LEMMA Division ==
  ASSUME NEW a \in Int, NEW m \in Nat \ {0}
  PROVE  /\ a \div m \in Int
         /\ a % m \in 0..(m - 1)
         /\ a = m * (a \div m) + (a % m)
BY Z3

\* What m goes n times into is at least n when divided by m.
LEMMA AtLeastTimes ==
  ASSUME NEW a \in Int, NEW m \in Nat \ {0}, NEW n \in Int, n * m <= a
  PROVE  n <= a \div m
<1> DEFINE q == a \div m
<1>1. q \in Int /\ a < m * (q + 1)
  BY Division
<1> HIDE DEF q
<1>2. SUFFICES ASSUME q + 1 <= n PROVE FALSE
  BY <1>1 DEF q
<1>3. m * (q + 1) <= m * n
  BY <1>1, <1>2
<1> QED
  BY <1>1, <1>3

\* In any m instants in a row there is one on a grid of distance m.
LEMMA GridPoint ==
  ASSUME NEW a \in Int, NEW m \in Nat \ {0}
  PROVE  \E d \in 1..m : (a + d) % m = 0
<1> DEFINE q == a \div m
           d == m - (a % m)
<1>1. q \in Int /\ d \in 1..m /\ a + d = m * (q + 1)
  BY Division
<1>2. (m * (q + 1)) % m = 0
  BY <1>1
<1> QED
  BY <1>1, <1>2

-----------------------------------------------------------------------------
(* Type correctness                                                        *)

\* A due time beyond the horizon counts as the horizon.
LEMMA Clipped ==
  ASSUME NEW t \in Nat
  PROVE  Clip(t) \in Times /\ Clip(t) <= t /\ (t > 0 => Clip(t) > 0)
BY TimesAssumption DEF Clip, Times

\* The instants that BullMQ may choose for the first drop.
LEMMA FirstSlotTyped ==
  ASSUME TimetableTypeOK, NEW slot \in FirstSlots
  PROVE  slot \in Times /\ slot # 0 /\ \E d \in Nat \ {0} : slot = Clip(now + d)
<1>1. PICK d \in 1..listing.interval : slot = Clip(now + d)
  BY DEF FirstSlots
<1>2. d \in Nat \ {0} /\ now + d \in Nat /\ now + d > 0
  BY DEF TimetableTypeOK, Listing
<1> QED
  BY <1>1, <1>2, Clipped DEF Times

\* The repeatable job moves to a later instant of its grid, an interval further at
\* least (BullMQ, repeat.every).
LEMMA NextSlotTyped ==
  ASSUME TimetableTypeOK, now >= jobs.drop
  PROVE  \E t \in Nat : /\ NextSlot = Clip(t)
                        /\ t > now
                        /\ t >= jobs.drop + listing.interval
<1> DEFINE m == listing.interval
           OnGrid(t) == (t - jobs.drop) % m = 0
           next == CHOOSE t \in (now + 1)..(now + m) : OnGrid(t)
<1>1. m \in Nat \ {0} /\ now \in Nat /\ jobs.drop \in Nat
  BY DEF TimetableTypeOK, Listing, Times
<1>2. PICK d \in 1..m : ((now - jobs.drop) + d) % m = 0
  <2> DEFINE a == now - jobs.drop
  <2>1. a \in Int
    BY <1>1
  <2> HIDE DEF a, m
  <2>2. \E d \in 1..m : (a + d) % m = 0
    BY <1>1, <2>1, GridPoint
  <2> QED
    BY <2>2 DEF a
<1>3. \E t \in (now + 1)..(now + m) : OnGrid(t)
  <2>1. now + d \in (now + 1)..(now + m) /\ (now + d) - jobs.drop = (now - jobs.drop) + d
    BY <1>1
  <2> QED
    BY <1>2, <2>1
<1>4. next \in (now + 1)..(now + m) /\ OnGrid(next)
  BY <1>3
<1>5. NextSlot = Clip(next)
  BY DEF NextSlot
<1> HIDE DEF next, m
<1>6. next \in Nat /\ next > now /\ next - jobs.drop \in Nat \ {0}
  BY <1>1, <1>4
<1>7. next - jobs.drop >= m
  <2> DEFINE a == next - jobs.drop
             q == a \div m
  <2>1. a \in Nat \ {0} /\ a % m = 0
    BY <1>4, <1>6
  <2> HIDE DEF a
  <2>2. q \in Int /\ a = m * q
    BY <1>1, <2>1, Division
  <2> HIDE DEF q
  <2>3. q >= 1
    BY <1>1, <2>1, <2>2
  <2>4. m * q >= m
    BY <1>1, <2>2, <2>3
  <2> QED
    BY <2>2, <2>4 DEF a
<1> QED
  BY <1>1, <1>5, <1>6, <1>7 DEF m

\* What the controller makes of a request is again a listing.
LEMMA StoredTyped ==
  ASSUME TimetableTypeOK, StoreAuction(listing)
  PROVE  TimetableTypeOK'
<1> DEFINE start == IF listing.start = 0 THEN now ELSE listing.start
           end   == ResolvedEnd(listing, start)
<1>1. listing \in Listing /\ now \in 1..Horizon
  BY DEF TimetableTypeOK
<1>2. start \in Nat
  BY <1>1 DEF Listing
<1>3. end \in Int
  <2>1. (listing.price - listing.reserve) + listing.step - 1 \in Int
    BY <1>1 DEF Listing
  <2>2. CeilDiv(listing.price - listing.reserve, listing.step) \in Int
    BY <1>1, <2>1, Division DEF CeilDiv, Listing
  <2>3. start + CeilDiv(listing.price - listing.reserve, listing.step) * listing.interval \in Int
    BY <1>1, <1>2, <2>2 DEF Listing
  <2> QED
    BY <1>1, <2>3 DEF ResolvedEnd, Listing
<1>4. /\ start < end
      /\ listing' = [listing EXCEPT !.start = start, !.end = end]
      /\ auction' = [status |-> IF start <= now THEN "ACTIVE" ELSE "PENDING",
                     end |-> end, price |-> listing.price, winner |-> NoBidder, paid |-> 0,
                     opened |-> now, lastBid |-> 0]
  BY DEF StoreAuction
<1> HIDE DEF start, end
<1>5. end \in Nat
  BY <1>2, <1>3, <1>4
<1>6. listing' \in Listing
  BY <1>1, <1>2, <1>4, <1>5 DEF Listing
<1>7. auction'.status \in {"ACTIVE", "PENDING"} /\ now \in Times /\ 0 \in Times
  BY <1>1, <1>4, TimesAssumption DEF Times
<1> QED
  BY <1>1, <1>4, <1>5, <1>6, <1>7 DEF StoreAuction, TimetableTypeOK, Listing

\* The queues and the handlers keep their types.
LEMMA HandlersTyped ==
  ASSUME TimetableTypeOK, Handler \/ Scheduler \/ Reconcile
  PROVE  TimetableTypeOK'
<1>1. /\ now \in 1..Horizon /\ listing \in Listing /\ listing.end \in Nat /\ listing.start \in Nat
      /\ jobs \in [start: Times, end: Times, drop: Times, redrop: BOOLEAN]
      /\ 0 \in Times /\ now \in Times
      /\ \A slot \in FirstSlots : slot \in Times /\ AddClock(slot) \in Times
  BY FirstSlotTyped, TimesAssumption DEF TimetableTypeOK, Times, Listing, AddClock
<1>2. CASE ScheduleStart
  <2>1. Clip(listing.start) \in Times
    BY <1>1, Clipped
  <2> QED
    BY <1>1, <1>2, <2>1 DEF ScheduleStart, TimetableTypeOK
<1>3. CASE ScheduleEnd
  <2>1. Clip(listing.end) \in Times
    BY <1>1, Clipped
  <2> QED
    BY <1>1, <1>3, <2>1 DEF ScheduleEnd, TimetableTypeOK
<1>4. CASE ReadPending
  BY <1>1, <1>4 DEF ReadPending, TimetableTypeOK
<1>5. CASE WriteActive
  BY <1>1, <1>5 DEF WriteActive, TimetableTypeOK
<1>6. CASE StartClock
  <2>1. PICK slot \in FirstSlots : jobs' = [jobs EXCEPT !.start = 0, !.drop = AddClock(slot)]
    BY <1>6 DEF StartClock
  <2> QED
    BY <1>1, <1>6, <2>1 DEF StartClock, TimetableTypeOK
<1>7. CASE RunEndJob
  BY <1>1, <1>7 DEF RunEndJob, EndAuction, TimetableTypeOK
<1>8. CASE Reconcile
  BY <1>1, <1>8 DEF Reconcile, TimetableTypeOK
<1> QED
  BY <1>2, <1>3, <1>4, <1>5, <1>6, <1>7, <1>8 DEF Handler, Scheduler

\* So does the drop-price job.
LEMMA DropperTyped ==
  ASSUME TimetableTypeOK, Dropper
  PROVE  TimetableTypeOK'
<1> DEFINE Dropping == [step: {"idle", "end", "write", "match", "offer"}, price: Nat,
                        asked: SUBSET (Bidders \X Nat)]
<1>1. /\ now \in 1..Horizon /\ auction.price \in Nat /\ listing.step \in Nat \ {0}
      /\ jobs \in [start: Times, end: Times, drop: Times, redrop: BOOLEAN]
      /\ dropping \in Dropping /\ Idle \in Dropping /\ Idle.asked = {}
  BY DEF TimetableTypeOK, Listing, Idle
<1>2. CASE TakeDrop
  <2>1. jobs' \in [start: Times, end: Times, drop: Times, redrop: BOOLEAN]
    <3>1. CASE now >= jobs.drop /\ jobs' = [jobs EXCEPT !.drop = NextSlot]
      <4>1. NextSlot \in Times
        BY <3>1, NextSlotTyped, Clipped
      <4> QED
        BY <1>1, <3>1, <4>1
    <3>2. CASE jobs' = [jobs EXCEPT !.redrop = FALSE]
      BY <1>1, <3>2
    <3> QED
      BY <1>2, <3>1, <3>2 DEF TakeDrop
  <2>2. dropping' \in Dropping /\ dropping'.asked = {}
    <3>1. Dropped \in Nat
      BY <1>1 DEF Dropped
    <3> QED
      BY <1>2, <3>1 DEF TakeDrop, Idle
  <2> QED
    BY <1>2, <2>1, <2>2 DEF TakeDrop, TimetableTypeOK
<1>3. CASE EndAtFloor
  BY <1>1, <1>3 DEF EndAtFloor, EndAuction, TimetableTypeOK
<1>4. CASE WritePrice
  BY <1>1, <1>4 DEF WritePrice, TimetableTypeOK
<1>5. CASE MatchTargets
  <2> DEFINE matching == {<<u, armed[u]>> : u \in Matching(dropping.price)}
  <2>1. matching \subseteq Bidders \X Nat /\ \A t \in matching : t[2] \in Targets[t[1]]
    BY DEF TimetableTypeOK, Matching
  <2> HIDE DEF matching
  <2>2. dropping' = [dropping EXCEPT !.step = "offer", !.asked = matching]
    BY <1>5 DEF MatchTargets, matching
  <2> QED
    BY <1>1, <1>5, <2>1, <2>2 DEF MatchTargets, TimetableTypeOK
<1>6. CASE NobodyAccepts
  BY <1>1, <1>6 DEF NobodyAccepts, TimetableTypeOK
<1>7. ASSUME NEW u \in Bidders, OfferToTarget(u)
      PROVE  TimetableTypeOK'
  <2> DEFINE first == {t \in dropping.asked : t[1] = u /\ \A o \in dropping.asked : o[2] <= t[2]}
  <2>1. CASE dropping' = Idle /\ UNCHANGED armed /\ Accept(u, dropping.price)
    BY <1>1, <1>7, <2>1 DEF OfferToTarget, Accept, TimetableTypeOK
  <2>2. CASE /\ armed'    = [armed EXCEPT ![u] = 0]
             /\ dropping' = [dropping EXCEPT !.asked = @ \ first]
             /\ UNCHANGED auction
    <3>1. dropping' \in Dropping /\ dropping'.asked \subseteq dropping.asked
      BY <1>1, <2>2
    <3>2. armed' \in [Bidders -> Nat] /\ \A v \in Bidders : armed'[v] \in Targets[v] \cup {0}
      BY <2>2 DEF TimetableTypeOK
    <3> HIDE DEF first
    <3> QED
      BY <1>7, <2>2, <3>1, <3>2 DEF OfferToTarget, TimetableTypeOK
  <2> QED
    BY <1>7, <2>1, <2>2 DEF OfferToTarget
<1> QED
  BY <1>2, <1>3, <1>4, <1>5, <1>6, <1>7 DEF Dropper

\* And so do bidders, the seller and the process.
LEMMA PeopleTyped ==
  ASSUME TimetableTypeOK, People \/ Crash \/ Restart \/ Tick
  PROVE  TimetableTypeOK'
<1>1. /\ now \in 1..Horizon /\ now \in Times /\ auction.price \in Nat /\ auction.end \in Nat
      /\ listing.snipe \in Nat
      /\ jobs \in [start: Times, end: Times, drop: Times, redrop: BOOLEAN]
  BY DEF TimetableTypeOK, Listing, Times
<1>2. CASE BidEnglish
  <2>1. Extended \in Nat
    BY <1>1 DEF Extended
  <2>2. auction' = [auction EXCEPT !.price = auction.price + 1, !.end = Extended, !.lastBid = now]
    BY <1>2 DEF BidEnglish
  <2>3. auction.price + 1 \in Nat
    BY <1>1
  <2>4. auction' \in [status: {"NONE", "PENDING", "ACTIVE", "ENDED", "CANCELLED"}, end: Nat,
                     price: Nat, winner: Bidders \cup {NoBidder}, paid: Nat,
                     opened: Times, lastBid: Times]
    BY <1>1, <2>1, <2>2, <2>3 DEF TimetableTypeOK
  <2> QED
    BY <1>2, <2>4 DEF BidEnglish, TimetableTypeOK
<1>3. CASE CancelAuction
  BY <1>3 DEF CancelAuction, TimetableTypeOK
<1>11. CASE RunLadder
  <2>1. PICK p \in (auction.price + 1)..MaxPrice : auction' = [auction EXCEPT !.price = p]
    BY <1>11 DEF RunLadder
  <2>2. p \in Nat
    BY <1>1, TimesAssumption
  <2> QED
    BY <1>11, <2>1, <2>2 DEF RunLadder, TimetableTypeOK
<1>4. ASSUME NEW u \in Bidders, AcceptByHand(u)
      PROVE  TimetableTypeOK'
  BY <1>1, <1>4 DEF AcceptByHand, Accept, TimetableTypeOK
<1>5. ASSUME NEW u \in Bidders, WriteTarget(u)
      PROVE  TimetableTypeOK'
  BY <1>5 DEF WriteTarget, TimetableTypeOK
<1>6. ASSUME NEW u \in Bidders, CancelTarget(u)
      PROVE  TimetableTypeOK'
  BY <1>6 DEF CancelTarget, TimetableTypeOK
<1>7. ASSUME NEW u \in Bidders, NEW target \in Targets[u], ReadForTarget(u, target)
      PROVE  TimetableTypeOK'
  <2>1. target \in Nat
    BY PurseAssumption
  <2> QED
    BY <1>7, <2>1 DEF ReadForTarget, TimetableTypeOK
<1>8. CASE Crash
  <2>1. Idle \in [step: {"idle", "end", "write", "match", "offer"}, price: Nat,
                  asked: SUBSET (Bidders \X Nat)] /\ Idle.asked = {}
    BY DEF Idle
  <2>2. faults + 1 \in 0..MaxFaults
    BY <1>8, FaultsAssumption DEF Crash, TimetableTypeOK
  <2>3. (dropping.step # "idle") \in BOOLEAN
    OBVIOUS
  <2>4. jobs' \in [start: Times, end: Times, drop: Times, redrop: BOOLEAN]
    BY <1>1, <1>8 DEF Crash
  <2> QED
    BY <1>8, <2>1, <2>2, <2>4 DEF Crash, TimetableTypeOK
<1>9. CASE Restart
  BY <1>9 DEF Restart, TimetableTypeOK
<1>10. CASE Tick
  BY <1>1, <1>10, TimesAssumption DEF Tick, TimetableTypeOK
<1> QED
  BY <1>2, <1>3, <1>4, <1>5, <1>6, <1>7, <1>8, <1>9, <1>10, <1>11, StoredTyped DEF People

\* Rows, jobs and handlers are well typed at the start and after every step.
LEMMA TypedInit == Init => TimetableTypeOK
<1>1. Idle \in [step: {"idle", "end", "write", "match", "offer"}, price: Nat,
                asked: SUBSET (Bidders \X Nat)] /\ Idle.asked = {}
  BY DEF Idle
<1> QED
  BY <1>1, ListingsAssumption, TimesAssumption, FaultsAssumption
  DEF Init, TimetableTypeOK, Times

LEMMA TypedNext == TimetableTypeOK /\ [Next]_vars => TimetableTypeOK'
<1>1. TimetableTypeOK /\ UNCHANGED vars => TimetableTypeOK'
  BY DEF TimetableTypeOK, vars
<1> QED
  BY <1>1, HandlersTyped, DropperTyped, PeopleTyped DEF Next

\* Every reachable state is well typed, whatever is listed and however often the server
\* dies (createAuction, the workers, placeBid and setAutoBid on one auction).
THEOREM TimetableWellTyped == Spec => []TimetableTypeOK
BY TypedInit, TypedNext, PTL DEF Spec

-----------------------------------------------------------------------------
(* The inductive invariant                                                 *)

\* Before the row is inserted nothing is queued and nothing runs.
Unlisted ==
  /\ auction.status = "NONE" <=> create = "none"
  /\ create = "none" => /\ starting = "idle"
                        /\ jobs.start = 0 /\ jobs.end = 0 /\ jobs.drop = 0
                        /\ ~jobs.redrop

\* The start-auction job finds a PENDING row; only a cancellation comes in between.
Opening == starting = "read" => auction.status \in {"PENDING", "CANCELLED"}

\* What has not been opened has not been sold, and no price of it is being dropped.
Unopened == auction.status \in {"NONE", "PENDING"} \/ starting = "read"

UnopenedUnsold == Unopened => dropping.step = "idle" /\ auction.winner = NoBidder

\* Only Dutch auctions have a clock, and are sold by an acceptance.
DutchOnly ==
  ~Dutch => /\ jobs.drop = 0 /\ ~jobs.redrop /\ starting # "written"
            /\ dropping.step = "idle" /\ auction.winner = NoBidder

SoldEnds == auction.winner # NoBidder => auction.status = "ENDED"

EndsAsListed == jobs.end \in {0, Clip(listing.end)}

\* The price that a drop-price job carries is a step below the one it has read, also
\* when that one has been accepted meanwhile.
CarriedPrice ==
  /\ dropping.step = "write" => /\ dropping.price = auction.price - listing.step
                                /\ auction.winner # NoBidder => auction.price = auction.paid
  /\ dropping.step = "end"   => \/ auction.price <= listing.step
                                \/ auction.price - listing.step < listing.reserve

CourseInv ==
  /\ TimetableTypeOK
  /\ Unlisted /\ Opening /\ UnopenedUnsold /\ DutchOnly /\ SoldEnds
  /\ EndsAsListed /\ CarriedPrice
  /\ NeverClosedEarly /\ SoldWithinAStep

-----------------------------------------------------------------------------
(* The pace of the price                                                   *)

\* The clock is started once, when the auction is open.
ClockOnce ==
  /\ create = "stored" =>
       /\ jobs.start = 0 /\ jobs.end = 0 /\ starting = "idle"
       /\ listing.start > now => auction.status \in {"PENDING", "CANCELLED"} /\ jobs.drop = 0
  /\ (auction.status = "PENDING" /\ jobs.start # 0) \/ starting = "read" => jobs.drop = 0
  /\ starting = "written" => auction.status # "PENDING"
  /\ Dutch /\ auction.status # "NONE" /\ jobs.drop = 0 =>
       auction.price = listing.price /\ dropping.step = "idle" /\ ~jobs.redrop

\* The price once the drop under way is written.
ComingPrice == IF dropping.step = "write" THEN dropping.price ELSE auction.price

\* A drop that a crash interrupted and that has yet to run again.
Repeat == IF jobs.redrop THEN 1 ELSE 0

\* n slots of the grid went by since the auction opened, each with a drop; beyond them
\* there is one drop for each crash whose job has run again.
DropsSoFar(n) ==
  /\ listing.price - ComingPrice <= listing.step * (n + faults - Repeat)
  /\ n * listing.interval < now - auction.opened + listing.interval
  /\ jobs.drop < Horizon => n * listing.interval + auction.opened + 1 <= jobs.drop

PaceInv ==
  auction.status # "NONE" =>
    /\ auction.opened <= now
    /\ Dutch /\ jobs.drop # 0 /\ now < Horizon => \E n \in Nat : DropsSoFar(n)

-----------------------------------------------------------------------------
(* The course of an auction                                                *)

LEMMA CourseInit == Init => CourseInv
<1>1. Init => TimetableTypeOK
  BY TypedInit
<1>2. ASSUME Init PROVE Unlisted /\ Opening /\ UnopenedUnsold /\ DutchOnly /\ SoldEnds
  BY <1>2 DEF Init, Unlisted, Opening, Unopened, UnopenedUnsold, DutchOnly, SoldEnds, Idle
<1>3. ASSUME Init PROVE EndsAsListed /\ CarriedPrice /\ NeverClosedEarly
                        /\ SoldWithinAStep
  BY <1>3 DEF Init, EndsAsListed, CarriedPrice, NeverClosedEarly,
              SoldWithinAStep, Idle
<1> QED
  BY <1>1, <1>2, <1>3 DEF CourseInv

\* The row is inserted: nothing has run yet.
LEMMA StoreCourse ==
  ASSUME CourseInv, StoreAuction(listing), TimetableTypeOK'
  PROVE  CourseInv'
<1>1. /\ create = "none" /\ create' = "stored"
      /\ listing \in Listing
      /\ listing'.type = listing.type
      /\ auction'.status \in {"ACTIVE", "PENDING"}
      /\ auction'.winner = NoBidder /\ auction'.lastBid = 0
      /\ UNCHANGED <<now, jobs, starting, dropping>>
  BY DEF StoreAuction, CourseInv, TimetableTypeOK, Listing
<1>2. /\ starting = "idle" /\ jobs.end = 0 /\ jobs.drop = 0 /\ ~jobs.redrop
      /\ dropping.step = "idle"
  BY <1>1 DEF CourseInv, Unlisted, UnopenedUnsold, Unopened
<1> QED
  BY <1>1, <1>2 DEF CourseInv, Unlisted, Opening, Unopened, UnopenedUnsold, DutchOnly, Dutch,
     SoldEnds, EndsAsListed, CarriedPrice, NeverClosedEarly, SoldWithinAStep

\* The queues.
LEMMA QueueCourse ==
  ASSUME CourseInv, TimetableTypeOK',
         Handler \/ ReadPending \/ StartClock \/ Reconcile
  PROVE  CourseInv'
<1>1. /\ UNCHANGED <<now, listing, auction, dropping, armed>>
      /\ listing \in Listing
      /\ jobs \in [start: Times, end: Times, drop: Times, redrop: BOOLEAN]
  BY DEF CourseInv, TimetableTypeOK, Handler, ScheduleStart, ScheduleEnd, ReadPending,
         StartClock, Reconcile
<1>2. (Unlisted /\ Opening)'
  BY <1>1 DEF CourseInv, Handler, ScheduleStart, ScheduleEnd, ReadPending, StartClock,
              Reconcile, Unlisted, Opening, NeedsClock
<1>3. (UnopenedUnsold /\ SoldEnds /\ CarriedPrice /\ NeverClosedEarly
         /\ SoldWithinAStep)'
  BY <1>1 DEF CourseInv, Handler, ScheduleStart, ScheduleEnd, ReadPending, StartClock,
              Reconcile, UnopenedUnsold, Unopened, SoldEnds, CarriedPrice, 
              NeverClosedEarly, SoldWithinAStep, Dutch
<1>4. DutchOnly'
  BY <1>1 DEF CourseInv, Handler, ScheduleStart, ScheduleEnd, ReadPending, StartClock,
              Reconcile, DutchOnly, NeedsClock, Dutch, English, Listing
<1>5. EndsAsListed'
  BY <1>1 DEF CourseInv, Handler, ScheduleStart, ScheduleEnd, ReadPending, StartClock,
              Reconcile, EndsAsListed, Clip
<1> QED
  BY <1>2, <1>3, <1>4, <1>5 DEF CourseInv

\* The start-auction job opens what nobody has touched but the seller.
LEMMA OpenCourse ==
  ASSUME CourseInv, TimetableTypeOK', WriteActive
  PROVE  CourseInv'
<1>1. /\ starting = "read"
      /\ auction \in [status: {"NONE", "PENDING", "ACTIVE", "ENDED", "CANCELLED"}, end: Nat,
                  price: Nat, winner: Bidders \cup {NoBidder}, paid: Nat,
                  opened: Times, lastBid: Times]
      /\ auction' = [auction EXCEPT !.status = "ACTIVE", !.opened = now]
      /\ starting' = IF Dutch THEN "written" ELSE "idle"
      /\ jobs'     = IF Dutch THEN jobs ELSE [jobs EXCEPT !.start = 0]
      /\ UNCHANGED <<now, listing, create, dropping>>
      /\ jobs \in [start: Times, end: Times, drop: Times, redrop: BOOLEAN]
  BY DEF WriteActive, CourseInv, TimetableTypeOK
<1>2. auction.winner = NoBidder /\ dropping.step = "idle" /\ create # "none"
  BY <1>1 DEF CourseInv, UnopenedUnsold, Unopened, Unlisted
<1> QED
  BY <1>1, <1>2 DEF CourseInv, Unlisted, Opening, Unopened, UnopenedUnsold, DutchOnly, Dutch,
     SoldEnds, EndsAsListed, CarriedPrice, NeverClosedEarly, SoldWithinAStep,
     Clip

\* The end-auction job comes no earlier than it was queued for.
LEMMA EndCourse ==
  ASSUME CourseInv, TimetableTypeOK', RunEndJob
  PROVE  CourseInv'
<1>1. /\ starting = "idle" /\ jobs.end # 0 /\ now >= jobs.end
      /\ auction \in [status: {"NONE", "PENDING", "ACTIVE", "ENDED", "CANCELLED"}, end: Nat,
                  price: Nat, winner: Bidders \cup {NoBidder}, paid: Nat,
                  opened: Times, lastBid: Times]
      /\ auction' = [auction EXCEPT !.status = "ENDED"]
      /\ jobs'    = [jobs EXCEPT !.end = 0]
      /\ jobs \in [start: Times, end: Times, drop: Times, redrop: BOOLEAN]
      /\ UNCHANGED <<now, listing, create, starting, dropping>>
  BY DEF RunEndJob, EndAuction, CourseInv, TimetableTypeOK
<1>2. now >= Clip(listing.end) /\ create # "none"
  BY <1>1 DEF CourseInv, EndsAsListed, Unlisted
<1> QED
  BY <1>1, <1>2 DEF CourseInv, Unlisted, Opening, Unopened, UnopenedUnsold, DutchOnly, Dutch,
     SoldEnds, EndsAsListed, CarriedPrice, NeverClosedEarly, SoldWithinAStep,
     Clip

\* The drop-price job.
LEMMA DropCourse ==
  ASSUME CourseInv, TimetableTypeOK', Dropper
  PROVE  CourseInv'
<1> DEFINE Dropping == [step: {"idle", "end", "write", "match", "offer"}, price: Nat,
                        asked: SUBSET (Bidders \X Nat)]
           Row == [status: {"NONE", "PENDING", "ACTIVE", "ENDED", "CANCELLED"}, end: Nat,
                   price: Nat, winner: Bidders \cup {NoBidder}, paid: Nat,
                   opened: Times, lastBid: Times]
<1>1. /\ auction \in Row /\ dropping \in Dropping /\ listing \in Listing
      /\ jobs \in [start: Times, end: Times, drop: Times, redrop: BOOLEAN]
      /\ UNCHANGED <<now, listing, create, starting>>
      /\ Idle.step = "idle"
  BY DEF CourseInv, TimetableTypeOK, Dropper, TakeDrop, EndAtFloor, WritePrice, MatchTargets,
         NobodyAccepts, OfferToTarget, Idle
<1>2. CASE TakeDrop
  <2>1. UNCHANGED auction /\ jobs'.end = jobs.end /\ (jobs.drop # 0 \/ jobs.redrop)
    BY <1>1, <1>2 DEF TakeDrop
  <2>2. Dutch /\ create # "none"
    BY <2>1 DEF CourseInv, DutchOnly, Unlisted
  <2>3. \/ dropping'.step = "idle"
        \/ /\ auction.status = "ACTIVE"
           /\ dropping'.step = IF AtFloor(Dropped) THEN "end" ELSE "write"
           /\ dropping'.price = Dropped
    BY <1>2 DEF TakeDrop, Idle, Droppable
  <2>4. /\ AtFloor(Dropped) => \/ auction.price <= listing.step
                               \/ auction.price - listing.step < listing.reserve
        /\ ~AtFloor(Dropped) => Dropped = auction.price - listing.step
    BY <1>1 DEF AtFloor, Dropped, Listing
  <2>5. auction.status = "ACTIVE" => auction.winner = NoBidder /\ starting # "read"
    BY DEF CourseInv, SoldEnds, Opening
  <2>6. CarriedPrice'
    BY <1>1, <2>1, <2>3, <2>4, <2>5 DEF CarriedPrice
  <2> QED
    BY <1>1, <2>1, <2>2, <2>3, <2>5, <2>6 DEF CourseInv, Unlisted, Opening, Unopened,
       UnopenedUnsold, DutchOnly, Dutch, SoldEnds, EndsAsListed, 
       NeverClosedEarly, SoldWithinAStep, Clip
<1>3. CASE EndAtFloor
  <2>1. /\ dropping.step = "end" /\ dropping'.step = "idle" /\ UNCHANGED jobs
        /\ auction' = [auction EXCEPT !.status = "ENDED"]
    BY <1>1, <1>3 DEF EndAtFloor, EndAuction
  <2>2. Dutch /\ starting # "read" /\ create # "none"
    BY <2>1 DEF CourseInv, DutchOnly, UnopenedUnsold, Unopened, Unlisted
  <2> QED
    BY <1>1, <2>1, <2>2 DEF CourseInv, Unlisted, Opening, Unopened,
       UnopenedUnsold, DutchOnly, Dutch, SoldEnds, EndsAsListed, CarriedPrice, 
       NeverClosedEarly, SoldWithinAStep, Clip
<1>4. CASE WritePrice
  <2>1. /\ dropping.step = "write" /\ dropping' = [dropping EXCEPT !.step = "match"]
        /\ UNCHANGED jobs
        /\ auction' = [auction EXCEPT !.price = dropping.price]
    BY <1>1, <1>4 DEF WritePrice
  <2>2. /\ Dutch /\ starting # "read"
        /\ dropping.price = auction.price - listing.step
        /\ auction.winner # NoBidder => auction.price = auction.paid
    BY <2>1 DEF CourseInv, DutchOnly, UnopenedUnsold, Unopened, CarriedPrice
  <2>3. NeverClosedEarly'
    BY <1>1, <2>1, <2>2 DEF CourseInv, NeverClosedEarly, Dutch, Listing, Clip
  <2> QED
    BY <1>1, <2>1, <2>2, <2>3 DEF CourseInv, Unlisted, Opening, Unopened,
       UnopenedUnsold, DutchOnly, Dutch, SoldEnds, EndsAsListed, CarriedPrice, 
       SoldWithinAStep, Clip
<1>5. CASE MatchTargets \/ NobodyAccepts
  <2>1. /\ dropping.step \in {"match", "offer"} /\ dropping'.step \in {"idle", "offer"}
        /\ UNCHANGED <<jobs, auction>>
    BY <1>1, <1>5 DEF MatchTargets, NobodyAccepts
  <2> QED
    BY <1>1, <2>1 DEF CourseInv, Unlisted, Opening, Unopened,
       UnopenedUnsold, DutchOnly, Dutch, SoldEnds, EndsAsListed, CarriedPrice, 
       NeverClosedEarly, SoldWithinAStep, Clip
<1>6. ASSUME NEW u \in Bidders, OfferToTarget(u)
      PROVE  CourseInv'
  <2>1. /\ dropping.step = "offer" /\ dropping'.step \in {"idle", "offer"}
        /\ UNCHANGED jobs
        /\ \/ UNCHANGED auction
           \/ /\ auction.status = "ACTIVE" /\ dropping.price = auction.price
              /\ auction' = [auction EXCEPT !.status = "ENDED", !.winner = u,
                                            !.paid = dropping.price]
    BY <1>1, <1>6 DEF OfferToTarget, CanAccept, Accept
  <2>2. Dutch /\ starting # "read" /\ u # NoBidder
    BY <2>1, NoBidderAssumption DEF CourseInv, DutchOnly, UnopenedUnsold, Unopened
  <2> QED
    BY <1>1, <2>1, <2>2 DEF CourseInv, Unlisted, Opening, Unopened,
       UnopenedUnsold, DutchOnly, Dutch, SoldEnds, EndsAsListed, CarriedPrice, 
       NeverClosedEarly, SoldWithinAStep, Clip
<1> QED
  BY <1>2, <1>3, <1>4, <1>5, <1>6 DEF Dropper

\* Bidders, the seller, crashes and the clock.
LEMMA PeopleCourse ==
  ASSUME CourseInv, TimetableTypeOK', People \/ Crash \/ Restart \/ Tick
  PROVE  CourseInv'
<1> DEFINE Row == [status: {"NONE", "PENDING", "ACTIVE", "ENDED", "CANCELLED"}, end: Nat,
                   price: Nat, winner: Bidders \cup {NoBidder}, paid: Nat,
                   opened: Times, lastBid: Times]
<1> USE DEF CourseInv, Unlisted, Opening, Unopened, UnopenedUnsold, DutchOnly, Dutch, SoldEnds,
            EndsAsListed, CarriedPrice, SoldWithinAStep
<1>1. auction \in Row /\ listing \in Listing /\ now \in 1..Horizon
  BY DEF TimetableTypeOK
<1>2. CASE StoreAuction(listing)
  BY <1>2, StoreCourse
<1>3. CASE BidEnglish \/ RunLadder
  <2>1. /\ auction'.status = auction.status /\ auction'.winner = auction.winner
        /\ auction.status = "ACTIVE" /\ ~Dutch
        /\ UNCHANGED <<now, listing, create, jobs, starting, dropping>>
    BY <1>1, <1>3 DEF BidEnglish, RunLadder, English
  <2>2. NeverClosedEarly'
    BY <1>1, <2>1 DEF NeverClosedEarly
  <2> QED
    BY <1>1, <2>1, <2>2
<1>4. CASE CancelAuction
  <2>1. /\ auction' = [auction EXCEPT !.status = "CANCELLED"]
        /\ auction.status \in {"PENDING", "ACTIVE"}
        /\ UNCHANGED <<now, listing, create, jobs, starting, dropping>>
    BY <1>4 DEF CancelAuction
  <2> QED
    BY <1>1, <2>1 DEF NeverClosedEarly
<1>5. ASSUME NEW u \in Bidders, AcceptByHand(u)
      PROVE  CourseInv'
  <2>1. /\ auction.status = "ACTIVE" /\ Dutch
        /\ auction' = [auction EXCEPT !.status = "ENDED", !.winner = u, !.paid = auction.price]
        /\ UNCHANGED <<now, listing, create, jobs, starting, dropping>>
    BY <1>5 DEF AcceptByHand, CanAccept, Accept
  <2>2. u # NoBidder
    BY NoBidderAssumption
  <2> QED
    BY <1>1, <2>1, <2>2 DEF NeverClosedEarly
<1>6. ASSUME UNCHANGED <<now, listing, auction, create, jobs, starting, dropping>>
      PROVE  CourseInv'
  BY <1>6 DEF NeverClosedEarly, Clip
<1>7. CASE Crash
  <2>1. /\ UNCHANGED <<now, listing, auction>>
        /\ jobs \in [start: Times, end: Times, drop: Times, redrop: BOOLEAN]
        /\ starting' = "idle" /\ dropping'.step = "idle"
        /\ create' = "none" <=> create = "none"
        /\ jobs'.start = jobs.start /\ jobs'.end = jobs.end /\ jobs'.drop = jobs.drop
        /\ jobs'.redrop => jobs.redrop \/ dropping.step # "idle"
    BY <1>7 DEF Crash, Idle, TimetableTypeOK
  <2> QED
    BY <1>1, <2>1 DEF NeverClosedEarly, Clip
<1>8. CASE Tick
  <2>1. /\ now' = now + 1
        /\ UNCHANGED <<listing, auction, create, jobs, starting, dropping>>
    BY <1>8 DEF Tick
  <2>2. Clip(listing.end) \in Int
    BY <1>1, TimesAssumption DEF Clip, Listing
  <2>3. NeverClosedEarly'
    BY <1>1, <2>1, <2>2 DEF NeverClosedEarly, Clip
  <2> QED
    BY <1>1, <2>1, <2>3 DEF Clip
<1> QED
  BY <1>2, <1>3, <1>4, <1>5, <1>6, <1>7, <1>8
  DEF People, WriteTarget, CancelTarget, ReadForTarget, Restart

LEMMA CourseNext == CourseInv /\ [Next]_vars => CourseInv'
<1>1. CourseInv /\ [Next]_vars => TimetableTypeOK'
  BY TypedNext DEF CourseInv
<1>2. CourseInv /\ UNCHANGED vars /\ TimetableTypeOK' => CourseInv'
  BY DEF CourseInv, vars, Unlisted, Opening, Unopened, UnopenedUnsold, DutchOnly, Dutch,
     SoldEnds, EndsAsListed, CarriedPrice, NeverClosedEarly, SoldWithinAStep,
     Clip
<1> QED
  BY <1>1, <1>2, QueueCourse, OpenCourse, EndCourse, DropCourse, PeopleCourse
  DEF Next, Scheduler

THEOREM CourseInvCorrect == Spec => []CourseInv
BY CourseInit, CourseNext, PTL DEF Spec

-----------------------------------------------------------------------------
(* Anti-sniping                                                            *)

\* The end is that of the listing, or the window after the latest bid by hand; a ladder
\* moves nothing.
EndFollowsLastBid ==
  /\ auction.lastBid <= now
  /\ create # "none" /\ English =>
       \/ auction.end = listing.end
       \/ auction.end = auction.lastBid + listing.snipe

SnipeInv == EndFollowsLastBid /\ ClosesWithinWindow

\* What leaves the end and the latest bid alone, and closes nothing, keeps the window.
LEMMA EndKept ==
  ASSUME CourseInv, SnipeInv,
         now' = now \/ now' = now + 1,
         listing' = listing, auction'.end = auction.end, auction'.lastBid = auction.lastBid,
         create' # "none" => create # "none",
         auction'.status = "ENDED" => auction.status = "ENDED" \/ ~English
  PROVE  SnipeInv'
<1>1. /\ now \in Nat /\ listing \in Listing /\ listing.snipe \in Nat
      /\ auction.end \in Nat /\ auction.lastBid \in Nat
  BY DEF CourseInv, TimetableTypeOK, Listing, Times
<1>2. EndFollowsLastBid'
  BY <1>1 DEF SnipeInv, EndFollowsLastBid, English
<1>3. Clip(auction.end - listing.snipe) \in Int
  BY <1>1, TimesAssumption DEF Clip
<1>4. ClosesWithinWindow'
  BY <1>1, <1>3 DEF SnipeInv, ClosesWithinWindow, English, Clip
<1> QED
  BY <1>2, <1>4 DEF SnipeInv

\* The end-auction job runs at the end of the listing at the earliest, which is then the
\* end, or which a bid has moved to the window after it.
LEMMA ClosedInWindow ==
  ASSUME CourseInv, SnipeInv, RunEndJob
  PROVE  SnipeInv'
<1>1. /\ now \in Nat /\ listing \in Listing /\ listing.snipe \in Nat /\ listing.end \in Nat
      /\ auction.end \in Nat /\ auction.lastBid \in Nat
      /\ jobs.end # 0 /\ now >= jobs.end
      /\ auction'.end = auction.end /\ auction'.lastBid = auction.lastBid
      /\ UNCHANGED <<now, listing, create>>
  BY DEF CourseInv, TimetableTypeOK, Listing, Times, RunEndJob, EndAuction
<1>2. now >= Clip(listing.end) /\ create # "none"
  BY <1>1 DEF CourseInv, EndsAsListed, Unlisted
<1>3. EndFollowsLastBid'
  BY <1>1 DEF SnipeInv, EndFollowsLastBid, English
<1>4. English => now >= Clip(auction.end - listing.snipe)
  BY <1>1, <1>2, TimesAssumption DEF SnipeInv, EndFollowsLastBid, Clip
<1> QED
  BY <1>1, <1>3, <1>4 DEF SnipeInv, ClosesWithinWindow, English, Clip

\* A bid by hand in the window moves the end to the window after it; one before the
\* window finds the end of the listing.
LEMMA BidInWindow ==
  ASSUME CourseInv, SnipeInv, BidEnglish
  PROVE  SnipeInv'
<1>1. /\ now \in Nat /\ listing \in Listing /\ listing.snipe \in Nat
      /\ auction.end \in Nat /\ auction.lastBid \in Nat
      /\ auction'.end = Extended /\ auction'.lastBid = now /\ now <= auction.end
      /\ auction'.status = "ACTIVE" /\ English
      /\ UNCHANGED <<now, listing, create>>
  BY DEF CourseInv, TimetableTypeOK, Listing, Times, BidEnglish
<1>2. create # "none" =>
        \/ auction.end = listing.end
        \/ auction.end = auction.lastBid + listing.snipe
  BY <1>1 DEF SnipeInv, EndFollowsLastBid
<1>3. auction.lastBid <= now
  BY DEF SnipeInv, EndFollowsLastBid
<1>4. create # "none" =>
        \/ auction'.end = listing.end
        \/ auction'.end = now + listing.snipe
  BY <1>1, <1>2, <1>3 DEF Extended
<1> QED
  BY <1>1, <1>4 DEF SnipeInv, EndFollowsLastBid, ClosesWithinWindow, English

\* Every step keeps the end of an English auction where its bids have put it.
LEMMA SnipeNext ==
  ASSUME CourseInv, SnipeInv, Next
  PROVE  SnipeInv'
<1>1. /\ auction \in [status: {"NONE", "PENDING", "ACTIVE", "ENDED", "CANCELLED"}, end: Nat,
                      price: Nat, winner: Bidders \cup {NoBidder}, paid: Nat,
                      opened: Times, lastBid: Times]
      /\ listing \in Listing /\ now \in Nat
  BY DEF CourseInv, TimetableTypeOK
<1>2. CASE StoreAuction(listing)
  <2>1. /\ auction'.end = listing'.end /\ auction'.lastBid = 0 /\ auction'.status # "ENDED"
        /\ now' = now
    BY <1>1, <1>2 DEF StoreAuction, Listing
  <2> QED
    BY <1>1, <2>1 DEF SnipeInv, EndFollowsLastBid, ClosesWithinWindow
<1>3. CASE Handler \/ ReadPending \/ StartClock \/ Reconcile
  BY <1>3, EndKept DEF Handler, ScheduleStart, ScheduleEnd, ReadPending, StartClock, Reconcile
<1>4. CASE WriteActive
  BY <1>1, <1>4, EndKept DEF WriteActive
<1>5. CASE TakeDrop \/ MatchTargets \/ NobodyAccepts
  BY <1>5, EndKept DEF TakeDrop, MatchTargets, NobodyAccepts
<1>6. CASE EndAtFloor
  <2>1. ~English
    BY <1>6 DEF EndAtFloor, CourseInv, DutchOnly, Dutch, English
  <2> QED
    BY <1>1, <1>6, <2>1, EndKept DEF EndAtFloor, EndAuction
<1>7. CASE WritePrice
  BY <1>1, <1>7, EndKept DEF WritePrice
<1>8. ASSUME NEW u \in Bidders, OfferToTarget(u) \/ AcceptByHand(u)
      PROVE  SnipeInv'
  <2>1. ~English
    BY <1>8 DEF OfferToTarget, AcceptByHand, CourseInv, DutchOnly, Dutch, English
  <2> QED
    BY <1>1, <1>8, <2>1, EndKept DEF OfferToTarget, AcceptByHand, Accept
<1>9. CASE RunLadder \/ CancelAuction
  BY <1>1, <1>9, EndKept DEF RunLadder, CancelAuction
<1>10. ASSUME NEW u \in Bidders, NEW target \in Targets[u], ReadForTarget(u, target)
       PROVE  SnipeInv'
  BY <1>10, EndKept DEF ReadForTarget
<1>11. ASSUME NEW u \in Bidders, WriteTarget(u) \/ CancelTarget(u)
       PROVE  SnipeInv'
  BY <1>11, EndKept DEF WriteTarget, CancelTarget
<1>12. CASE Crash \/ Restart \/ Tick
  BY <1>12, EndKept DEF Crash, Restart, Tick
<1> QED
  BY <1>2, <1>3, <1>4, <1>5, <1>6, <1>7, <1>8, <1>9, <1>10, <1>11, <1>12, ClosedInWindow,
     BidInWindow
  DEF Next, Scheduler, Dropper, People

\* The end-auction job keeps its time when a bid extends the auction, so that the auction
\* closes before the end it shows: by antiSnipingMins at most, for every length of that
\* time, any number of extensions, and whatever ladders outbid in between (placeBid,
\* processAutoBidLadder and endAuction).
THEOREM ClosesNearShownEnd == Spec => []ClosesWithinWindow
<1>1. Init => SnipeInv
  BY DEF Init, SnipeInv, EndFollowsLastBid, ClosesWithinWindow
<1>2. CourseInv /\ SnipeInv /\ [Next]_vars => SnipeInv'
  <2>1. ASSUME CourseInv, SnipeInv, UNCHANGED vars
        PROVE  SnipeInv'
    BY <2>1 DEF vars, SnipeInv, EndFollowsLastBid, ClosesWithinWindow, English, Clip
  <2> QED
    BY <2>1, SnipeNext
<1>3. SnipeInv => ClosesWithinWindow
  BY DEF SnipeInv
<1> QED
  BY <1>1, <1>2, <1>3, CourseInvCorrect, PTL DEF Spec

\* No auction that is not sold ends before the time it was created with, except a Dutch one
\* at its floor (endAuction and both jobs that call it), also over crashes.
THEOREM EndsNoEarlier == Spec => []NeverClosedEarly
<1>1. CourseInv => NeverClosedEarly
  BY DEF CourseInv
<1> QED
  BY <1>1, CourseInvCorrect, PTL

\* The price shown of a sold Dutch auction is the one paid or one step less, for every
\* step (drop-price against placeBid).
THEOREM SoldPriceWithinAStep == Spec => []SoldWithinAStep
<1>1. CourseInv => SoldWithinAStep
  BY DEF CourseInv
<1> QED
  BY <1>1, CourseInvCorrect, PTL

-----------------------------------------------------------------------------
(* The clock                                                               *)

LEMMA ClockInit == Init => ClockOnce
BY DEF Init, ClockOnce, Idle

\* One step of the clock, of the queues and of everybody else.
LEMMA ClockNext ==
  ASSUME CourseInv, ClockOnce, Next
  PROVE  ClockOnce'
<1> USE DEF ClockOnce, Dutch
<1>1. /\ auction \in [status: {"NONE", "PENDING", "ACTIVE", "ENDED", "CANCELLED"}, end: Nat,
                      price: Nat, winner: Bidders \cup {NoBidder}, paid: Nat,
                      opened: Times, lastBid: Times]
      /\ jobs \in [start: Times, end: Times, drop: Times, redrop: BOOLEAN]
      /\ listing \in Listing /\ now \in 1..Horizon
      /\ dropping \in [step: {"idle", "end", "write", "match", "offer"}, price: Nat,
                       asked: SUBSET (Bidders \X Nat)]
      /\ Unlisted /\ Opening /\ UnopenedUnsold /\ DutchOnly
      /\ \A slot \in FirstSlots : slot # 0 /\ AddClock(slot) # 0
  BY FirstSlotTyped DEF CourseInv, TimetableTypeOK, AddClock
<1>2. CASE StoreAuction(listing)
  <2>1. /\ create = "none" /\ auction'.price = listing'.price
        /\ listing'.type = listing.type
        /\ listing'.start > now => auction'.status = "PENDING"
        /\ UNCHANGED <<now, jobs, starting, dropping>>
    BY <1>1, <1>2 DEF StoreAuction, Listing
  <2> QED
    BY <1>1, <2>1 DEF Unlisted, UnopenedUnsold, Unopened
<1>3. CASE ScheduleStart
  BY <1>1, <1>3 DEF ScheduleStart, Unlisted, English, Listing
<1>4. CASE ScheduleEnd
  BY <1>1, <1>4 DEF ScheduleEnd
<1>5. CASE ReadPending
  BY <1>1, <1>5 DEF ReadPending
<1>6. CASE WriteActive
  BY <1>1, <1>6 DEF WriteActive, Unlisted, Opening
<1>7. CASE StartClock
  <2>1. PICK slot \in FirstSlots : jobs' = [jobs EXCEPT !.start = 0, !.drop = AddClock(slot)]
    BY <1>7 DEF StartClock
  <2> QED
    BY <1>1, <1>7, <2>1 DEF StartClock
<1>8. CASE RunEndJob
  BY <1>1, <1>8 DEF RunEndJob, EndAuction, Unlisted
<1>9. CASE Reconcile
  BY <1>1, <1>9 DEF Reconcile, NeedsClock, Opening, DutchOnly
<1>10. CASE TakeDrop
  <2>1. jobs.drop # 0 \/ jobs.redrop
    BY <1>10 DEF TakeDrop
  <2>2. Dutch /\ jobs.drop # 0 /\ auction.status # "NONE"
    BY <1>1, <2>1 DEF DutchOnly, Unlisted
  <2>3. jobs'.drop # 0 /\ jobs'.start = jobs.start
    <3>1. CASE now >= jobs.drop /\ jobs' = [jobs EXCEPT !.drop = NextSlot]
      <4>1. NextSlot # 0
        BY <1>1, <3>1, NextSlotTyped, Clipped DEF CourseInv
      <4> QED
        BY <1>1, <3>1, <4>1
    <3>2. CASE jobs' = [jobs EXCEPT !.redrop = FALSE]
      BY <1>1, <2>2, <3>2
    <3> QED
      BY <1>10, <3>1, <3>2 DEF TakeDrop
  <2> QED
    BY <1>1, <1>10, <2>2, <2>3 DEF TakeDrop
<1>11. CASE EndAtFloor
  BY <1>1, <1>11 DEF EndAtFloor, EndAuction, UnopenedUnsold, Unopened, DutchOnly
<1>12. CASE WritePrice
  BY <1>1, <1>12 DEF WritePrice, UnopenedUnsold, Unopened, DutchOnly
<1>13. CASE MatchTargets
  BY <1>1, <1>13 DEF MatchTargets, DutchOnly
<1>14. CASE NobodyAccepts
  BY <1>1, <1>14 DEF NobodyAccepts, DutchOnly
<1>15. ASSUME NEW u \in Bidders, OfferToTarget(u)
       PROVE  ClockOnce'
  BY <1>1, <1>15 DEF OfferToTarget, Accept, UnopenedUnsold, Unopened, DutchOnly, Idle
<1>16. ASSUME NEW u \in Bidders, AcceptByHand(u)
       PROVE  ClockOnce'
  BY <1>1, <1>16 DEF AcceptByHand, Accept, CanAccept, Opening
<1>17. CASE BidEnglish \/ RunLadder
  BY <1>1, <1>17 DEF BidEnglish, RunLadder, English
<1>18. CASE CancelAuction
  BY <1>1, <1>18 DEF CancelAuction
<1>19. CASE Crash
  BY <1>1, <1>19 DEF Crash, Idle
<1>20. CASE Tick
  BY <1>1, <1>20 DEF Tick, Listing
<1>21. ASSUME UNCHANGED <<now, listing, auction, create, jobs, starting, dropping>>
       PROVE  ClockOnce'
  BY <1>21
<1> QED
  BY <1>2, <1>3, <1>4, <1>5, <1>6, <1>7, <1>8, <1>9, <1>10, <1>11, <1>12, <1>13, <1>14, <1>15,
     <1>16, <1>17, <1>18, <1>19, <1>20, <1>21
  DEF Next, Handler, Scheduler, Dropper, People, WriteTarget, CancelTarget, ReadForTarget, Restart

-----------------------------------------------------------------------------
(* The pace of the price                                                   *)

LEMMA PaceInit == Init => PaceInv
BY DEF Init, PaceInv

\* A clock that starts now has passed no slot yet.
LEMMA FreshClock ==
  ASSUME CourseInv, NEW slot \in FirstSlots, jobs'.drop = slot,
         auction.opened <= now, auction.price = listing.price,
         dropping.step = "idle", ~jobs'.redrop,
         UNCHANGED <<now, listing, auction, dropping, faults>>
  PROVE  DropsSoFar(0)'
<1>1. PICK d \in 1..listing.interval : slot = Clip(now + d)
  BY DEF FirstSlots
<1>2. /\ listing.step \in Nat /\ listing.interval \in Nat \ {0} /\ now \in Nat
      /\ auction.opened \in Nat /\ auction.price \in Nat /\ faults \in Nat
  BY FaultsAssumption DEF CourseInv, TimetableTypeOK, Listing, Times
<1>3. listing.step * (0 + faults - 0) \in Nat /\ 0 * listing.interval = 0
  BY <1>2
<1>4. slot < Horizon => slot = now + d
  BY <1>1, <1>2, TimesAssumption DEF Clip
<1> QED
  BY <1>1, <1>2, <1>3, <1>4 DEF DropsSoFar, ComingPrice, Repeat

\* A drop that is due: a slot more, a step less at most.
LEMMA TakeDropPace ==
  ASSUME CourseInv, ClockOnce, PaceInv, TakeDrop
  PROVE  PaceInv'
<1>1. /\ listing.step \in Nat /\ listing.interval \in Nat \ {0} /\ now \in Nat
      /\ auction.opened \in Nat /\ auction.price \in Nat /\ faults \in Nat
      /\ listing.price \in Nat
      /\ jobs \in [start: Times, end: Times, drop: Times, redrop: BOOLEAN]
      /\ jobs.drop \in Nat
      /\ UNCHANGED <<now, listing, auction, faults>>
      /\ dropping.step = "idle"
  BY FaultsAssumption DEF CourseInv, TimetableTypeOK, Listing, Times, TakeDrop
<1>2. /\ Dutch /\ jobs.drop # 0 /\ auction.status # "NONE"
  BY DEF TakeDrop, CourseInv, DutchOnly, Unlisted, ClockOnce
<1>3. auction.opened <= now
  BY <1>2 DEF PaceInv
<1>4. SUFFICES ASSUME now < Horizon
               PROVE  \E n \in Nat : DropsSoFar(n)'
  BY <1>1, <1>2, <1>3 DEF PaceInv, Dutch
<1>5. PICK n \in Nat : DropsSoFar(n)
  BY <1>2, <1>4 DEF PaceInv
<1>6. auction.price - listing.step <= ComingPrice' /\ ComingPrice = auction.price
  <2>1. CASE dropping' = Idle
    BY <1>1, <2>1 DEF ComingPrice, Idle
  <2>2. CASE dropping' = [Idle EXCEPT !.step = IF AtFloor(Dropped) THEN "end" ELSE "write",
                                      !.price = Dropped]
    BY <1>1, <2>2 DEF ComingPrice, Idle, Dropped
  <2> QED
    BY <1>1, <2>1, <2>2 DEF TakeDrop, ComingPrice
<1>7. ComingPrice' \in Int
  BY <1>1 DEF TakeDrop, ComingPrice, Idle, Dropped
<1>8. CASE now >= jobs.drop /\ jobs' = [jobs EXCEPT !.drop = NextSlot]
  <2>1. PICK t \in Nat : NextSlot = Clip(t) /\ t >= jobs.drop + listing.interval
    BY <1>8, NextSlotTyped DEF CourseInv
  <2> DEFINE i == listing.interval
             k == n + faults - Repeat
  <2>2. k \in Int /\ Repeat' = Repeat /\ n + 1 + faults - Repeat = k + 1 /\ i \in Nat
    BY <1>1, <1>8 DEF Repeat
  <2>3. listing.price - auction.price <= listing.step * k
    BY <1>5, <1>6 DEF DropsSoFar
  <2>4. n * i + auction.opened + 1 <= jobs.drop
    <3>1. jobs.drop < Horizon
      BY <1>1, <1>4, <1>8, TimesAssumption
    <3> QED
      BY <1>5, <3>1 DEF DropsSoFar
  <2>5. (n + 1) * i = n * i + i /\ n * i \in Nat
    BY <2>2
  <2>6. listing.step * (k + 1) = listing.step * k + listing.step /\ listing.step * k \in Int
    BY <1>1, <2>2
  <2>7. jobs'.drop = Clip(t)
    BY <1>1, <1>8, <2>1
  <2>8. jobs'.drop < Horizon => jobs'.drop = t
    BY <2>7, TimesAssumption DEF Clip
  <2> HIDE DEF i, k
  <2>9. listing.price - ComingPrice' <= listing.step * (k + 1)
    BY <1>1, <1>6, <1>7, <2>3, <2>6
  <2>10. (n + 1) * i < now - auction.opened + i
    BY <1>1, <1>8, <2>2, <2>4, <2>5
  <2>11. jobs'.drop < Horizon => (n + 1) * i + auction.opened + 1 <= jobs'.drop
    BY <1>1, <2>1, <2>2, <2>4, <2>5, <2>8 DEF i
  <2>12. DropsSoFar(n + 1)'
    BY <1>1, <2>2, <2>9, <2>10, <2>11 DEF DropsSoFar, i
  <2> QED
    BY <2>12
<1>9. CASE jobs.redrop /\ jobs' = [jobs EXCEPT !.redrop = FALSE]
  <2> DEFINE k == n + faults - Repeat
  <2>1. k \in Int /\ Repeat = 1 /\ Repeat' = 0 /\ n + faults - 0 = k + 1
    BY <1>1, <1>9 DEF Repeat
  <2>2. listing.price - auction.price <= listing.step * k
    BY <1>5, <1>6 DEF DropsSoFar
  <2>3. listing.step * (k + 1) = listing.step * k + listing.step /\ listing.step * k \in Int
    BY <1>1, <2>1
  <2> HIDE DEF k
  <2>4. listing.price - ComingPrice' <= listing.step * (k + 1)
    BY <1>1, <1>6, <1>7, <2>2, <2>3
  <2>5. DropsSoFar(n)'
    BY <1>1, <1>5, <1>9, <2>1, <2>4 DEF DropsSoFar
  <2> QED
    BY <2>5
<1> QED
  BY <1>8, <1>9 DEF TakeDrop

\* A crash: the drop under way will be run once more.
LEMMA CrashPace ==
  ASSUME CourseInv, ClockOnce, PaceInv, Crash
  PROVE  PaceInv'
<1>1. /\ listing.step \in Nat /\ listing.interval \in Nat \ {0} /\ now \in Nat
      /\ auction.opened \in Nat /\ auction.price \in Nat /\ faults \in Nat
      /\ listing.price \in Nat
      /\ jobs \in [start: Times, end: Times, drop: Times, redrop: BOOLEAN]
      /\ UNCHANGED <<now, listing, auction>>
      /\ faults' = faults + 1
      /\ dropping'.step = "idle" /\ jobs'.drop = jobs.drop
  BY FaultsAssumption DEF CourseInv, TimetableTypeOK, Listing, Times, Crash, Idle
<1>2. SUFFICES ASSUME auction.status # "NONE", Dutch, jobs.drop # 0, now < Horizon
               PROVE  \E n \in Nat : DropsSoFar(n)'
  BY <1>1 DEF PaceInv, Dutch
<1>3. PICK n \in Nat : DropsSoFar(n)
  BY <1>2 DEF PaceInv
<1>4. ComingPrice' = auction.price /\ ComingPrice <= auction.price /\ ComingPrice \in Int
  BY <1>1 DEF ComingPrice, CourseInv, CarriedPrice
<1> DEFINE k == n + faults - Repeat
           r == Repeat + 1 - Repeat'
<1>5. k \in Int /\ Repeat' \in {0, 1} /\ r \in {0, 1, 2} /\ r \in Int
      /\ n + (faults + 1) - Repeat' = k + r
  BY <1>1 DEF Repeat
<1>6. listing.price - auction.price <= listing.step * k
  <2>1. listing.price - ComingPrice <= listing.step * k
    BY <1>3 DEF DropsSoFar
  <2> HIDE DEF k
  <2>2. listing.step * k \in Int
    BY <1>1, <1>5
  <2> QED
    BY <1>1, <1>4, <2>1, <2>2
<1> HIDE DEF k, r
<1>7. /\ listing.step * k <= listing.step * (k + r)
      /\ listing.step * k \in Int /\ listing.step * (k + r) \in Int
  BY <1>1, <1>5
<1>8. listing.price - ComingPrice' <= listing.step * (k + r)
  BY <1>1, <1>4, <1>6, <1>7
<1>9. DropsSoFar(n)'
  BY <1>1, <1>3, <1>5, <1>8 DEF DropsSoFar
<1> QED
  BY <1>9


LEMMA PaceNext ==
  ASSUME CourseInv, ClockOnce, PaceInv, Next, TimetableTypeOK'
  PROVE  PaceInv'
<1>1. /\ auction \in [status: {"NONE", "PENDING", "ACTIVE", "ENDED", "CANCELLED"}, end: Nat,
                      price: Nat, winner: Bidders \cup {NoBidder}, paid: Nat,
                      opened: Times, lastBid: Times]
      /\ jobs \in [start: Times, end: Times, drop: Times, redrop: BOOLEAN]
      /\ listing \in Listing /\ now \in 1..Horizon /\ now \in Int /\ auction.opened \in Int
      /\ dropping \in [step: {"idle", "end", "write", "match", "offer"}, price: Nat,
                       asked: SUBSET (Bidders \X Nat)]
      /\ listing.interval \in Nat
  BY DEF CourseInv, TimetableTypeOK, Times, Listing
\* Whatever leaves the price, the clock and the time alone.
<1>2. ASSUME UNCHANGED <<now, listing, faults>>, jobs'.drop = jobs.drop,
             jobs'.redrop = jobs.redrop, ComingPrice' = ComingPrice,
             auction'.opened = auction.opened, auction'.status # "NONE" => auction.status # "NONE"
      PROVE  PaceInv'
  BY <1>2 DEF PaceInv, DropsSoFar, Dutch, Repeat
<1>3. CASE StoreAuction(listing)
  <2>1. jobs'.drop = 0 /\ auction'.opened = now /\ now' = now
    BY <1>1, <1>3 DEF StoreAuction, CourseInv, Unlisted
  <2> QED
    BY <1>1, <2>1 DEF PaceInv
<1>4. CASE ScheduleStart
  <2>1. CASE jobs'.drop = jobs.drop
    <3>1. jobs'.redrop = jobs.redrop
      BY <1>1, <1>4 DEF ScheduleStart
    <3> QED
      BY <1>2, <1>4, <2>1, <3>1 DEF ScheduleStart, ComingPrice
  <2>2. CASE jobs'.drop # jobs.drop
    <3>1. PICK slot \in FirstSlots : Dutch /\ jobs' = [jobs EXCEPT !.drop = AddClock(slot)]
      BY <1>1, <1>4, <2>2 DEF ScheduleStart
    <3>2. jobs.drop = 0 /\ jobs'.drop = slot /\ jobs'.redrop = jobs.redrop
      BY <1>1, <2>2, <3>1 DEF AddClock
    <3>3. auction.status # "NONE"
      BY <1>4 DEF ScheduleStart, CourseInv, Unlisted
    <3>4. auction.price = listing.price /\ dropping.step = "idle" /\ ~jobs.redrop
      BY <3>1, <3>2, <3>3 DEF ClockOnce
    <3>5. auction.opened <= now
      BY <3>3 DEF PaceInv
    <3>6. DropsSoFar(0)'
      BY <1>4, <3>2, <3>4, <3>5, FreshClock DEF ScheduleStart
    <3> QED
      BY <1>4, <3>5, <3>6 DEF PaceInv, ScheduleStart
  <2> QED
    BY <2>1, <2>2
<1>5. CASE ScheduleEnd \/ ReadPending
  BY <1>1, <1>2, <1>5 DEF ScheduleEnd, ReadPending, ComingPrice
<1>6. CASE WriteActive
  <2>1. jobs'.drop = 0 /\ auction'.opened = now /\ now' = now
    BY <1>1, <1>6 DEF WriteActive, ClockOnce
  <2> QED
    BY <1>1, <2>1 DEF PaceInv
<1>7. CASE StartClock
  <2>1. PICK slot \in FirstSlots : jobs' = [jobs EXCEPT !.start = 0, !.drop = AddClock(slot)]
    BY <1>7 DEF StartClock
  <2>2. CASE jobs.drop # 0
    BY <1>1, <1>2, <1>7, <2>1, <2>2 DEF StartClock, ComingPrice, AddClock
  <2>3. CASE jobs.drop = 0
    <3>1. jobs'.drop = slot /\ jobs'.redrop = jobs.redrop
      BY <1>1, <2>1, <2>3 DEF AddClock
    <3>2. Dutch /\ auction.status # "NONE"
      BY <1>7 DEF StartClock, CourseInv, DutchOnly, Unlisted
    <3>3. auction.price = listing.price /\ dropping.step = "idle" /\ ~jobs.redrop
      BY <2>3, <3>2 DEF ClockOnce
    <3>4. auction.opened <= now
      BY <3>2 DEF PaceInv
    <3>5. DropsSoFar(0)'
      BY <1>7, <3>1, <3>3, <3>4, FreshClock DEF StartClock
    <3> QED
      BY <1>7, <3>4, <3>5 DEF PaceInv, StartClock
  <2> QED
    BY <2>2, <2>3
<1>8. CASE RunEndJob
  <2>1. auction.status # "NONE"
    BY <1>8 DEF RunEndJob, CourseInv, Unlisted
  <2> QED
    BY <1>1, <1>2, <1>8, <2>1 DEF RunEndJob, EndAuction, ComingPrice
<1>9. CASE Reconcile
  <2>1. CASE UNCHANGED jobs
    BY <1>2, <1>9, <2>1 DEF Reconcile, ComingPrice
  <2>2. ASSUME NeedsClock, NEW slot \in FirstSlots, jobs' = [jobs EXCEPT !.drop = slot]
        PROVE  PaceInv'
    <3>1. jobs'.drop = slot /\ jobs'.redrop = jobs.redrop
      BY <1>1, <2>2
    <3>2. auction.price = listing.price /\ dropping.step = "idle" /\ ~jobs.redrop
      BY <2>2 DEF ClockOnce, NeedsClock
    <3>3. auction.opened <= now
      BY <2>2 DEF PaceInv, NeedsClock
    <3>4. DropsSoFar(0)'
      BY <1>9, <3>1, <3>2, <3>3, FreshClock DEF Reconcile
    <3> QED
      BY <1>9, <3>3, <3>4 DEF PaceInv, Reconcile
  <2> QED
    BY <1>9, <2>1, <2>2 DEF Reconcile
<1>10. CASE EndAtFloor
  <2>1. auction.status # "NONE"
    BY <1>10 DEF EndAtFloor, CourseInv, UnopenedUnsold, Unopened
  <2> QED
    BY <1>1, <1>2, <1>10, <2>1 DEF EndAtFloor, EndAuction, ComingPrice, Idle
<1>11. CASE WritePrice
  <2>1. auction.status # "NONE"
    BY <1>11 DEF WritePrice, CourseInv, UnopenedUnsold, Unopened
  <2> QED
    BY <1>1, <1>2, <1>11, <2>1 DEF WritePrice, ComingPrice
<1>12. CASE MatchTargets \/ NobodyAccepts
  <2>1. ASSUME MatchTargets
        PROVE  dropping'.step = "offer"
    <3>1. dropping \in [step: {"idle", "end", "write", "match", "offer"}, price: Nat,
                        asked: SUBSET (Bidders \X Nat)]
      BY DEF CourseInv, TimetableTypeOK
    <3> DEFINE matching == {<<u, armed[u]>> : u \in Matching(dropping.price)}
    <3>2. dropping' = [dropping EXCEPT !.step = "offer", !.asked = matching]
      BY <2>1 DEF MatchTargets
    <3> HIDE DEF matching
    <3> QED
      BY <3>1, <3>2
  <2>2. dropping'.step # "write"
    BY <1>12, <2>1 DEF NobodyAccepts, Idle
  <2>3. dropping.step # "write" /\ UNCHANGED <<now, listing, auction, jobs, faults>>
    BY <1>12 DEF MatchTargets, NobodyAccepts
  <2> QED
    BY <1>2, <2>2, <2>3 DEF ComingPrice
<1>13. ASSUME NEW u \in Bidders, OfferToTarget(u)
       PROVE  PaceInv'
  <2> DEFINE first == {t \in dropping.asked : t[1] = u /\ \A o \in dropping.asked : o[2] <= t[2]}
  <2>1. /\ dropping.step = "offer" /\ dropping'.step \in {"idle", "offer"}
        /\ auction'.price = auction.price /\ auction'.opened = auction.opened
        /\ UNCHANGED <<now, listing, jobs, faults>>
    <3>1. CASE dropping' = Idle /\ Accept(u, dropping.price)
      BY <1>1, <1>13, <3>1 DEF OfferToTarget, Accept, Idle
    <3>2. CASE dropping' = [dropping EXCEPT !.asked = @ \ first] /\ UNCHANGED auction
      BY <1>1, <1>13, <3>2 DEF OfferToTarget
    <3> QED
      BY <1>13, <3>1, <3>2 DEF OfferToTarget
  <2>2. auction.status # "NONE"
    BY <2>1 DEF CourseInv, UnopenedUnsold, Unopened
  <2> QED
    BY <1>2, <2>1, <2>2 DEF ComingPrice
<1>14. ASSUME NEW u \in Bidders, AcceptByHand(u)
       PROVE  PaceInv'
  BY <1>1, <1>2, <1>14 DEF AcceptByHand, CanAccept, Accept, ComingPrice
<1>15. CASE BidEnglish \/ RunLadder
  BY <1>1, <1>15 DEF BidEnglish, RunLadder, English, PaceInv, Dutch
<1>16. CASE CancelAuction
  BY <1>1, <1>2, <1>16 DEF CancelAuction, ComingPrice
<1>17. CASE Tick
  BY <1>1, <1>17 DEF Tick, PaceInv, DropsSoFar, ComingPrice, Repeat, Dutch
<1>18. ASSUME UNCHANGED <<now, listing, auction, create, jobs, starting, dropping, faults>>
       PROVE  PaceInv'
  BY <1>2, <1>18 DEF ComingPrice
<1> QED
  BY <1>3, <1>4, <1>5, <1>6, <1>7, <1>8, <1>9, <1>10, <1>11, <1>12, <1>13, <1>14, <1>15, <1>16,
     <1>17, <1>18, TakeDropPace, CrashPace
  DEF Next, Handler, Scheduler, Dropper, People, WriteTarget, CancelTarget, ReadForTarget, Restart

\* What the invariant says of the price on the page.
LEMMA PaceShown == CourseInv /\ ClockOnce /\ PaceInv => PriceKeepsPace
<1> SUFFICES ASSUME CourseInv, ClockOnce, PaceInv, Dutch, auction.status # "NONE", now < Horizon
             PROVE  listing.price - auction.price
                      <= listing.step * (CeilDiv(now - auction.opened, listing.interval) + faults)
  BY DEF PriceKeepsPace
<1> DEFINE i == listing.interval
           x == now - auction.opened
           c == CeilDiv(x, i)
<1>1. /\ listing.step \in Nat /\ i \in Nat \ {0} /\ x \in Int /\ 0 <= x
      /\ auction.price \in Nat /\ listing.price \in Nat /\ faults \in Nat
      /\ dropping.price \in Int
  BY FaultsAssumption DEF CourseInv, TimetableTypeOK, Listing, Times, PaceInv
<1>2. c \in Int /\ \A n \in Nat : n * i < x + i => n <= c
  <2> DEFINE a == x + i - 1
  <2>1. c = a \div i
    BY DEF CeilDiv
  <2> HIDE DEF i, x, c
  <2>2. a \in Int
    BY <1>1
  <2>3. ASSUME NEW n \in Nat, n * i < x + i
        PROVE  n * i <= a
    <3>1. n * i \in Int
      BY <1>1
    <3> QED
      BY <1>1, <2>3, <3>1
  <2> HIDE DEF a
  <2>4. c \in Int
    BY <1>1, <2>1, <2>2, Division
  <2>5. ASSUME NEW n \in Nat, n * i < x + i
        PROVE  n <= c
    <3>1. n * i <= a /\ i \in Nat \ {0} /\ n \in Int
      BY <1>1, <2>3, <2>5
    <3>2. n <= a \div i
      BY <2>2, <3>1, AtLeastTimes
    <3> QED
      BY <2>1, <3>2
  <2> QED
    BY <2>4, <2>5
<1>3. CASE jobs.drop = 0
  <2>1. listing.price - auction.price = 0
    BY <1>1, <1>3 DEF ClockOnce
  <2>2. c >= 0
    BY <1>1, <1>2
  <2> HIDE DEF c
  <2>3. listing.step * (c + faults) >= 0
    BY <1>1, <1>2, <2>2
  <2> QED
    BY <2>1, <2>3 DEF c
<1>4. CASE jobs.drop # 0
  <2>1. PICK n \in Nat : DropsSoFar(n)
    BY <1>4 DEF PaceInv
  <2>2. n <= c
    BY <1>2, <2>1 DEF DropsSoFar
  <2> DEFINE k == n + faults - Repeat
  <2>3. k \in Int /\ (n <= c /\ c \in Int => k <= c + faults)
    BY <1>1 DEF Repeat
  <2>4. listing.price - ComingPrice <= listing.step * k
    BY <2>1 DEF DropsSoFar
  <2>5. ComingPrice \in Int /\ ComingPrice <= auction.price
    BY <1>1 DEF ComingPrice, CourseInv, CarriedPrice
  <2> HIDE DEF c, k
  <2>6. /\ listing.step * k <= listing.step * (c + faults)
        /\ listing.step * k \in Int /\ listing.step * (c + faults) \in Int
    BY <1>1, <1>2, <2>2, <2>3
  <2> QED
    BY <1>1, <2>4, <2>5, <2>6 DEF c
<1> QED
  BY <1>3, <1>4

\* The price of a Dutch auction is never ahead of its clock, for every step, interval and
\* reserve and over crashes (drop-price, reconcileDutchAuctions).
THEOREM PriceNeverAhead == Spec => []PriceKeepsPace
<1> DEFINE PaceIInv == CourseInv /\ ClockOnce /\ PaceInv
<1>1. Init => PaceIInv
  BY CourseInit, ClockInit, PaceInit
<1>2. PaceIInv /\ [Next]_vars => PaceIInv'
  <2>1. ASSUME PaceIInv, Next PROVE PaceIInv'
    <3>1. CourseInv'
      BY <2>1, CourseNext
    <3>2. TimetableTypeOK'
      BY <3>1 DEF CourseInv
    <3> QED
      BY <2>1, <3>1, <3>2, ClockNext, PaceNext
  <2>2. ASSUME PaceIInv, UNCHANGED vars PROVE PaceIInv'
    <3>1. CourseInv'
      BY <2>2, CourseNext
    <3> QED
      BY <2>2, <3>1 DEF vars, ClockOnce, PaceInv, DropsSoFar, ComingPrice, Repeat, Dutch
  <2> QED
    BY <2>1, <2>2
<1>3. PaceIInv => PriceKeepsPace
  BY PaceShown
<1> HIDE DEF PaceIInv
<1> QED
  BY <1>1, <1>2, <1>3, PTL DEF Spec

-----------------------------------------------------------------------------
(* What closes an auction                                                  *)

\* SomethingEndsIt, also of an auction that is cancelled: the start-auction job may
\* overwrite that.
Attended ==
  /\ auction.status # "ENDED" /\ create = "done" /\ now < listing.end => jobs.end # 0
  /\ Dutch /\ auction.status = "ACTIVE" =>
       jobs.drop # 0 \/ create = "stored" \/ starting = "written" \/ ~up \/ ~reconciled

\* Each step hands the auction on to the next one that is to close it.
LEMMA AttendedNext ==
  ASSUME CourseInv, ClockOnce, Attended, Next
  PROVE  Attended'
<1> USE DEF Attended, Dutch
<1>1. /\ auction \in [status: {"NONE", "PENDING", "ACTIVE", "ENDED", "CANCELLED"}, end: Nat,
                      price: Nat, winner: Bidders \cup {NoBidder}, paid: Nat,
                      opened: Times, lastBid: Times]
      /\ jobs \in [start: Times, end: Times, drop: Times, redrop: BOOLEAN]
      /\ listing \in Listing /\ now \in 1..Horizon
      /\ Unlisted /\ Opening /\ DutchOnly
      /\ \A slot \in FirstSlots : slot # 0 /\ AddClock(slot) # 0
  BY FirstSlotTyped DEF CourseInv, TimetableTypeOK, AddClock
<1>2. CASE StoreAuction(listing)
  BY <1>1, <1>2 DEF StoreAuction
<1>3. CASE ScheduleStart
  BY <1>1, <1>3 DEF ScheduleStart, ClockOnce, English, Listing
<1>4. CASE ScheduleEnd
  <2>1. now < listing.end => Clip(listing.end) # 0
    BY <1>1, Clipped DEF Listing
  <2> QED
    BY <1>1, <1>4, <2>1 DEF ScheduleEnd
<1>5. CASE ReadPending
  BY <1>1, <1>5 DEF ReadPending
<1>6. CASE WriteActive
  BY <1>1, <1>6 DEF WriteActive, Opening
<1>7. CASE StartClock
  <2>1. PICK slot \in FirstSlots : jobs' = [jobs EXCEPT !.start = 0, !.drop = AddClock(slot)]
    BY <1>7 DEF StartClock
  <2> QED
    BY <1>1, <1>7, <2>1 DEF StartClock
<1>8. CASE RunEndJob
  BY <1>1, <1>8 DEF RunEndJob, EndAuction
<1>9. CASE Reconcile
  BY <1>1, <1>9 DEF Reconcile, NeedsClock
<1>10. CASE TakeDrop
  <2>1. jobs'.end = jobs.end /\ (jobs.drop # 0 => jobs'.drop # 0)
    <3>1. CASE now >= jobs.drop /\ jobs' = [jobs EXCEPT !.drop = NextSlot]
      <4>1. NextSlot # 0
        BY <1>1, <3>1, NextSlotTyped, Clipped DEF CourseInv
      <4> QED
        BY <1>1, <3>1, <4>1
    <3>2. CASE jobs' = [jobs EXCEPT !.redrop = FALSE]
      BY <1>1, <3>2
    <3> QED
      BY <1>10, <3>1, <3>2 DEF TakeDrop
  <2> QED
    BY <1>1, <1>10, <2>1 DEF TakeDrop
<1>11. CASE EndAtFloor
  BY <1>1, <1>11 DEF EndAtFloor, EndAuction
<1>12. CASE WritePrice
  BY <1>1, <1>12 DEF WritePrice
<1>13. CASE BidEnglish \/ RunLadder \/ CancelAuction
  BY <1>1, <1>13 DEF BidEnglish, RunLadder, English, CancelAuction
<1>14. ASSUME NEW u \in Bidders, AcceptByHand(u) \/ OfferToTarget(u)
       PROVE  Attended'
  <2>1. \/ auction' = auction
        \/ auction'.status = "ENDED"
    BY <1>1, <1>14 DEF AcceptByHand, OfferToTarget, Accept
  <2>2. UNCHANGED <<now, listing, create, jobs, starting, up, reconciled>>
    BY <1>14 DEF AcceptByHand, OfferToTarget
  <2> QED
    BY <2>1, <2>2
<1>15. CASE Crash
  BY <1>1, <1>15 DEF Crash
<1>16. CASE Restart
  BY <1>16 DEF Restart
<1>17. CASE Tick
  BY <1>1, <1>17 DEF Tick, Listing
<1>18. ASSUME UNCHANGED <<now, listing, auction, create, jobs, starting, up, reconciled>>
       PROVE  Attended'
  BY <1>18
<1> QED
  BY <1>2, <1>3, <1>4, <1>5, <1>6, <1>7, <1>8, <1>9, <1>10, <1>11, <1>12, <1>13, <1>14, <1>15,
     <1>16, <1>17, <1>18
  DEF Next, Handler, Scheduler, Dropper, People, MatchTargets, NobodyAccepts, WriteTarget,
      CancelTarget, ReadForTarget

\* Whatever crashes, redelivered jobs, cancellations and late starts do, an open auction has
\* the job or the clock that will close it, as far as createAuction got to queue them.
THEOREM OpenIsAttended == Spec => []SomethingEndsIt
<1>1. Init => ClockOnce /\ Attended
  BY ClockInit DEF Init, Attended
<1>2. CourseInv /\ ClockOnce /\ Attended /\ [Next]_vars => (ClockOnce /\ Attended)'
  <2>1. ASSUME CourseInv, ClockOnce, Attended, UNCHANGED vars
        PROVE  (ClockOnce /\ Attended)'
    BY <2>1 DEF vars, ClockOnce, Attended, Dutch
  <2> QED
    BY <2>1, ClockNext, AttendedNext
<1>3. Attended => SomethingEndsIt
  BY DEF Attended, SomethingEndsIt
<1> QED
  BY <1>1, <1>2, <1>3, CourseInvCorrect, PTL DEF Spec
=============================================================================
