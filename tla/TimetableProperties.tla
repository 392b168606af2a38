------------------------ MODULE TimetableProperties ------------------------
(***************************************************************************)
(* What the timetable of an auction guarantees.                            *)
(***************************************************************************)
EXTENDS Timetable

Times == 0..Horizon

\* The rows, the queued jobs and the positions of the handlers are well typed.
TimetableTypeOK ==
  /\ now \in 1..Horizon
  /\ listing \in Listing
  /\ auction \in [status: {"NONE", "PENDING", "ACTIVE", "ENDED", "CANCELLED"}, end: Nat,
                  price: Nat, winner: Bidders \cup {NoBidder}, paid: Nat,
                  opened: Times, lastBid: Times]
  /\ create \in {"none", "stored", "timed", "done", "lost"}
  /\ jobs \in [start: Times, end: Times, drop: Times, redrop: BOOLEAN]
  /\ starting \in {"idle", "read", "written"}
  /\ dropping \in [step: {"idle", "end", "write", "match", "offer"}, price: Nat,
                   asked: SUBSET (Bidders \X Nat)]
  /\ \A t \in dropping.asked : t[2] \in Targets[t[1]]
  /\ armed \in [Bidders -> Nat] /\ \A u \in Bidders : armed[u] \in Targets[u] \cup {0}
  /\ arming \in [Bidders -> Nat] /\ \A u \in Bidders : arming[u] \in Targets[u] \cup {0}
  /\ up \in BOOLEAN /\ reconciled \in BOOLEAN
  /\ faults \in 0..MaxFaults

\* Anti-sniping (placeBid) moves the end that the page counts down to and leaves the
\* end-auction job at its old time, so an English auction may close before the end it
\* shows: but never by more than antiSnipingMins, however many bids extend it and
\* ladders outbid without extending it.  At the horizon time stands still.
ClosesWithinWindow ==
  auction.status = "ENDED" /\ English => now >= Clip(auction.end - listing.snipe)

\* The price of a Dutch auction never runs ahead of its clock (drop-price,
\* repeat: every): in the time since it opened it has come down by at most one
\* step per interval begun, and one more for a drop that a crash made run twice.
\* At the horizon time stands still while jobs go on.
PriceKeepsPace ==
  Dutch /\ auction.status # "NONE" /\ now < Horizon =>
    listing.price - auction.price
      <= listing.step * (CeilDiv(now - auction.opened, listing.interval) + faults)

\* endAuction: apart from an acceptance, and from a Dutch price that has no step
\* left above the floor, nothing ends an auction before the end it was created
\* with (bids and extensions included).
NeverClosedEarly ==
  auction.status = "ENDED" /\ auction.winner = NoBidder =>
    \/ now >= Clip(listing.end)
    \/ Dutch /\ (\/ auction.price <= listing.step
                 \/ auction.price - listing.step < listing.reserve)

\* The drop-price job writes a price it computed before an acceptance: the page
\* of a sold auction may show another price than was paid, but never by more
\* than the one step that was under way.
SoldWithinAStep ==
  auction.winner # NoBidder => auction.price \in {auction.paid, auction.paid - listing.step}

\* An open auction has what will close it: from createAuction to the end that it listed
\* its end-auction job is queued, unless a crash cut createAuction short; and an active
\* Dutch auction is on its clock, or about to be put on it by the handler or the job that
\* opened it, or by the reconciliation after a crash.
SomethingEndsIt ==
  auction.status \in {"PENDING", "ACTIVE"} =>
    /\ create = "done" /\ now < listing.end => jobs.end # 0
    /\ Dutch /\ auction.status = "ACTIVE" =>
         jobs.drop # 0 \/ create = "stored" \/ starting = "written" \/ ~up \/ ~reconciled

\* An auction whose end-auction job was queued is eventually closed, and so is an
\* active Dutch auction even if a crash lost its jobs: it is put back on its
\* clock at the next start and runs down.
EveryAuctionCloses ==
  (auction.status \in {"PENDING", "ACTIVE"} /\ jobs.end # 0)
    \/ (auction.status = "ACTIVE" /\ Dutch) ~> Closed

\* "If anti-sniping extends the endTime, the new end-auction job replaces the old one"
\* (book, chapter 14): it does not.
EndJobFollows == jobs.end # 0 => jobs.end >= Clip(auction.end)
=============================================================================
