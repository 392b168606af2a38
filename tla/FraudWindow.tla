---------------------------- MODULE FraudWindow ----------------------------
(***************************************************************************)
(* The fraud detector of one server process: the sliding window of bids    *)
(* that BidGraph keeps in memory, pruned only when a bid arrives, and what *)
(* extractFeatures reads from it.  placeBid starts the detector after its  *)
(* commit and does not wait for it: two rows are read, and then onBid runs *)
(* without a pause up to the score.                                        *)
(*                                                                         *)
(* An event of the graph carries its number of arrival: an array of events *)
(* is the set of its elements, in the order of their numbers.  The clock   *)
(* of the process does not go back.                                        *)
(***************************************************************************)
EXTENDS Integers, FiniteSets

CONSTANTS
  Bidders,
  Auctions,
  Seller,      \* [Auctions -> the user who sells it]
  Window,      \* WINDOW_MS
  FirstBid,    \* the neutral response time of a first bid
  MaxTime,     \* bound: the clock
  MaxBids      \* bound: bids placed

VARIABLES
  now,
  bids,            \* bids placed so far
  detectors,       \* detectors that placeBid has started and that are still reading
  auctionBids,     \* BidGraph: the events of each auction
  bidderHistory,   \* BidGraph: the events of each bidder
  features,        \* FeatureVector of the last event
  arrived,         \* history: all events since the process started
  newest           \* history: time of the last event

vars == <<now, bids, detectors, auctionBids, bidderHistory, features, arrived, newest>>

Event == [n: Nat \ {0}, bid: Nat \ {0}, auction: Auctions, bidder: Bidders, ts: Nat]

Detector == [bid: Nat \ {0}, auction: Auctions, bidder: Bidders]

-----------------------------------------------------------------------------
(* BidGraph                                                                *)

\* prune
Recent(events, ts) == {e \in events : e.ts >= ts - Window}

\* add: both maps are pruned as a whole, then the event is pushed.
AddTo(map, key, event) ==
  [k \in DOMAIN map |-> Recent(map[k], event.ts) \cup IF k = key THEN {event} ELSE {}]

\* bidderSellerCoOccurrence
AuctionsOf(events, seller) == {e.auction : e \in {b \in events : Seller[b.auction] = seller}}

-----------------------------------------------------------------------------
(* extractFeatures                                                         *)

\* The last of some events.
Last(events) == CHOOSE e \in events : \A f \in events : f.n <= e.n

\* Who has outbid whom: the bidder of an event the last other bidder before it.
Outbids(events) ==
  LET before(e) == {f \in events : f.n < e.n /\ f.bidder # e.bidder}
  IN  {<<e.bidder, Last(before(e)).bidder>> : e \in {f \in events : before(f) # {}}}

\* reciprocityScore: the pairs of bidders that have outbid each other, among all pairs.
ReciprocityScore(events) ==
  LET bidders == {e.bidder : e \in events}
      pairs   == {p \in SUBSET bidders : Cardinality(p) = 2}
      mutual  == {p \in pairs : \A u, v \in p : u # v => <<u, v>> \in Outbids(events)}
  IN  IF Cardinality(events) < 3 \/ pairs = {} THEN <<0, 1>>
      ELSE <<Cardinality(mutual), Cardinality(pairs)>>

\* By the event's auction (inAuction) and by its bidder (history). Amounts rise with the
\* numbers of the bids.
Features(event, inAuction, history) ==
  LET others   == {e \in inAuction : e.bidder # event.bidder}
      earlier  == inAuction \ {event}
  IN  [response  |-> IF others = {} THEN FirstBid ELSE event.ts - Last(others).ts,
       frequency |-> Cardinality(Recent(history, event.ts)),
       increment |-> IF earlier = {} THEN 0 ELSE event.bid - Last(earlier).bid,
       sellers   |-> Cardinality(AuctionsOf(history, Seller[event.auction])),
       reciprocity |-> ReciprocityScore(inAuction)]

-----------------------------------------------------------------------------
(* Actions                                                                 *)

\* A bid commits, and a detector begins to read the auction and the bidder.
PlaceBid(u, a) ==
  /\ bids < MaxBids
  /\ u # Seller[a]
  /\ bids' = bids + 1
  /\ detectors' = detectors \cup {[bid |-> bids + 1, auction |-> a, bidder |-> u]}
  /\ UNCHANGED <<now, auctionBids, bidderHistory, features, arrived, newest>>

\* onBid, called with Date.now() once both rows are there.
OnBid(d) ==
  LET event == [n |-> Cardinality(arrived) + 1, bid |-> d.bid, auction |-> d.auction,
                bidder |-> d.bidder, ts |-> now]
  IN  /\ detectors' = detectors \ {d}
      /\ auctionBids'   = AddTo(auctionBids, d.auction, event)
      /\ bidderHistory' = AddTo(bidderHistory, d.bidder, event)
      /\ features' = Features(event, auctionBids'[d.auction], bidderHistory'[d.bidder])
      /\ arrived' = arrived \cup {event}
      /\ newest' = now
      /\ UNCHANGED <<now, bids>>

\* A row could not be read: the detector must not affect the bid.
ReadFails(d) ==
  /\ detectors' = detectors \ {d}
  /\ UNCHANGED <<now, bids, auctionBids, bidderHistory, features, arrived, newest>>

Tick ==
  /\ now < MaxTime
  /\ now' = now + 1
  /\ UNCHANGED <<bids, detectors, auctionBids, bidderHistory, features, arrived, newest>>

NoFeatures == [response |-> FirstBid, frequency |-> 0, increment |-> 0, sellers |-> 0,
               reciprocity |-> <<0, 1>>]

NoEvents(keys) == [k \in keys |-> {}]

\* The process dies and is started again: its memory is gone.
Restart ==
  /\ detectors'     = {}
  /\ auctionBids'   = NoEvents(Auctions)
  /\ bidderHistory' = NoEvents(Bidders)
  /\ features'      = NoFeatures
  /\ arrived'       = {}
  /\ newest'        = 0
  /\ UNCHANGED <<now, bids>>

Init ==
  /\ now           = 0
  /\ bids          = 0
  /\ detectors     = {}
  /\ auctionBids   = NoEvents(Auctions)
  /\ bidderHistory = NoEvents(Bidders)
  /\ features      = NoFeatures
  /\ arrived       = {}
  /\ newest        = 0

Next ==
  \/ \E u \in Bidders, a \in Auctions : PlaceBid(u, a)
  \/ \E d \in detectors : OnBid(d) \/ ReadFails(d)
  \/ Tick
  \/ Restart

Spec == Init /\ [][Next]_vars

-----------------------------------------------------------------------------
(* Properties                                                              *)

WindowTypeOK ==
  /\ now \in Nat /\ bids \in Nat /\ newest \in Nat
  /\ detectors \subseteq Detector
  /\ auctionBids \in [Auctions -> SUBSET Event]
  /\ bidderHistory \in [Bidders -> SUBSET Event]
  /\ arrived \subseteq Event

Within(e) == e.ts >= newest - Window

\* The lazily pruned maps hold exactly the events of the last WINDOW_MINUTES, counted
\* back from the newest event, and agree with each other (fraud.graph.ts:28-41): what
\* a bidder is scored by is neither too old nor missing, whatever happened in between.
WindowExact ==
  /\ \A a \in Auctions : auctionBids[a] = {e \in arrived : e.auction = a /\ Within(e)}
  /\ \A u \in Bidders : bidderHistory[u] = {e \in arrived : e.bidder = u /\ Within(e)}

\* A response time read from the graph is never negative and never longer than the
\* window (fraud.features.ts:25-32), although detectors overtake each other.
ResponseInWindow ==
  features.response \in 0..Window \cup {FirstBid}

\* "ordered list of BidEvent (most-recent last)" (fraud.graph.ts:9): the event before
\* in the graph is the bid before. Detectors that overtake each other make the
\* increment that extractFeatures computes negative.
IncrementsRise == features.increment >= 0
=============================================================================
