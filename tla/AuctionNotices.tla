--------------------------- MODULE AuctionNotices ---------------------------
(***************************************************************************)
(* What an open auction page makes of the events of its room: the toasts   *)
(* of the ticker and their timer, the banner about the load, the announced *)
(* end and its countdown, the groups of rungs in the history. Events are   *)
(* emitted after the commit that they are about, the extension before it;  *)
(* a connection keeps their order and loses what comes while it is down.   *)
(***************************************************************************)
EXTENDS Integers, Sequences, FiniteSets

CONSTANTS
  Sealed,       \* whether the bids of the auction are sealed
  EndTime,      \* its endTime
  Snipe,        \* antiSnipingMins
  Stack,        \* max: the toasts shown at once
  Life,         \* dismissAfterMs
  Fade,         \* how long a toast takes to go
  Period,       \* of the ticker's interval
  BannerLife,   \* autoDismissMs
  Slow, Fast,   \* periods of the countdown
  Minute,       \* when the fast one is due
  Window,       \* how far apart the bids of a group may be
  Kinds,        \* the operations of others considered
  Pointer,      \* whether the pointer is moved
  MaxTime,      \* bounds the time
  MaxEvents,    \* bounds the operations
  MaxDrops      \* bounds the lost connections and the aborted bids

VARIABLES
  now,
  row,          \* the auction: its end, and whether it is over
  bids,         \* its bids, in the order of their amounts
  open,         \* the end that a bid announced which has not committed, or 0
  due,          \* events that are still to be emitted
  done,         \* operations so far
  wire,         \* events on their way to the page
  connected,
  drops,        \* connections lost and bids aborted so far
  shown,        \* what the queries of the page hold
  newEnd,       \* newEndTime, 0 if null
  recent,       \* recentBidId, 0 if null
  ladder,       \* the rungs of latestLadder, 0 if null
  banner,       \* backpressure: since when, and when its timer fires
  toasts,       \* events: those shown
  pushed,       \* toasts so far
  hovered,      \* the toast under the pointer, 0 if none
  tick,         \* when the interval of the ticker fires, 0 if there is none
  clock         \* of the countdown: what it shows, its period, when it fires

house   == <<row, bids, open, due, done>>
network == <<wire, connected, drops>>
data    == <<shown, newEnd, recent, ladder>>
ticker  == <<toasts, pushed, hovered, tick>>
noticeVars == <<now, house, network, data, banner, ticker, clock>>

-----------------------------------------------------------------------------
(* The auction                                                             *)

\* The payload of a sealed bid does not name its bidder.
Event(kind, bid, number, mine) == [kind |-> kind, bid |-> bid, number |-> number, mine |-> mine]

Manual(mine) == [mine |-> mine, ladder |-> 0, at |-> now]
Rung == [mine |-> FALSE, ladder |-> done + 1, at |-> now]

Operate(kind) ==
  /\ kind \in Kinds
  /\ done < MaxEvents
  /\ done' = done + 1
  /\ UNCHANGED <<now, network, data, banner, ticker, clock>>

Biddable == ~row.ended /\ now <= row.end /\ open = 0
Sniping == ~Sealed /\ Snipe > 0 /\ now >= row.end - Snipe

New(mine) == Event("new", Len(bids) + 1, 0, mine /\ ~Sealed)

Send(e) == wire' = IF connected THEN Append(wire, e) ELSE wire

PlaceBid(mine) ==
  /\ Biddable /\ ~Sniping
  /\ Operate("bid")
  /\ bids' = Append(bids, Manual(mine))
  /\ due' = due \cup {New(mine)}
  /\ UNCHANGED <<row, open>>

\* A bid in the last minutes: the extension is emitted inside the transaction.
Extend ==
  /\ "snipe" \in Kinds
  /\ Biddable /\ Sniping
  /\ done < MaxEvents
  /\ done' = done + 1
  /\ open' = now + Snipe
  /\ Send(Event("extended", 0, now + Snipe, FALSE))
  /\ UNCHANGED <<now, row, bids, due, connected, drops, data, banner, ticker, clock>>

CommitBid(mine) ==
  /\ open # 0
  /\ bids' = Append(bids, Manual(mine))
  /\ row' = [row EXCEPT !.end = open]
  /\ open' = 0
  /\ due' = due \cup {New(mine)}
  /\ UNCHANGED <<now, done, network, data, banner, ticker, clock>>

AbortBid ==
  /\ open # 0
  /\ drops < MaxDrops
  /\ drops' = drops + 1
  /\ open' = 0
  /\ UNCHANGED <<now, row, bids, due, done, wire, connected, data, banner, ticker, clock>>

\* A ladder: one event for all of its rungs.
Climb(rungs) ==
  /\ Biddable /\ ~Sealed
  /\ bids # <<>>
  /\ Operate("ladder")
  /\ bids' = bids \o [i \in 1 .. rungs |-> Rung]
  /\ due' = due \cup {Event("ladder", Len(bids) + rungs, rungs, FALSE)}
  /\ UNCHANGED <<row, open>>

End ==
  /\ ~row.ended /\ open = 0
  /\ Operate("end")
  /\ row' = [row EXCEPT !.ended = TRUE]
  /\ due' = due \cup {Event("ended", 0, 0, FALSE)}
  /\ UNCHANGED <<bids, open>>

\* The sequencer is saturated: told to admins.
Saturate ==
  /\ Operate("load")
  /\ due' = due \cup {Event("backpressure", 0, done + 1, FALSE)}
  /\ UNCHANGED <<row, bids, open>>

\* Handlers and workers emit what they have committed when they get to it.
Emit(e) ==
  /\ due' = due \ {e}
  /\ Send(e)
  /\ UNCHANGED <<now, row, bids, open, done, connected, drops, data, banner, ticker, clock>>

-----------------------------------------------------------------------------
(* The ticker                                                              *)

\* The toasts are stacked in the order of their numbers.
Oldest == CHOOSE t \in toasts : \A s \in toasts : t.id <= s.id

\* push: the newest comes first, and of a full stack the oldest goes. The interval starts
\* anew when the number of toasts has changed.
Push(kind) ==
  LET full == Cardinality(toasts) >= Stack
      new  == [id |-> pushed + 1, kind |-> kind, at |-> now, closing |-> FALSE]
  IN  /\ toasts' = (IF full THEN toasts \ {Oldest} ELSE toasts) \cup {new}
      /\ pushed' = pushed + 1
      /\ tick' = IF full THEN tick ELSE now + Period
      /\ UNCHANGED hovered

Clear == toasts' = {} /\ tick' = 0 /\ UNCHANGED <<pushed, hovered>>

Gone(t) == t.id # hovered /\ t.closing /\ now - t.at >= Fade
Left == {t \in toasts : ~Gone(t)}

\* The toast under the pointer is spared, whether it is going already or not.
Aged(t) ==
  IF t.id # hovered /\ ~t.closing /\ now - t.at >= Life
  THEN [t EXCEPT !.closing = TRUE, !.at = now]
  ELSE t

\* Mutation: a timeout takes the place of the interval.
TickOnce ==
  /\ tick = now
  /\ toasts' = {Aged(t) : t \in Left}
  /\ tick' = 0
  /\ UNCHANGED <<now, house, network, data, banner, pushed, hovered, clock>>

Tick ==
  /\ tick = now
  /\ toasts' = {Aged(t) : t \in Left}
  /\ tick' = IF Left = {} THEN 0 ELSE now + Period
  /\ UNCHANGED <<now, house, network, data, banner, pushed, hovered, clock>>

\* The pointer leaves one toast before it enters another; one that vanishes is not left.
Enter(t) ==
  /\ Pointer /\ \A s \in toasts : hovered # s.id
  /\ hovered' = t.id
  /\ UNCHANGED <<now, house, network, data, banner, toasts, pushed, tick, clock>>

Leave(t) ==
  /\ hovered = t.id
  /\ hovered' = 0
  /\ toasts' = (toasts \ {t}) \cup {[t EXCEPT !.at = now]}
  /\ UNCHANGED <<now, house, network, data, banner, pushed, tick, clock>>

-----------------------------------------------------------------------------
(* The page                                                                *)

\* Mutation: the announced end is not kept.
EffectiveFetched == shown.end

Effective == IF newEnd # 0 THEN newEnd ELSE shown.end
EffectiveNext == IF newEnd' # 0 THEN newEnd' ELSE shown'.end

\* The effect of the countdown runs again only when the end it is given changes.
Paced(end) == LET p == IF end > now /\ end - now < Minute THEN Fast ELSE Slow
              IN  [shows |-> clock.shows, period |-> p, next |-> now + p]
Pace == clock' = IF EffectiveNext = Effective THEN clock ELSE Paced(EffectiveNext)

NoBanner == [since |-> 0, fires |-> 0]

\* Each render of the page gives the banner another onDismiss, and its timer starts anew.
Rendered == banner' = IF banner = NoBanner THEN banner ELSE [banner EXCEPT !.fires = now + BannerLife]

HandleNew(e) ==
  /\ e.kind = "new"
  /\ recent' = e.bid
  /\ banner' = NoBanner
  /\ IF e.mine THEN UNCHANGED ticker ELSE Push("manual")
  /\ UNCHANGED <<shown, newEnd, ladder>>

HandleLadder(e) ==
  /\ e.kind = "ladder"
  /\ recent' = e.bid
  /\ ladder' = e.number
  /\ Rendered
  /\ IF e.number >= 2 THEN Push("ladder") ELSE UNCHANGED ticker
  /\ UNCHANGED <<shown, newEnd>>

HandleExtended(e) ==
  /\ e.kind = "extended"
  /\ newEnd' = e.number
  /\ Rendered
  /\ Push("extended")
  /\ UNCHANGED <<shown, recent, ladder>>

HandleEnded(e) ==
  /\ e.kind = "ended"
  /\ Clear
  /\ UNCHANGED <<data, banner>>

HandleLoad(e) ==
  /\ e.kind = "backpressure"
  /\ banner' = [since |-> now, fires |-> now + BannerLife]
  /\ Push("backpressure")
  /\ UNCHANGED data

Handle ==
  /\ wire # <<>>
  /\ LET e == Head(wire)
     IN  HandleNew(e) \/ HandleLadder(e) \/ HandleExtended(e) \/ HandleEnded(e) \/ HandleLoad(e)
  /\ wire' = Tail(wire)
  /\ Pace
  /\ UNCHANGED <<now, house, connected, drops>>

\* The answers of the queries that events and reconnections make the page fetch again.
Read == [end |-> row.end, ended |-> row.ended, bids |-> Len(bids)]

Refetch ==
  /\ shown # Read
  /\ shown' = Read
  /\ Rendered
  /\ UNCHANGED <<newEnd, recent, ladder>>
  /\ Pace
  /\ UNCHANGED <<now, house, network, ticker>>

\* The viewer types, which renders the page, or closes the banner, or its timer fires.
Typing ==
  /\ banner # NoBanner /\ banner.fires # now + BannerLife
  /\ Rendered
  /\ UNCHANGED <<now, house, network, data, ticker, clock>>

Dismiss ==
  /\ banner # NoBanner
  /\ banner' = NoBanner
  /\ UNCHANGED <<now, house, network, data, ticker, clock>>

CountDown ==
  /\ clock.next = now
  /\ clock' = [clock EXCEPT !.shows = now, !.next = now + clock.period]
  /\ UNCHANGED <<now, house, network, data, banner, ticker>>

-----------------------------------------------------------------------------
(* The connection, time                                                    *)

Disconnect ==
  /\ connected
  /\ drops < MaxDrops
  /\ connected' = FALSE
  /\ wire' = <<>>
  /\ drops' = drops + 1
  /\ UNCHANGED <<now, house, data, banner, ticker, clock>>

Reconnect ==
  /\ ~connected
  /\ connected' = TRUE
  /\ UNCHANGED <<now, house, wire, drops, data, banner, ticker, clock>>

\* Timers fire when they are due.
Pass ==
  /\ now < MaxTime
  /\ now \notin {tick, clock.next}
  /\ banner # NoBanner => now # banner.fires
  /\ now' = now + 1
  /\ UNCHANGED <<house, network, data, banner, ticker, clock>>

NoticesInit ==
  /\ now = 1
  /\ row = [end |-> EndTime, ended |-> FALSE]
  /\ bids = <<>>
  /\ open = 0
  /\ due = {}
  /\ done = 0
  /\ wire = <<>>
  /\ connected = TRUE
  /\ drops = 0
  /\ shown = Read
  /\ newEnd = 0
  /\ recent = 0
  /\ ladder = 0
  /\ banner = NoBanner
  /\ toasts = {}
  /\ pushed = 0
  /\ hovered = 0
  /\ tick = 0
  /\ clock = [shows |-> 1, period |-> Slow, next |-> 1 + Slow]

NoticesNext ==
  \/ \E mine \in BOOLEAN : PlaceBid(mine) \/ CommitBid(mine)
  \/ Extend \/ AbortBid
  \/ Climb(1) \/ Climb(2)
  \/ End \/ Saturate
  \/ \E e \in due : Emit(e)
  \/ Tick
  \/ \E t \in toasts : Enter(t) \/ Leave(t)
  \/ Handle \/ Refetch \/ Typing \/ Dismiss \/ CountDown
  \/ Disconnect \/ Reconnect
  \/ Pass

NoticesSpec == NoticesInit /\ [][NoticesNext]_noticeVars

-----------------------------------------------------------------------------
(* Properties                                                              *)

\* A toast that is not under the pointer begins to go in time, although every toast that
\* comes or goes starts the interval anew: it can be put off once per place of the stack.
ToastsLeave ==
  \A t \in toasts :
    t.id # hovered /\ ~t.closing => now - t.at < Life + Stack * Period

\* Without losses and aborted bids the page shows the end of the auction as soon as it
\* has handled what was emitted, whatever order its queries are answered in.
EndAsAnnounced ==
  drops = 0 /\ wire = <<>> /\ open = 0 /\ row.end # EndTime => Effective = row.end

-----------------------------------------------------------------------------
(* What documents and comments say and the code does not do                *)

\* "Refetch everything after a socket reconnect": a page that is connected, has handled
\* every event and read the auction again shows its end.
EndFollows ==
  connected /\ wire = <<>> /\ due = {} /\ open = 0 /\ shown = Read => Effective = row.end

\* "So the displayed seconds are never stale by more than 250 ms" in the final minute.
FreshInTheEnd ==
  Effective > now /\ Effective - now < Minute => now - clock.shows <= Fast

\* "But ONLY for bids by other users."
NoToastForOwn ==
  [][\A i \in DOMAIN bids : bids[i].mine /\ recent' = i /\ recent # i => toasts' = toasts]_noticeVars

\* "Currently hovered events live forever until pointer leaves."
HoveredStay ==
  [][\A t \in toasts : t.id = hovered => \E s \in toasts' : s.id = hovered]_noticeVars

\* "So leftover toasts don't linger over the WINNER / UNSOLD UI": none comes any more.
QuietAfterEnd == [][shown.ended => pushed' = pushed]_noticeVars

\* "Auto-dismisses after 8 s."
BannerLeaves == banner # NoBanner => now - banner.since <= BannerLife

\* BidTable groups neighbours that are auto-bids and close in time: "these bids were one
\* auto-bid resolution".
Grouped(i) ==
  /\ bids[i].ladder # 0 /\ bids[i + 1].ladder # 0
  /\ bids[i + 1].at - bids[i].at <= Window
GroupsAreLadders ==
  \A i \in 1 .. Len(bids) - 1 : Grouped(i) => bids[i].ladder = bids[i + 1].ladder
=============================================================================
