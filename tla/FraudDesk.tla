----------------------------- MODULE FraudDesk -----------------------------
(***************************************************************************)
(* The fraud page of an administrator and the part of the back end that it *)
(* shows: the engine that times, flags, announces and stores, the          *)
(* handlers that count, list and dismiss flags, and the page with its      *)
(* live feed, its three polled queries and its buttons.                    *)
(*                                                                         *)
(* Scores, features and prices are left out: a bid is flagged or it is     *)
(* not.  A flag is a number, in the order in which the engine raised it.   *)
(* An administrator is signed in throughout.                               *)
(***************************************************************************)
EXTENDS Integers, Sequences, FiniteSetsExt, SequencesExt

CONSTANTS
  Bidders,
  Latencies,     \* how long it may take to score a bid
  RESERVOIR_SIZE,
  LIVE_CAP,      \* the length of the live feed
  Limit,         \* the length of the list of stored flags
  MaxBids,       \* bounds the bids
  MaxClicks,     \* bounds what administrators do
  MaxFaults      \* bounds lost connections, restarts, failing writes and queries

Queries == {"fraud-flags-stored", "fraud-stats", "fraud-perf"}

None == [none |-> TRUE]

VARIABLES
  ring,          \* LatencyRing
  scored,        \* history: the latencies since the ring was last emptied
  raised,        \* the flags raised so far: bidder of each
  storing,       \* flags whose insert is under way
  rows,          \* the table fraud_flags, oldest first
  suspended,     \* the bidders who are suspended
  connected,     \* the socket of the page, in the room admin:fraud
  wire,          \* fraud:flag events under way to the page
  live, online,  \* the feed, detectorOnline
  data,          \* what each query shows
  fetch,         \* the request of each query, with what was read for it
  sent,          \* requests of the buttons
  clicks, faults

engine == <<ring, scored, raised, storing>>
tables == <<rows, suspended>>
socket == <<connected, wire>>
page   == <<live, online, data, fetch, sent>>
vars   == <<engine, tables, socket, page, clicks, faults>>

-----------------------------------------------------------------------------
(* The engine                                                              *)

EmptyRing == [buf |-> [i \in 0 .. RESERVOIR_SIZE - 1 |-> 0], idx |-> 0, full |-> FALSE, total |-> 0]

Added(r, ms) ==
  LET next == (r.idx + 1) % RESERVOIR_SIZE
  IN  [buf |-> [r.buf EXCEPT ![r.idx] = ms], idx |-> next, full |-> r.full \/ next = 0, total |-> r.total + 1]

\* The percentiles are picked from the sorted sample; the largest stands for them.
Snapshot(r) ==
  LET size == IF r.full THEN RESERVOIR_SIZE ELSE r.idx
  IN  [samples |-> r.total, size |-> size,
       max |-> Max({0} \cup {r.buf[i] : i \in 0 .. size - 1})]

\* The event is emitted before the row is stored, and nothing waits for the row.
OnBid(b, ms, flagged) ==
  /\ ring.total < MaxBids /\ Len(raised) < MaxBids
  /\ ring' = Added(ring, ms)
  /\ scored' = Append(scored, ms)
  /\ IF flagged
     THEN LET f == Len(raised) + 1
          IN  /\ raised' = Append(raised, b)
              /\ storing' = storing \cup {f}
              /\ wire' = IF connected THEN Append(wire, f) ELSE wire
     ELSE UNCHANGED <<raised, storing, wire>>
  /\ UNCHANGED <<tables, connected, page, clicks, faults>>

Store(f) ==
  /\ f \in storing
  /\ storing' = storing \ {f}
  /\ rows' = Append(rows, [id |-> f, bidder |-> raised[f], dismissed |-> FALSE])
  /\ UNCHANGED <<ring, scored, raised, suspended, socket, page, clicks, faults>>

Fault == faults < MaxFaults /\ faults' = faults + 1

\* Logged, and nothing else.
StoreFails(f) ==
  /\ Fault
  /\ f \in storing
  /\ storing' = storing \ {f}
  /\ UNCHANGED <<ring, scored, raised, tables, socket, page, clicks>>

Restart ==
  /\ Fault
  /\ ring' = EmptyRing /\ scored' = <<>> /\ storing' = {}
  /\ connected' = FALSE /\ wire' = <<>>
  /\ fetch' = [q \in Queries |-> None]
  /\ sent' = {}
  /\ UNCHANGED <<raised, tables, live, online, data, clicks>>

-----------------------------------------------------------------------------
(* The handlers                                                            *)

\* z.coerce.boolean of a query parameter: every text but the empty one is true.
Coerced(text) == text # ""

Newest(s, n) == LET r == Reverse(s) IN SubSeq(r, 1, IF n < Len(r) THEN n ELSE Len(r))

getFraudFlags(dismissed) ==
  LET Chosen(row) == row.dismissed = Coerced(dismissed)
      chosen == Newest(SelectSeq(rows, Chosen), Limit)
  IN  [i \in DOMAIN chosen |-> [id |-> chosen[i].id, bidder |-> chosen[i].bidder,
                                isSuspended |-> chosen[i].bidder \in suspended]]

Undismissed == LET Open(row) == ~row.dismissed IN Len(SelectSeq(rows, Open))
Flagged     == {rows[i].bidder : i \in DOMAIN rows}

\* What a query is answered from: getFraudStats reads three times at once, and then the users.
Parts(q) == IF q = "fraud-stats" THEN {"total", "undismissed", "top", "users"} ELSE {"all"}

Asked(q) ==
  CASE q = "fraud-stats"        -> [read |-> {}, total |-> 0, undismissed |-> 0, top |-> {}, users |-> {}]
    [] q = "fraud-flags-stored" -> [read |-> {}, flags |-> <<>>]
    [] q = "fraud-perf"         -> [read |-> {}, perf |-> Snapshot(EmptyRing)]

\* The page sends false, which arrives as text.
Result(q, part) ==
  LET r == [fetch[q] EXCEPT !.read = @ \cup {part}]
  IN  CASE part = "total"       -> [r EXCEPT !.total = Len(rows)]
        [] part = "undismissed" -> [r EXCEPT !.undismissed = Undismissed]
        [] part = "top"         -> [r EXCEPT !.top = Flagged]
        [] part = "users"       -> [r EXCEPT !.users = r.top \cap suspended]
        [] q = "fraud-perf"     -> [r EXCEPT !.perf = Snapshot(ring)]
        [] OTHER                -> [r EXCEPT !.flags = getFraudFlags("false")]

Read(q, part) ==
  /\ fetch[q] # None /\ part \notin fetch[q].read
  /\ part = "users" => fetch[q].read = Parts(q) \ {"users"}
  /\ fetch' = [fetch EXCEPT ![q] = Result(q, part)]
  /\ UNCHANGED <<engine, tables, socket, live, online, data, sent, clicks, faults>>

dismissFlag(f) ==
  rows' = [i \in DOMAIN rows |-> IF rows[i].id = f THEN [rows[i] EXCEPT !.dismissed = TRUE] ELSE rows[i]]

\* suspendUser does more, which is the matter of another module.
Serve(r) ==
  /\ r \in sent /\ ~r.done
  /\ sent' = (sent \ {r}) \cup {[r EXCEPT !.done = TRUE]}
  /\ CASE r.kind = "dismiss" -> dismissFlag(r.of) /\ UNCHANGED <<suspended, ring, scored>>
       [] r.kind = "suspend" -> suspended' = suspended \cup {r.of} /\ UNCHANGED <<rows, ring, scored>>
       [] r.kind = "reset"   -> ring' = EmptyRing /\ scored' = <<>> /\ UNCHANGED tables
  /\ UNCHANGED <<raised, storing, socket, live, online, data, fetch, clicks, faults>>

Click == clicks < MaxClicks /\ clicks' = clicks + 1

\* Another client of the documented route, for a flag it knows of.
DismissElsewhere(f) ==
  /\ Click
  /\ \E i \in DOMAIN rows : rows[i].id = f /\ ~rows[i].dismissed
  /\ dismissFlag(f)
  /\ UNCHANGED <<engine, suspended, socket, page, faults>>

-----------------------------------------------------------------------------
(* The page                                                                *)

\* invalidateQueries starts a query anew, except one that has never been answered.
Invalidated(qs) ==
  [q \in Queries |-> IF q \in qs /\ (fetch[q] = None \/ data[q] # None) THEN Asked(q) ELSE fetch[q]]

Listed == {"fraud-flags-stored", "fraud-stats"}

Deliver ==
  /\ wire # <<>>
  /\ wire' = Tail(wire)
  /\ online' = TRUE
  /\ live' = SubSeq(<<Head(wire)>> \o live, 1, IF Len(live) < LIVE_CAP THEN Len(live) + 1 ELSE LIVE_CAP)
  /\ fetch' = Invalidated(Listed)
  /\ UNCHANGED <<engine, tables, connected, data, sent, clicks, faults>>

\* The page passes no callback for a reconnection: nothing is fetched after one.
Disconnect ==
  /\ Fault /\ connected
  /\ connected' = FALSE /\ wire' = <<>>
  /\ UNCHANGED <<engine, tables, page, clicks>>

Reconnect ==
  /\ ~connected /\ connected' = TRUE
  /\ UNCHANGED <<engine, tables, wire, page, clicks, faults>>

\* refetchInterval
Poll(q) ==
  /\ fetch[q] = None
  /\ fetch' = [fetch EXCEPT ![q] = Asked(q)]
  /\ UNCHANGED <<engine, tables, socket, live, online, data, sent, clicks, faults>>

Answer(q) ==
  /\ fetch[q] # None /\ fetch[q].read = Parts(q)
  /\ data' = [data EXCEPT ![q] = fetch[q]]
  /\ fetch' = [fetch EXCEPT ![q] = None]
  /\ UNCHANGED <<engine, tables, socket, live, online, sent, clicks, faults>>

\* The query and its retry: what was shown stays.
QueryFails(q) ==
  /\ Fault /\ fetch[q] # None
  /\ fetch' = [fetch EXCEPT ![q] = None]
  /\ UNCHANGED <<engine, tables, socket, live, online, data, sent, clicks>>

Inbox == IF data["fraud-flags-stored"] = None THEN {} ELSE ToSet(data["fraud-flags-stored"].flags)
TopBidders == IF data["fraud-stats"] = None THEN {} ELSE data["fraud-stats"].top
ShownSuspended == IF data["fraud-stats"] = None THEN {} ELSE data["fraud-stats"].users

\* The buttons that the page offers.
Offered ==
       {[kind |-> "dismiss", of |-> row.id] : row \in Inbox}
  \cup {[kind |-> "suspend", of |-> row.bidder] : row \in {r \in Inbox : ~r.isSuspended}}
  \cup {[kind |-> "suspend", of |-> b] : b \in TopBidders \ ShownSuspended}
  \cup (IF data["fraud-perf"] # None /\ data["fraud-perf"].perf.samples > 0
        THEN {[kind |-> "reset", of |-> "perf"]} ELSE {})

Press(button) ==
  /\ Click
  /\ button \in Offered
  /\ sent' = sent \cup {[kind |-> button.kind, of |-> button.of, done |-> FALSE]}
  /\ UNCHANGED <<engine, tables, socket, live, online, data, fetch, faults>>

Invalidates(kind) ==
  CASE kind = "dismiss" -> Listed
    [] kind = "suspend" -> {"fraud-flags-stored"}
    [] kind = "reset"   -> {"fraud-perf"}

Done(r) ==
  /\ r \in sent /\ r.done
  /\ sent' = sent \ {r}
  /\ fetch' = Invalidated(Invalidates(r.kind))
  /\ UNCHANGED <<engine, tables, socket, live, online, data, clicks, faults>>

\* A request or its answer is lost: only the reset goes on as if it had been answered.
Lose(r) ==
  /\ Fault /\ r \in sent
  /\ sent' = sent \ {r}
  /\ fetch' = IF r.kind = "reset" THEN Invalidated({"fraud-perf"}) ELSE fetch
  /\ UNCHANGED <<engine, tables, socket, live, online, data, clicks>>

-----------------------------------------------------------------------------
Init ==
  /\ ring = EmptyRing /\ scored = <<>> /\ raised = <<>> /\ storing = {}
  /\ rows = <<>> /\ suspended = {}
  /\ connected = TRUE /\ wire = <<>>
  /\ live = <<>> /\ online = FALSE
  /\ data = [q \in Queries |-> None] /\ fetch = [q \in Queries |-> Asked(q)]
  /\ sent = {} /\ clicks = 0 /\ faults = 0

Query(q)     == Poll(q) \/ Answer(q) \/ \E part \in Parts(q) : Read(q, part)
FlagsStored  == \E f \in storing : Store(f) \/ StoreFails(f)
FlagRaised   == \E b \in Bidders, ms \in Latencies, flagged \in BOOLEAN : OnBid(b, ms, flagged)
Buttons      == \E r \in sent : Serve(r) \/ Done(r) \/ Lose(r)

Next ==
  \/ FlagRaised \/ FlagsStored \/ Restart
  \/ \E f \in DOMAIN raised : DismissElsewhere(f)
  \/ Deliver \/ Disconnect \/ Reconnect
  \/ \E q \in Queries : Query(q) \/ QueryFails(q)
  \/ \E button \in Offered : Press(button)
  \/ Buttons

\* Intervals fire, requests are answered, the socket reconnects.
Fairness ==
  /\ \A q \in Queries : WF_vars(Query(q))
  /\ \A f \in 1 .. MaxBids : WF_vars(Store(f))
  /\ WF_vars(Deliver) /\ WF_vars(Reconnect)
  /\ WF_vars(\E r \in sent : Serve(r) \/ Done(r))

Spec == Init /\ [][Next]_vars /\ Fairness

-----------------------------------------------------------------------------
(* Properties                                                              *)

TypeOK ==
  /\ ring.idx \in 0 .. RESERVOIR_SIZE - 1 /\ ring.total \in 0 .. MaxBids
  /\ raised \in Seq(Bidders) /\ storing \subseteq DOMAIN raised
  /\ \A i \in DOMAIN rows : rows[i].id \in DOMAIN raised /\ rows[i].bidder = raised[rows[i].id]
  /\ suspended \subseteq Bidders
  /\ DOMAIN data = Queries /\ DOMAIN fetch = Queries

\* The ring of the engine holds the latest latencies, no more and no fewer than were measured
\* since it was last emptied, also while it is filled for the first time and after a reset.
RingHoldsLatest ==
  LET n == Len(scored)
      latest == SubSeq(scored, IF n > RESERVOIR_SIZE THEN n - RESERVOIR_SIZE + 1 ELSE 1, n)
  IN  Snapshot(ring) = [samples |-> n, size |-> Len(latest), max |-> Max({0} \cup ToSet(latest))]

\* A suspension shows in the end in the list of the top bidders, although the page does not ask
\* for that list again when it has suspended somebody, and although its reads are not one.
SuspensionShows ==
  \A b \in Bidders : (b \in suspended /\ b \in Flagged) ~> (b \in TopBidders /\ b \in ShownSuspended)

\* Every stored flag is counted in the end, although its event, which makes the page ask, is
\* emitted before the row is there and may be lost with the connection.
FlagsAreCounted ==
  \A n \in 1 .. MaxBids :
    (Len(rows) >= n) ~> (data["fraud-stats"] # None /\ data["fraud-stats"].total >= n)

\* A constraint, to look at the ring alone.
Unflagged == raised = <<>>

-----------------------------------------------------------------------------
(* What the documentation says                                             *)

\* "Open flags (DB)": a flag that is stored and not dismissed is listed or gets dismissed.
OpenFlagsShown ==
  \A f \in 1 .. MaxBids :
    (\E i \in DOMAIN rows : rows[i].id = f) ~>
      ((\E row \in Inbox : row.id = f) \/ (\E i \in DOMAIN rows : rows[i].id = f /\ rows[i].dismissed))

\* "Shows Online when the engine is active, Offline when it is not": without faults it always is.
OnlineAsActive == (Len(scored) > 0 /\ data["fraud-perf"] # None) ~> online

\* The engine "emits a fraud:flag event AND persists a FraudFlag row": what is announced is stored.
AnnouncedIsStored ==
  \A f \in 1 .. MaxBids :
    (\E i \in DOMAIN live : live[i] = f) ~> (\E i \in DOMAIN rows : rows[i].id = f)
=============================================================================
