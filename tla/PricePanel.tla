----------------------------- MODULE PricePanel -----------------------------
(***************************************************************************)
(* The panel of an auction page with which a viewer bids, accepts a Dutch  *)
(* price, arms an auto-bid and rates the other party: what is typed, the   *)
(* requests under way, the messages and disabled buttons, against a server *)
(* on which others bid too. Answers may be lost. Clicks whose request has  *)
(* no state of its own in the panel (watchlist, buy now) are in LivePages. *)
(***************************************************************************)
EXTENDS Integers, Sequences, FiniteSets

CONSTANTS
  Types,        \* the types of auction considered
  Amounts,      \* what a viewer types
  Start,        \* startingPrice
  Inc,          \* minIncrement
  Top,          \* bounds what others bid
  MaxTyped,     \* bounds how often something is typed or a price accepted
  MaxSent,      \* bounds the requests
  Losses        \* whether answers may be lost

VARIABLES
  type,         \* the type of the auction
  server,       \* its row, as the page can read it
  placed,       \* the viewer's bids that hold money: what they were typed as
  shown,        \* the queries of the page
  typed,        \* everything the viewer has typed into the bid field
  field,        \* the entry of typed that is in the field, 0 if it is empty
  limit,        \* the field of the auto-bid, 0 if it is empty
  busy,         \* the flags that disable buttons
  messages,     \* which of bidErr and bidSuccess are shown
  sent,         \* requests made so far
  calls         \* requests under way

page == <<shown, typed, field, limit, busy, messages>>
vars == <<type, server, placed, page, sent, calls>>

-----------------------------------------------------------------------------
(* The auction and the panel                                               *)

Row == [price  : Nat,
        open   : BOOLEAN,                \* status = ACTIVE
        leader : {"none", "me", "other"},
        auto   : Nat,                    \* maxAmount of the active auto-bid, or 0
        rated  : BOOLEAN]

NextMin(row) == row.price + Inc

\* AutoBidHealth.
Health(row) ==
  IF row.leader = "me" THEN "WINNING" ELSE IF row.price >= row.auto THEN "EXHAUSTED" ELSE "ARMED"

Kinds == {"bid", "arm", "disarm", "rate"}
Quiet == [k \in Kinds |-> FALSE]

Request(kind, entry, amount) == [id |-> sent + 1, kind |-> kind, entry |-> entry, amount |-> amount, step |-> "sent"]

Send(kind, entry, amount) ==
  /\ sent < MaxSent
  /\ sent' = sent + 1
  /\ calls' = calls \cup {Request(kind, entry, amount)}
  /\ busy' = [busy EXCEPT ![kind] = TRUE]

\* The checks of placeBid before it posts. Those of an English bid use what is shown.
Postable(amount) ==
  /\ amount > 0
  /\ type = "ENGLISH" /\ shown.open => amount >= NextMin(shown)
  /\ type = "SEALED_BID" => amount > Start

\* placeBid with an entry: an error, or a request.
Submit(entry) ==
  IF Postable(typed[entry])
  THEN Send("bid", entry, typed[entry]) /\ messages' = {}
  ELSE messages' = {"error"} /\ UNCHANGED <<busy, sent, calls>>

-----------------------------------------------------------------------------
(* The viewer                                                              *)

CanBid == shown.open

Type(a) ==
  /\ CanBid /\ type # "DUTCH"
  /\ Len(typed) < MaxTyped
  /\ typed' = Append(typed, a)
  /\ field' = Len(typed) + 1
  /\ UNCHANGED <<type, server, placed, shown, limit, busy, messages, sent, calls>>

\* Enter in the field does what the button does, and does not ask whether it is disabled.
Place(key) ==
  /\ CanBid /\ type # "DUTCH"
  /\ key = "click" => ~busy["bid"]
  /\ field # 0
  /\ Submit(field)
  /\ UNCHANGED <<type, server, placed, shown, typed, field, limit>>

\* Accept: the price is put into the field, and placeBid of the same render still has
\* the field as it was.
AcceptPrice ==
  /\ CanBid /\ type = "DUTCH"
  /\ ~busy["bid"]
  /\ Len(typed) < MaxTyped
  /\ typed' = Append(typed, shown.price)
  /\ field' = Len(typed) + 1
  /\ IF field = 0 THEN UNCHANGED <<messages, busy, sent, calls>> ELSE Submit(field)
  /\ UNCHANGED <<type, server, placed, shown, limit>>

TypeLimit(a) ==
  /\ CanBid /\ type # "SEALED_BID" /\ shown.auto = 0
  /\ limit # a
  /\ limit' = a
  /\ UNCHANGED <<type, server, placed, shown, typed, field, busy, messages, sent, calls>>

SetAutoBid ==
  /\ CanBid /\ type # "SEALED_BID" /\ shown.auto = 0
  /\ limit # 0 /\ ~busy["arm"]
  /\ Send("arm", 0, limit)
  /\ messages' = messages \ {"error"}
  /\ UNCHANGED <<type, server, placed, shown, typed, field, limit>>

CancelAutoBid ==
  /\ CanBid /\ type # "SEALED_BID" /\ shown.auto # 0
  /\ ~busy["disarm"]
  /\ Send("disarm", 0, 0)
  /\ UNCHANGED <<type, server, placed, shown, typed, field, limit, messages>>

\* The winner and the seller rate each other: here the viewer is the winner. (The panel
\* goes once a rating is stored.)
SubmitRating ==
  /\ ~shown.open /\ shown.leader = "me" /\ ~shown.rated
  /\ ~busy["rate"]
  /\ Send("rate", 0, 0)
  /\ UNCHANGED <<type, server, placed, shown, typed, field, limit, messages>>

-----------------------------------------------------------------------------
(* The server                                                              *)

\* What placeBid accepts, the funds of the bidder apart.
Acceptable(amount) ==
  /\ server.open
  /\ CASE type = "ENGLISH"    -> amount >= NextMin(server)
       [] type = "DUTCH"      -> amount = server.price
       [] type = "SEALED_BID" -> amount > Start

\* Mutation: a bid at the price of the auction is good enough.
AcceptableEqual(amount) ==
  /\ server.open
  /\ CASE type = "ENGLISH"    -> amount >= server.price
       [] type = "DUTCH"      -> amount = server.price
       [] type = "SEALED_BID" -> amount > Start

AfterBid(amount) ==
  CASE type = "ENGLISH"    -> [server EXCEPT !.price = amount, !.leader = "me"]
    [] type = "DUTCH"      -> [server EXCEPT !.open = FALSE, !.leader = "me"]
    [] type = "SEALED_BID" -> server

\* setAutoBid: a limit above the price, or a target below it.
Armable(amount) ==
  /\ server.open
  /\ CASE type = "ENGLISH"    -> amount > server.price
       [] type = "DUTCH"      -> amount < server.price
       [] type = "SEALED_BID" -> FALSE

\* rateUser requires "score"; the panel posts "rating".
Posted == {"rateeId", "auctionId", "rating", "comment"}
Required == {"rateeId", "auctionId", "score"}

Done(c, result) == calls' = (calls \ {c}) \cup {[c EXCEPT !.step = result]}

ServeBid(c) ==
  /\ c.kind = "bid" /\ Acceptable(c.amount)
  /\ server' = AfterBid(c.amount)
  /\ placed' = Append(placed, c.entry)
  /\ Done(c, "ok")

ServeOther(c) ==
  /\ CASE c.kind = "arm"    -> Armable(c.amount) /\ server' = [server EXCEPT !.auto = c.amount]
       [] c.kind = "disarm" -> server' = [server EXCEPT !.auto = 0]
       [] c.kind = "rate"   -> Required \subseteq Posted /\ ~server.rated /\ server' = [server EXCEPT !.rated = TRUE]
       [] OTHER             -> FALSE
  /\ UNCHANGED placed
  /\ Done(c, "ok")

\* A check that fails, or (bids and auto-bids) a wallet that does not cover the amount.
Refuse(c) ==
  /\ c.kind = "disarm" => FALSE
  /\ c.kind = "rate" => ~(Required \subseteq Posted) \/ server.rated
  /\ UNCHANGED <<server, placed>>
  /\ Done(c, "refused")

Serve(c) ==
  /\ c.step = "sent"
  /\ ServeBid(c) \/ ServeOther(c) \/ Refuse(c)
  /\ UNCHANGED <<type, page, sent>>

\* Others bid, and a ladder or a target answers for the viewer; a Dutch price drops, or
\* another accepts it; the auction ends.
OthersBid ==
  /\ type = "ENGLISH" /\ server.open
  /\ \E a \in NextMin(server) .. Top : server' = [server EXCEPT !.price = a, !.leader = "other"]

Ladder ==
  /\ type = "ENGLISH" /\ server.open
  /\ server.leader = "other" /\ server.auto >= NextMin(server)
  /\ server' = [server EXCEPT !.price = NextMin(server), !.leader = "me"]

TargetReached ==
  /\ type = "DUTCH" /\ server.open
  /\ server.price <= server.auto
  /\ server' = [server EXCEPT !.open = FALSE, !.leader = "me"]

Drop ==
  /\ type = "DUTCH" /\ server.open
  /\ server.price > Inc
  /\ server' = [server EXCEPT !.price = @ - Inc]

OtherAccepts ==
  /\ type = "DUTCH" /\ server.open
  /\ server' = [server EXCEPT !.open = FALSE, !.leader = "other"]

End ==
  /\ server.open
  /\ \E who \in IF type # "SEALED_BID" THEN {server.leader}
                ELSE {"none", "other"} \cup (IF placed = <<>> THEN {} ELSE {"me"}) :
       server' = [server EXCEPT !.open = FALSE, !.leader = who]

Others ==
  /\ OthersBid \/ Ladder \/ TargetReached \/ Drop \/ OtherAccepts \/ End
  /\ UNCHANGED <<type, placed, page, sent, calls>>

-----------------------------------------------------------------------------
(* Answers                                                                 *)

\* The queries are read again: after the viewer's own requests, and on events.
Refetch ==
  /\ shown # server
  /\ shown' = server
  /\ UNCHANGED <<type, server, placed, typed, field, limit, busy, messages, sent, calls>>

\* The answer to a bid empties the field whatever is in it by now.
Succeed(c) ==
  /\ c.step = "ok"
  /\ field' = IF c.kind = "bid" THEN 0 ELSE field
  /\ limit' = IF c.kind = "arm" THEN 0 ELSE limit
  /\ messages' = IF c.kind = "disarm" THEN messages ELSE messages \cup {"done"}

Fail(c) ==
  /\ c.step = "refused" \/ Losses
  /\ messages' = IF c.kind = "disarm" THEN messages ELSE messages \cup {"error"}
  /\ UNCHANGED <<field, limit>>

\* "finally": the button is enabled again, whatever else is under way.
Answer(c) ==
  /\ Succeed(c) \/ Fail(c)
  /\ busy' = [busy EXCEPT ![c.kind] = FALSE]
  /\ calls' = calls \ {c}
  /\ UNCHANGED <<type, server, placed, shown, typed, sent>>

\* Mutation: the button is enabled when the request was served.
AnswerKeepsBusy(c) ==
  /\ Succeed(c) \/ Fail(c)
  /\ busy' = [busy EXCEPT ![c.kind] = c.step # "ok"]
  /\ calls' = calls \ {c}
  /\ UNCHANGED <<type, server, placed, shown, typed, sent>>

Init ==
  /\ type \in Types
  /\ server = [price |-> Start, open |-> TRUE, leader |-> "none", auto |-> 0, rated |-> FALSE]
  /\ placed = <<>>
  /\ shown = server
  /\ typed = <<>>
  /\ field = 0
  /\ limit = 0
  /\ busy = Quiet
  /\ messages = {}
  /\ sent = 0
  /\ calls = {}

Next ==
  \/ \E a \in Amounts : Type(a) \/ TypeLimit(a)
  \/ Place("click") \/ Place("enter") \/ AcceptPrice
  \/ SetAutoBid \/ CancelAutoBid \/ SubmitRating
  \/ \E c \in calls : Serve(c) \/ Answer(c)
  \/ Others
  \/ Refetch

Spec == Init /\ [][Next]_vars

-----------------------------------------------------------------------------
(* Properties                                                              *)

\* One amount typed, or one price accepted, is held at most once, however often Enter is
\* pressed, answers are lost and the viewer tries again (not in sealed auctions).
HeldOnce ==
  type # "SEALED_BID" =>
    \A i, j \in DOMAIN placed : placed[i] = placed[j] => i = j

\* A button is disabled only while a request of its kind is under way.
NoDeadButton == \A k \in Kinds : busy[k] => \E c \in calls : c.kind = k

-----------------------------------------------------------------------------
(* What documents and comments say and the code does not do                *)

\* "One bid per user; submitting again updates your bid."
OneBidPerUser == type = "SEALED_BID" => Len(placed) <= 1

\* "Accept the current price to win": a click on the button sends the price it shows.
AcceptSendsPrice ==
  [][AcceptPrice => \E c \in calls' \ calls : c.amount = shown.price]_vars

\* "Will auto-bid up to the cap the moment you are outbid": an armed auto-bid can bid.
ArmedCanBid == type = "ENGLISH" /\ server.auto # 0 /\ Health(server) = "ARMED" => server.auto >= NextMin(server)

\* "Both parties can rate each other": a rating that is served is stored.
RatingsAreStored ==
  [][\A c \in calls : c.kind = "rate" /\ Serve(c) => server'.rated]_vars
=============================================================================
