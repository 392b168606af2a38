----------------------------- MODULE LivePages -----------------------------
(***************************************************************************)
(* What a signed-in user (an admin as well) sees: the pages of the front   *)
(* end, their queries in the shared query cache, the mutations that        *)
(* invalidate them, and the socket with its rooms, which may be dropped    *)
(* and re-established.                                                     *)
(*                                                                         *)
(* The database is the log of the operations committed on it; what a query *)
(* shows is the length of the log when it was read. Queries do not affect  *)
(* each other: the model follows one, whichever it is. All operations are  *)
(* on the auction whose page is visited. Requests that fail are left out.  *)
(***************************************************************************)
EXTENDS Integers, Sequences, FiniteSets, TLC

CONSTANTS
  Pages,         \* the pages the user visits
  Clicks,        \* what the user does there
  Others,        \* what other users and the server do meanwhile
  MaxWrites,     \* bound: operations
  MaxVisits,     \* bound: navigations
  MaxDrops       \* bound: connections lost

-----------------------------------------------------------------------------
(* The pages: their queries, fresh for 30 s or more unless said otherwise  *)

AuctionPage       == {"auction", "auction-bids", "auto-bid", "watchlist-check", "commitments"}
AuctionsPage      == {"auctions", "watchlist"}
WatchlistPage     == {"watchlist"}
WalletPage        == {"wallet", "transactions"}
NotificationsPage == {"notifications"}
DashboardPage     == {"my-bids", "my-auctions", "my-won"}
ProfilePage       == {"won-auctions", "wallet-transactions"}
UserPage          == {"public-profile", "user-auctions"}
AdminPage         == {"admin-stats", "admin-users", "admin-auctions", "fraud-flags"}
AdminFraudPage    == {"fraud-stats", "fraud-flags-stored"}

QueriesOf == [auction |-> AuctionPage, auctions |-> AuctionsPage, watchlist |-> WatchlistPage,
              wallet |-> WalletPage, notifications |-> NotificationsPage,
              dashboard |-> DashboardPage, profile |-> ProfilePage, user |-> UserPage,
              admin |-> AdminPage, fraud |-> AdminFraudPage]

\* refetchInterval
PolledOn(p) ==
  CASE p \in {"watchlist", "dashboard", "fraud"} -> QueriesOf[p]
    [] p = "admin" -> {"admin-stats"}
    [] OTHER -> {}

\* staleTime: 0
AlwaysStale == {"auction", "auction-bids"}

Queries == UNION {QueriesOf[p] : p \in Pages}

-----------------------------------------------------------------------------
(* What the queries show: the tables that their handlers read              *)

ReadByAuctions == [q \in {"auction", "auctions", "user-auctions"} |-> {"auctions", "bids"}]
ReadByBids     == "auction-bids" :> {"bids"}
ReadByAutoBid  == "auto-bid" :> {"autoBids"}
ReadByCommitments == "commitments" :> {"commitments"}
ReadByWatchlist ==
  "watchlist-check" :> {"watchlist"} @@ "watchlist" :> {"watchlist", "auctions", "bids"}
ReadByWallet   == "wallet" :> {"wallets"}
ReadByTransactions == [q \in {"transactions", "wallet-transactions"} |-> {"wallets"}]
ReadByNotifications == "notifications" :> {"notifications"}
ReadByUsers ==
  "public-profile" :> {"users", "auctions", "bids"} @@ "my-bids" :> {"bids", "auctions"}
    @@ "my-auctions" :> {"auctions", "bids"}
    @@ [q \in {"my-won", "won-auctions"} |-> {"auctions"}]
ReadByAdmin ==
  "admin-stats" :> {"users", "auctions", "bids", "wallets"} @@ "admin-users" :> {"users", "bids"}
ReadByModeration == "admin-auctions" :> {"auctions", "bids"}
ReadByFraudFlags == "fraud-flags" :> {"bids", "users"}
ReadByFraud == [q \in AdminFraudPage |-> {"fraudFlags", "users"}]

Reads == ReadByAuctions @@ ReadByBids @@ ReadByAutoBid @@ ReadByCommitments @@ ReadByWatchlist
           @@ ReadByWallet @@ ReadByTransactions @@ ReadByNotifications @@ ReadByUsers
           @@ ReadByAdmin @@ ReadByModeration @@ ReadByFraudFlags @@ ReadByFraud

-----------------------------------------------------------------------------
(* Operations: the tables they write and their steps, events among them    *)

Op(tables, steps) == [tables |-> tables, steps |-> steps]
Quietly(tables)   == Op(tables, <<"commit">>)

NotificationWrite == Quietly({"notifications"})
WatchlistWrite    == Quietly({"watchlist"})
UserWrite         == Quietly({"users"})
FlagWrite         == Quietly({"fraudFlags"})
RatingWrite       == Quietly({"users"})

\* A click on a page calls an operation; its answer invalidates queries.
Click(p, op, keys) == [page |-> p, op |-> op, keys |-> keys]

PlaceBid == Click("auction", Op({"auctions", "bids", "wallets"}, <<"commit", "bid:new">>),
                  {"auction-bids", "auction", "auto-bid"})
\* Mutation: the queries of a bid are invalidated.
SetAutoBidElsewhere == Click("auction", Quietly({"autoBids"}), {"auction-bids", "auction"})

SetAutoBid      == Click("auction", Quietly({"autoBids"}), {"auto-bid"})
CancelAutoBid   == Click("auction", Quietly({"autoBids"}), {"auto-bid"})
ToggleWatchlist == Click("auction", WatchlistWrite, {"watchlist-check"})
BuyNow          == Click("auction", Op({"auctions", "wallets"}, <<"commit", "auction:ended">>),
                         {"auction"})
CancelAuction   == Click("auction", Quietly({"auctions", "bids", "wallets"}), {"auction"})
RateUser        == Click("auction", RatingWrite, {})
Reveal          == Click("auction", Quietly({"commitments"}), {"commitments"})
ToggleListed    == Click("auctions", WatchlistWrite, {"watchlist"})
RemoveWatched   == Click("watchlist", WatchlistWrite, {"watchlist"})
HandleAction    == Click("wallet", Quietly({"wallets"}), {"wallet", "transactions"})
MarkRead        == Click("notifications", NotificationWrite, {"notifications"})
UpdateProfile   == Click("profile", UserWrite, {"won-auctions"})
ToggleSuspend   == Click("admin", UserWrite, {"admin-users", "admin-stats"})
Moderate        == Click("admin", Quietly({"auctions"}), {"admin-auctions", "admin-stats"})
Dismiss         == Click("fraud", FlagWrite, {"fraud-flags-stored", "fraud-stats"})
SuspendBidder   == Click("fraud", UserWrite, {"fraud-flags-stored"})

Clicked == [placeBid |-> PlaceBid, setAutoBid |-> SetAutoBid, cancelAutoBid |-> CancelAutoBid,
            toggleWatchlist |-> ToggleWatchlist, buyNow |-> BuyNow,
            cancelAuction |-> CancelAuction, rateUser |-> RateUser, reveal |-> Reveal,
            toggleListed |-> ToggleListed,
            removeWatched |-> RemoveWatched, handleAction |-> HandleAction,
            markRead |-> MarkRead, updateProfile |-> UpdateProfile,
            toggleSuspend |-> ToggleSuspend, moderate |-> Moderate, dismiss |-> Dismiss,
            suspendBidder |-> SuspendBidder]

\* Mutation: the notification is announced before its row is stored.
DeliverEarly == Op({"notifications"}, <<"notification:new", "commit">>)

\* What other users and the workers do.
Edit    == Quietly({"auctions"})
Snipe   == Op({"auctions", "bids", "wallets"}, <<"auction:extended", "commit", "bid:new">>)
Ladder  == Op({"auctions", "bids", "wallets"}, <<"commit", "bid:ladder">>)
Drop    == Op({"auctions"}, <<"commit", "auction:price-drop">>)
End     == Op({"auctions", "bids", "wallets"}, <<"commit", "auction:ended">>)
Deliver == Op({"notifications"}, <<"commit", "notification:new">>)
OnBid   == Op({"fraudFlags"}, <<"fraud:flag", "commit">>)

Done == [edit |-> Edit, snipe |-> Snipe, ladder |-> Ladder, drop |-> Drop, end |-> End,
         deliver |-> Deliver, onBid |-> OnBid]

\* Events of the auction's room; the others go to the user's own rooms.
RoomEvents == {"bid:new", "bid:ladder", "auction:price-drop", "auction:extended", "auction:ended"}

\* The queries that the open page refetches when it hears the event.
Refetched(event, page) ==
  CASE page = "auction" /\ event \in RoomEvents \ {"auction:extended"} -> {"auction", "auction-bids"}
    [] page = "auction" /\ event = "auction:extended" -> {"auction"}
    [] page = "admin" /\ event = "bid:new" -> {"fraud-flags"}
    [] page = "fraud" /\ event = "fraud:flag" -> AdminFraudPage
    [] event = "notification:new" -> {"notifications"}
    [] OTHER -> {}

\* After a reconnection.
RefetchedOnReconnect(page) ==
  IF page = "auction" THEN {"auction", "auction-bids", "auto-bid"} ELSE {}

\* Queries of the open page that a click touches and does not invalidate.
Gaps == {<<"cancelAuction", "auction-bids">>, <<"toggleSuspend", "fraud-flags">>}

\* Events that follow the commit they announce.
Announcements == (RoomEvents \ {"auction:extended"}) \cup {"notification:new"}

Operation(op) == IF op \in Clicks THEN Clicked[op].op ELSE Done[op]
-----------------------------------------------------------------------------
VARIABLES
  log,        \* the operations committed
  jobs,       \* operations under way: op, id and the steps left
  page,
  key,        \* the query followed
  shown,      \* what it shows: a length of the log, Nothing if never read
  fetch,      \* its fetch: Idle, Sent, or the length it has read
  due,        \* invalidated while no open page used it
  net,        \* the socket: "up", "down" or, after ten attempts, "gone"
  up, down,   \* the room calls and the events on their way
  room,       \* is the socket in the room of the auction, on the server?
  heard,      \* history: the operations whose announcement made the query refetch
  owed,       \* history: the last commit of a click on the open page
  begun, visits, drops

vars == <<log, jobs, page, key, shown, fetch, due, net, up, down, room, heard, owed,
          begun, visits, drops>>
socketVars == <<net, up, down, room, drops>>
cacheVars  == <<key, shown, fetch, due>>

Nothing == -1
Idle    == -2
Sent    == -1

Larger(a, b) == IF a >= b THEN a ELSE b
Mounted == key \in QueriesOf[page]

\* The place of an operation in the log, 0 before it commits.
Place(id) == IF \E i \in DOMAIN log : log[i].id = id
             THEN CHOOSE i \in DOMAIN log : log[i].id = id ELSE 0

\* refetchQueries drops the fetch under way and sends another, for a query that has
\* data; the first fetch of a query is never restarted.
Restarts(keys) == key \in keys /\ shown # Nothing

Touches(op) == Reads[key] \cap Operation(op).tables # {}

RefetchIf(b) == fetch' = IF b THEN Sent ELSE fetch

-----------------------------------------------------------------------------
(* The query cache                                                         *)

FetchRead ==
  /\ fetch = Sent
  /\ fetch' = Len(log)
  /\ UNCHANGED <<log, jobs, page, key, shown, due, socketVars, heard, owed, begun, visits>>

FetchDone ==
  /\ fetch >= 0
  /\ shown' = fetch
  /\ fetch' = Idle
  /\ due'   = FALSE
  /\ UNCHANGED <<log, jobs, page, key, socketVars, heard, owed, begun, visits>>

\* An interval passes; a poll that would find nothing new is left out.
Poll ==
  /\ key \in PolledOn(page)
  /\ fetch = Idle
  /\ shown < Len(log)
  /\ fetch' = Sent
  /\ UNCHANGED <<log, jobs, page, key, shown, due, socketVars, heard, owed, begun, visits>>

\* useAuctionRoom leaves the room of the page left and joins that of the page opened.
RoomCalls(p) == (IF page = "auction" THEN <<"leave">> ELSE <<>>)
                \o (IF p = "auction" THEN <<"join">> ELSE <<>>)

\* A mounting page fetches what was never read or was invalidated, what is always stale,
\* and after 30 s the rest; a fetch under way is not sent again.
Visit(p) ==
  /\ visits < MaxVisits
  /\ p # page
  /\ visits' = visits + 1
  /\ page'   = p
  /\ \E old \in BOOLEAN :
       RefetchIf(/\ key \in QueriesOf[p]
                 /\ fetch = Idle
                 /\ shown = Nothing \/ due \/ old \/ key \in AlwaysStale)
  /\ up'     = IF net = "gone" THEN up ELSE up \o RoomCalls(p)
  /\ owed'   = 0
  /\ UNCHANGED <<log, jobs, key, shown, due, net, down, room, drops, heard, begun>>

-----------------------------------------------------------------------------
(* Operations                                                              *)

\* An operation that does not touch the query followed is left out.
Begin(op) ==
  /\ begun < MaxWrites
  /\ Touches(op)
  /\ op \in Clicks => Clicked[op].page = page
  /\ begun' = begun + 1
  /\ jobs' = jobs \cup {[op |-> op, id |-> begun, left |-> Operation(op).steps]}
  /\ UNCHANGED <<log, page, cacheVars, socketVars, heard, owed, visits>>

Advanced(j) == (jobs \ {j}) \cup {[j EXCEPT !.left = Tail(@)]}

Commit(j) ==
  /\ j.left # <<>> /\ Head(j.left) = "commit"
  /\ log'  = Append(log, [op |-> j.op, id |-> j.id])
  /\ jobs' = Advanced(j)
  /\ UNCHANGED <<page, cacheVars, socketVars, heard, owed, begun, visits>>

\* The event reaches the socket if it is in the event's room.
Emit(j) ==
  /\ j.left # <<>> /\ Head(j.left) # "commit"
  /\ jobs' = Advanced(j)
  /\ down' = IF net = "up" /\ (Head(j.left) \in RoomEvents => room)
             THEN Append(down, [event |-> Head(j.left), id |-> j.id]) ELSE down
  /\ UNCHANGED <<log, page, cacheVars, net, up, room, drops, heard, owed, begun, visits>>

\* Everything is done; a click gets its answer and invalidates, on whatever page.
Finish(j) ==
  /\ j.left = <<>>
  /\ jobs' = jobs \ {j}
  /\ IF j.op \in Clicks
     THEN /\ RefetchIf(Mounted /\ Restarts(Clicked[j.op].keys))
          /\ due'  = (due \/ (key \in Clicked[j.op].keys /\ ~Mounted))
          /\ owed' = IF /\ Clicked[j.op].page = page /\ Mounted /\ shown # Nothing
                        /\ Touches(j.op) /\ <<j.op, key>> \notin Gaps
                     THEN Larger(owed, Place(j.id)) ELSE owed
     ELSE UNCHANGED <<fetch, due, owed>>
  /\ UNCHANGED <<log, page, key, shown, socketVars, heard, begun, visits>>

-----------------------------------------------------------------------------
(* The socket                                                              *)

\* auction:join, auction:leave
ServeRoomCall ==
  /\ net = "up"
  /\ up # <<>>
  /\ room' = (Head(up) = "join")
  /\ up'   = Tail(up)
  /\ UNCHANGED <<log, jobs, page, cacheVars, net, down, drops, heard, owed, begun, visits>>

HandleEvent ==
  /\ down # <<>>
  /\ down' = Tail(down)
  /\ LET event    == Head(down).event
         restarts == Restarts(Refetched(event, page))
     IN  /\ RefetchIf(restarts)
         /\ heard' = IF restarts /\ event \in Announcements
                     THEN heard \cup {Head(down).id} ELSE heard
  /\ UNCHANGED <<log, jobs, page, key, shown, due, net, up, room, drops, owed, begun, visits>>

\* The connection is lost with everything on its way; the server forgets the rooms.
Disconnect ==
  /\ drops < MaxDrops
  /\ net = "up"
  /\ drops' = drops + 1
  /\ net'  = "down"
  /\ up'   = <<>>
  /\ down' = <<>>
  /\ room' = FALSE
  /\ UNCHANGED <<log, jobs, page, cacheVars, heard, owed, begun, visits>>

\* Mutation: the listeners stay registered, the room is not joined again.
RejoinNever(p) == <<>>

Rejoin(p) == IF p = "auction" THEN <<"join">> ELSE <<>>

\* Calls made while the socket was down are sent first.
Reconnect ==
  /\ net = "down"
  /\ net' = "up"
  /\ up'  = up \o Rejoin(page)
  /\ RefetchIf(Restarts(RefetchedOnReconnect(page)))
  /\ UNCHANGED <<log, jobs, page, key, shown, due, down, room, drops, heard, owed, begun, visits>>

\* reconnectionAttempts: 10
GiveUp ==
  /\ net = "down"
  /\ net' = "gone"
  /\ UNCHANGED <<log, jobs, page, cacheVars, up, down, room, drops, heard, owed, begun, visits>>

-----------------------------------------------------------------------------
Init ==
  /\ log   = <<>>
  /\ jobs  = {}
  /\ page \in Pages
  /\ key \in Queries
  /\ shown = Nothing
  /\ fetch = IF key \in QueriesOf[page] THEN Sent ELSE Idle
  /\ due   = FALSE
  /\ net   = "up"
  /\ up    = IF page = "auction" THEN <<"join">> ELSE <<>>
  /\ down  = <<>>
  /\ room  = FALSE
  /\ heard = {}
  /\ owed  = 0
  /\ begun = 0
  /\ visits = 0
  /\ drops = 0

Work(j) == Commit(j) \/ Emit(j) \/ Finish(j)

Next ==
  \/ FetchRead \/ FetchDone \/ Poll
  \/ \E p \in Pages : Visit(p)
  \/ \E op \in Clicks \cup Others : Begin(op)
  \/ \E j \in jobs : Work(j)
  \/ ServeRoomCall \/ HandleEvent \/ Disconnect \/ Reconnect \/ GiveUp

Spec == Init /\ [][Next]_vars

\* Requests are answered, intervals pass while the page is open, the socket delivers
\* and keeps trying to reconnect until it gives up.
Fairness ==
  /\ WF_vars(FetchRead \/ FetchDone) /\ WF_vars(Poll)
  /\ WF_vars(\E j \in jobs : Work(j))
  /\ WF_vars(ServeRoomCall)
  /\ WF_vars(HandleEvent)
  /\ WF_vars(Reconnect \/ GiveUp)

FairSpec == Spec /\ Fairness

-----------------------------------------------------------------------------
(* Properties                                                              *)

\* An announcement that made the page fetch a query again is never answered by the
\* past: once no fetch of the query is under way, it shows the operation announced
\* (bid.controller.ts:42-60, workers/index.ts:691-720, page.tsx:109-112).
NothingMissed ==
  fetch = Idle => \A i \in DOMAIN log : log[i].id \in heard => shown >= i

\* What a query should show: what the user did on this page and was told to be done;
\* when it is polled, everything that touches it.
Due == Larger(owed,
  IF key \in PolledOn(page)
  THEN LET touching == {i \in DOMAIN log : Touches(log[i].op)}
       IN  IF touching = {} THEN 0 ELSE CHOOSE i \in touching : \A h \in touching : i >= h
  ELSE 0)

\* A page shows in the end what was done on it, without a reload and whatever
\* happens to the socket: every mutation invalidates the right queries.
ShownInTheEnd == (Mounted /\ shown < Due) ~> (~Mounted \/ shown >= Due)

\* After a lost connection the open auction page is in the auction's room again,
\* unless the client has given up (useSocketListener.ts:118-128).
BackInTheRoom ==
  (page = "auction" /\ net = "down") ~> (page # "auction" \/ net = "gone" \/ (net = "up" /\ room))
=============================================================================
