# AuctionHaus in TLA+

Specifications of AuctionHaus: a back end (`src/back`) of English, Dutch and sealed-bid auctions
whose bids hold money in wallets, with an escrow path that pays sellers, workers that open and close
auctions and proxies that bid for absent users; and a front end (`src/front`) that shows all this
live. TLC checks the specifications on small instances; TLAPS proves central safety properties for
every instance.

## The system

State lives in Postgres; BullMQ queues (Redis) carry jobs to workers in the same or other processes;
socket.io carries events to browsers. Services run interactive transactions under READ COMMITTED.
The stated discipline is *auction row FOR UPDATE first, then wallet rows in ascending user id*.

| Component | State | Operations | Talks to | Modules |
|---|---|---|---|---|
| Bidding `bid.service.ts` | `bids`, price, winner, `endTime` | `placeBid` | wallets, escrow, auto-bid queue, fraud engine, sockets | `AuctionHouse`, `Timetable` |
| Escrow `escrow.service.ts`, `payment.service.ts` | `settlements`, wallets, `transactions` | `settleWithinTx`, `confirmWinnerPayment` | called inside a caller's transaction | `AuctionHouse`, `Sale` |
| Auctions `auction.service.ts`, `auctions/create/page.tsx` | `auctions`, the form | create, edit, cancel, `buyNow` | scheduler and Dutch queues, escrow | `AuctionHouse`, `Timetable`, `CreateForm` |
| Scheduler worker `workers/index.ts` | what a run remembers between transactions | `start-auction`, `end-auction` | auctions, bids, wallets, escrow | `AuctionHouse`, `Timetable` |
| Dutch clock `workers/index.ts` | price, repeatable job | drop-price, auto-accept, reconcile | `placeBid`, `endAuction` | `Timetable`, `AuctionHouse` |
| Auto-bids, ladder worker | `auto_bids` | set, cancel, `processAutoBidLadder` | auctions, bids, wallets | `ProxyBidding`, `Timetable` |
| Wallet `wallet.service.ts` | `wallets`, `transactions` | deposit, withdraw | - | `AuctionHouse`, `Accounts` |
| Admin `admin.service.ts` | `auctions.status`, `users.isSuspended` | moderate, suspend | user cache | `AuctionHouse`, `Suspension` |
| Row locks of all services | who holds and awaits which row | every transaction | - | `RowLocks` |
| Sequencer `bid.sequencer.ts` | a Redis stream per auction | enqueue, consume, acknowledge | `placeBid` | `BidIntake` |
| Commitments `commitment.service.ts`, `CommitmentPanel.tsx` | `bid_commitments`, localStorage | commit, reveal | auction status | `Commitments` |
| User cache `auth.middleware.ts` | entries of 30 s per instance | lookup, invalidate over pub/sub | admin | `Suspension` |
| Front end, gateway, notifications, users, watchlist | query cache, socket, rooms | every click of every page | all of the above | `LivePages` |
| Fraud detection `modules/fraud`, `admin/fraud/page.tsx` | sliding window and latencies in memory, flags, the page | `onBid`, list, count, dismiss, suspend, reset | fed by `placeBid`, read by admins | `FraudWindow`, `FraudDesk`, `LivePages` |
| Session `authStore.ts`, `AuthProvider.tsx`, `api.ts`, `proxy.ts` | localStorage, cookie, store, socket, query cache | login, logout, reload, `/auth/me`, interceptors | every request and page | `BrowserSession` |
| Bid panel `PricePanel.tsx` | fields, flags, messages | bid, accept, arm, rate | `placeBid`, auto-bids, ratings | `PricePanel` |
| Ticker, countdown, banner, history of the auction page | toasts, the announced end, timers | every event of the room | gateway | `AuctionNotices` |
| Presence `socket.gateway.ts` | debounce timers, rooms of all processes | join, leave, disconnect, count | auction page, Redis adapter | `Presence` |
| HTTP layer, money helpers, simulator, scripts | - | - | - | not modelled |

What is hard: several auctions draw on one wallet; `endAuction` is three transactions with crashes,
stalls and user requests in between; jobs are redelivered; workers, commitments and the user cache
act on unlocked reads; a ladder is a long transaction working from a snapshot of limits that their
owners change; Redis commands that belong together are separate; events, answers and room calls
overtake each other on their way to a page. `PROJECT.json` lists each hazard at its line with the
properties aimed at it.

What makes the components correct:
* *bidding*: prices climb by the increment, one leading bid, every standing bid funded exactly once;
* *money*: every wallet explained by its rows, nothing created or lost, nobody in debt;
* *escrow*: one sale per auction, paid in full by the buyer to the seller, whoever triggers it;
* *closing*: the best bid wins, the outcome is final, winners pay and losers get their hold back;
* *timetable*: a close near the end shown, a price that keeps to its clock, no end too early, an end for all;
* *proxies*: never above a limit, every rung logged and funded, the second price reached, termination;
* *intake*: no bid tried twice, each server's in their order, none dropped unread, the backlog worked off;
* *commitments*: hiding, binding, and a bidder who can still reveal;
* *suspension*: takes hold in bounded time, and stays;
* *pages*: what was done or announced is shown in the end, and the room is joined again;
* *session*: token, user and cookie come and go together, requests are made in the name of who is shown;
* *panel, notices, form*: an amount typed is held once, toasts go, the end shown is the one announced,
  an auction lasts as its form says;
* *fraud desk, presence*: stored flags are counted, suspensions show, viewer counts settle.

## Modules

| Module | Content |
|---|---|
| `Accounts` | a wallet row plus the totals of its transaction rows; each elementary movement as an operator |
| `AuctionHouse` | the core: bidding, buy-now, cancellation, moderation, start and end jobs, settlement, wallet |
| `Sale` | what the escrow path promises: an auction is sold at most once, for one amount that changes hands |
| `AuctionHouseProperties` | properties of the core and the refinement mapping to `Sale`; at its end, sentences of the documents that the core does not satisfy |
| `ProxyBidding`, `ProxyProperties` | `AuctionHouse` composed with auto-bids and the ladder worker; its properties |
| `Timetable`, `TimetableProperties` | one auction in time: creation, its jobs, anti-sniping, Dutch drops, auto-accept, crash and restart |
| `RowLocks` | every transaction as a sequence of row locks |
| `BidIntake`, `InOrderOnce` | the Redis streams in front of `placeBid` and the consumers of several servers; what they promise of the order of trying |
| `Commitments` | sealed-bid commitments on the server and in the browser |
| `Suspension` | the user cache of several instances and its invalidation |
| `LivePages` | every page, its queries, clicks, events, the socket and its rooms |
| `FraudWindow` | the sliding window of bids that the detector scores from |
| `FraudDesk` | the engine's latencies and flags, the handlers of the fraud routes, the fraud page |
| `BrowserSession` | the session of a browser with its tabs, and the answers that come late |
| `PricePanel` | the panel with which a viewer bids, accepts, arms and rates, against a server on which others bid |
| `AuctionNotices` | toasts, banner, countdown and groups of rungs of an open auction page |
| `CreateForm` | the form of a new auction, its validation, the schema of the handler and the jobs queued |
| `Presence` | the debounced count of viewers, over one or several processes |
| `AuctionHouseProofs`, `ProxyProofs`, `TimetableProofs`, `BidIntakeProofs`, `CommitmentsProofs` | theorems about the module they are named after |
| `LivePagesProofs`, `SafeguardProofs`, `FrontEndProofs` | theorems about `LivePages` and `Presence`; about `Suspension`, `FraudWindow`, `FraudDesk` and `RowLocks`; about `BrowserSession`, `PricePanel`, `AuctionNotices` and `CreateForm` |
| `MC*` | instances for TLC |

**Core.** Each transaction that takes the auction row first is one action, guard by guard in the
order of the code (`PlaceBid`, `AcceptDutch`, `BuyNow`, `CancelAuction`, `ConfirmWinnerPayment`,
`Withdraw`). Where the code has several transactions or statements, so has the model:
`ReadPending`/`WriteActive`, `Deposit`/`WriteDepositRow`, and `EndAuction`, `RefundSealed`,
`SettleWinner`, whose run between transactions is a record in `closing`. `Redeliver` is a job BullMQ
delivers again, after a crash (the run is gone) or a stall (the run goes on as well); `Abort` is a
failed transaction. `SchedulerFree` is the worker's concurrency of 1: with `OneScheduler = FALSE`
several processes take jobs at once. The drop-price job is a worker of its own (`DropperFree`): it
reads the row without a lock (`TakeDrop`) and later writes the price it computed, whatever has become of
the auction since (`WritePrice`), or ends the auction at its floor (`EndAtFloor`), or dies (`DropFails`);
when it is due, and the targets that it serves, are the matter of `Timetable`. The refund of a sealed
auction is one step, although it reads the pending bids before it locks the wallets and takes no lock on
the auction: the row is ENDED by then, so bids and cancellations turn back, another run of endAuction
returns, and a confirmation changes a bid only from WINNING to WON; only an admin who reopens the auction
could come in between. `Expire` lets `endTime` pass at any moment, which covers
anti-sniping. An `ORDER BY amount DESC` over equal amounts may return any of them.

**Accounts.** `held` and `balance` are the wallet's columns; the other fields are totals of its
`transactions` rows by kind. `unlogged` is what `deposit` has added without having written its row.

**Proxies.** A ladder is `LadderBegin` (its reads and locks), one `LadderRung` or `LadderSkip` per
iteration, and `LadderCommit`; `LadderAbort` is a rollback and retry. It works on its own copy of
the bids and of the wallets it has locked. `RespectsLocks` makes core steps wait for those rows;
`auto_bids` rows are free until the ladder writes them, so owners may cancel or change limits while
the ladder uses the values it read. Validation and write of `setAutoBid` are one step here.

**Timetable.** One auction over integer time. `createAuction` is `StoreAuction`, `ScheduleStart`,
`ScheduleEnd`, each with the instant at which the code reads the clock; `jobs` are due times, and a
job may run at any time from then on. The drop-price job is cut at its awaits: `TakeDrop` (read),
`WritePrice` or `EndAtFloor`, `MatchTargets`, `OfferToTarget` per target, `NobodyAccepts`.
`setAutoBid` on a Dutch auction is `ReadForTarget` and `WriteTarget`. `BidEnglish` extends the end,
`RunLadder` does not: a ladder, started by a bid or by `setAutoBid`, outbids up to the last moment. `Crash` takes the process with
all its handlers and makes a drop-price job run again; `Restart` and `Reconcile` follow. Money and
winners of English auctions are the core's matter.

**Row locks.** A transaction is the rows it still has to lock, in the order of `Rank`; `AcceptPrice`
is the only one with a second stage (`settleWithinTx` inside `placeBid`). `End` is commit, rollback
or the deadlock detector.

**Intake.** Each of the `Servers` takes requests and runs a consumer of the one group. A request is
checked, measured (`XLEN`), added (`XADD`, which may trim) and has its group ensured; a consumer scans,
reads one batch, tries each entry and acknowledges it. The group gives each entry to one consumer, so the
batches of two of them are disjoint, and they work on them at the same time. Redis keeps its
state over a `Crash`; a `Bootstrap` that gets no answer from it leaves its server without a consumer.
`tried` records which server tried which entry.
Whether `placeBid` accepts is left to the core.

**Commitments.** A commitment is the pair behind its hash. The panel (`tab`, `storage`), the two
handlers as a check and a write each, and a network that loses requests and answers (`Lose`).

**Suspension.** Per instance the cache entry of one user, the reads that will fill it, and the
invalidations on their way, which may never arrive; `suspendUser` is its update, eviction and
publication.

**Pages.** The database is the log of operations committed; a query shows a length of it. One query
is followed, whichever it is. `Click` names the page of a mutation, what it writes and what it
invalidates; `Refetched` the listeners of each page; `Visit`, `Rejoin`, `Reconnect` the effects of
`useAuctionRoom`. The query library is external: stale time, refetching, polling, a first fetch that
is never restarted.

**Fraud window.** `BidGraph` as two maps to sets of numbered events, pruned as in `add`; `Features`
as `extractFeatures` reads them. The weights of the classifier are not modelled.

**Session.** JavaScript handlers are steps; the server's answers (`Answer`) come in any order.
`Load` is a new document, `Mount` the effects of its first render in React's order (pages before
`AuthProvider`), `Navigate` a link, with `Routed` the route guard. An answer acts through what its
handler closed over: `Validated` writes the token of its render, `Rejected` is the interceptor's 401.

**Panel.** `Type`, `Place`, `AcceptPrice`, `SetAutoBid` and the rest are clicks with the button's
condition; a request is served (`Serve`) and answered (`Answer`) in steps of their own, or its answer
is lost (`Fail`). `typed` remembers every entry, so that a hold can be traced to it.

**Notices.** Events wait in `due` between commit and emission and in `wire` until handled; `Tick` is
the interval of the ticker, set up anew by each change of the number of toasts. `Effective` is the end
that the page counts down to.

**Form.** Fields are numbers, a link is 1. `Changed` is `set`, `validate` and `Body` are what the
browser checks and sends, `Invalid` the schema, `Storable` the service, `Due` the jobs.

**Fraud desk.** A bid is flagged or not. `Coerced` is `z.coerce.boolean`. `getFraudStats` is read in
its four parts. The button that suspends stands for what `Suspension` has in detail.

**Presence.** A viewer has a new socket after each lost connection; `Forget` is the gateway that
notices a dead one. A count asks every process (`Count`), in order per asking process, and two asking
processes are not ordered.

Conventions: money is a number of cents; `0` stands for a null column; operators commented
*Mutation* are variants of their neighbour with a plausible bug, used to see that each property can
fail.

## Runs

| Run | Shows | Instance |
|---|---|---|
| `books` | `TypeOK`, `LedgerExplainsWallets`, `HoldsCovered`, `MoneyConserved`, `EnglishBidsClimb` | one auction of any type, two bidders, two bids, reserve and buy-now, deposits, several processes, drops, moderation, one abort; 1.2 million states |
| `outcome` | `BestBidWins`, `PaidAsShown`, `HeldBacksBids`, `OutcomeFinal`, `SoldOnce` | any two auctions of the catalogue on the same two wallets, drops of the Dutch one, one fault of any kind; 1.7 million states |
| `closing` | `NothingForgotten`, `WinnerPays`, `LosersReleased` | both auctions, fairness, one stalled job; 121 thousand states |
| `proxy` | the core's `LedgerExplainsWallets`, `MoneyConserved`, `HeldBacksBids`, `HoldsCovered`, `EnglishBidsClimb` with ladders (`LaddersKeepTheBooks`); `RungsWithinLimits`, `LogFidelity`, `ClearsAtSecondPrice` | three bidders, limits 6 and 9, a withdrawal that makes a proxy insolvent; 1.1 million states |
| `proxy_live` | `LadderEnds`; `SoldOnceWithLadders`, the refinement of `Sale` with rungs among the amounts | two bidders, one aborted ladder or lost job, the end and the settlement of the auction; 92 thousand states |
| `timetable` | `ClosesWithinWindow`, `PriceKeepsPace`, `NeverClosedEarly`, `SoldWithinAStep`, `EveryAuctionCloses` | one of six listings, two bidders with targets, a ladder that outbids, six instants, one crash; 516 thousand states |
| `intake` | `StreamBounded`, `AckedWasTried`, `BidsInOrderOnce`, `BacklogCleared` | two servers with a consumer each, two bidders, one auction, a stream of four entries, one crash, one Redis error; 881 thousand states |
| `commitments` | `ChosenBlind`, `RevealedWasCommitted`, `CanStillReveal` | two bidders, two amounts, three nonces, one loss; 3.2 million states |
| `suspension` | `LockedOutInTime`, `EvictionSettles` | two instances, a lifetime of two units, reads of one, five units, two suspensions or reinstatements, one restart; 5.4 million states |
| `live` | `NothingMissed`, `ShownInTheEnd`, `BackInTheRoom` | ten pages, sixteen clicks, four operations of others, one write, two navigations, one lost connection; 776 thousand states |
| `session` | `SessionWhole`, `ActsAsShown` | one tab, two accounts, two logins, two requests in flight, failing ones included; 333 thousand states |
| `notices` | `ToastsLeave`, `EndAsAnnounced` | every kind of event, two of them, a stack of two, the pointer, one lost connection or aborted bid, five instants; 6.7 million states |

More configurations pass and can be run by hand (`tlc -config fraud.cfg MCFraudWindow`):

| Configuration | Module | Shows |
|---|---|---|
| `locks` | `RowLocks` | `CyclesNeedAnAcceptance`; 15 546 states |
| `timetable`, with the invariant `SomethingEndsIt` | `MCTimetable` | 512 thousand states |
| `proxy_live`, with `ProxySpec`, `FaultKinds = {"stall"}`, `MaxFaults = 1` and the invariant `NothingForgotten` | `MCProxy` | nothing is forgotten with a ladder, a worker that stalls and an aborted rung; 129 thousand states |
| `intake_streams` | `BidIntake` | the same four properties for one server whose consumer reads the streams of two auctions, one of them perhaps without its group; 602 thousand states |
| `fraud` | `MCFraudWindow` | `WindowTypeOK`, `WindowExact`, `ResponseInWindow`; 1.6 million states |
| `price_panel` | `PricePanel` | `HeldOnce`, `NoDeadButton`: an entry is held once, no button stays disabled; 5.7 million states |
| `notices_toasts`, `notices_end` | `AuctionNotices` | `ToastsLeave` with longer lives and more toasts (15 million states), `EndAsAnnounced` with more time (4.4 million) |
| `create_form` | `MCCreateForm` | `LastsAsHinted`: a Dutch auction runs down as fast as the form said; 74 thousand states |
| `fraud_desk`, `fraud_ring` | `FraudDesk` | `SuspensionShows`, `FlagsAreCounted` under fairness (662 thousand states); `RingHoldsLatest` over a ring that wraps (484 thousand) |
| `presence` | `MCPresence` | `RightOrDue`, `ViewersSettle` with one process and a lost connection; 216 thousand states |

`session_tabs.cfg` (`BrowserSession`, `ActsAsShown` with two tabs) is violated, as described below.

*Bounds.* `MaxBids` bounds manual bids: with two, one bid is displaced or loses; with three, also
a bidder that raises itself among others. Two bidders and a seller are enough for the displaced
bidder, its displacer and the payee to be different or the same; ladders need a third bidder, since
the trigger's own proxy is left out. Amounts lie on both sides of the increment, the reserve and the
funds, so bids are turned away for each reason. `MaxFaults = 1` hits every point between two
transactions. The listings of `timetable` begin at once and later, on and off the grid of their
steps, with a computed end and with one that passes before it is scheduled; six instants let each
run down. `Dutch1` of the core drops once before it reaches its floor, which is enough for a drop to
meet an acceptance, a purchase, a cancellation and the end. In `intake` the threshold is two entries, so
that two requests pass it together, and two entries are read at a time, so that a batch is cut off in the
middle. Two consumers on one auction are enough for one to overtake the other and for either to die
with a batch in hand; two auctions, whose entries share a batch, are in `intake_streams`. Three nonces let both bidders
commit and one of them twice. Five units of time are more than an entry and its read last. In `session` two logins give two accounts and late answers of the first to meet
the second. Two navigations leave the page of a click and come back. Bidders and instances are symmetric and
symmetry is used in runs without temporal properties. Every run sets `CHECK_DEADLOCK FALSE`: when
all auctions are closed and the users idle the system rests.

*Conditions in the properties.* `PaidAsShown` leaves out sealed ties as long as nobody has paid. `HeldBacksBids` excludes ties between sealed bids
(`NoSealedTie`) and users whose sealed bid a cancellation has refunded (`NotRefundedSealed`): both
lead to the disagreements listed below. `HoldsCovered` allows for what was bought directly.
`ClearsAtSecondPrice` speaks of ladders on the grid of the increment whose proxies are solvent and
not already priced out; the rest is `NobodyLeftBehind`, which fails. `OutcomeFinal`, `PaidAsShown`
and `NoReturnToActive` are about instances without moderation. In the first two the price of an ended
Dutch auction may still be lowered by a drop that was under way: what was paid is then one step above it,
and of a purchase by `buyNow`, whose price it overwrites, nothing can be read off the row.
`ClosesWithinWindow` is what is left of anti-sniping: the end-auction job keeps its first delay, so an
extended auction closes early, by the window at most; whoever is outbid by a ladder has no time at all.
`PriceKeepsPace` allows one drop per crash, `SoldWithinAStep` one step: both are what the code
achieves. `EveryAuctionCloses` leaves out an English auction whose end job a crash prevented: nothing
ever ends it. `BacklogCleared` leaves out abandoned entries and a stream without its group, which
stops the consumers for all auctions. `CanStillReveal` leaves out commits doubled or cut short.
`BidsInOrderOnce` says nothing of the order between two servers, which is lost.
`EvictionSettles` speaks of instances without an older read under way. `NothingMissed` counts an
announcement only if it made the page fetch again, and `ShownInTheEnd` what a click invalidates
(`Gaps` names the two it forgets) or what is polled.
`ActsAsShown` speaks of one tab: a second one changes the token under the first. `ToastsLeave` leaves
out the toast under the pointer and allows one period per place of the stack, which is tight.
`EndAsAnnounced` ends with the first lost connection or aborted bid. `HeldOnce` leaves out sealed
auctions, where each entry is a bid of its own.

*Fairness.* `WorkerFairness` is weak fairness of taking a queued end-auction job and of the next
transaction of a run: BullMQ delivers queued jobs and a process that lives goes on. `closing` has
stalls but no crash and no abort, because the code promises nothing after those. `ProxyFairness` is
the same for the ladder worker. `Timetable` adds time that passes, a server that is started again
after it died (its process manager) and the start-up that follows; `BidIntake` handlers that finish
and a loop that goes on; `LivePages` requests that are answered, intervals that pass while a page is
open, and a socket that delivers and tries to reconnect until it gives up; `FraudDesk` and `Presence`
likewise polling, answers, timers and a connection that comes back. Users are never fair, nor
is the loss of anything. The other modules state safety only.

## Disagreements found

Each sentence is a property of its own, which the code violates: TLC finds the counterexample when it
checks the property in place of those of the configuration named (with the change of constants given
after it, if any). To see one, put the property alone into a copy of the file: `NoReturnToActive` as
the only `PROPERTIES` of `outcome.cfg`, run with `MCAuctionHouse`.

| Property | Configuration | Sentence | What the code does |
|---|---|---|---|
| `NoMoneyAppears` | `outcome` | book ch. 11:5 "money never appears or disappears" | `cancelAuction` credits the balance although placing a bid never debits it |
| `NoReturnToActive` | `outcome` | book ch. 4:316 "No transition back to PENDING or ACTIVE" | the start-auction job writes ACTIVE over a cancellation committed since its read |
| `NoDoubleRefund` | `outcome` | schema.prisma:213-215 "without ever double-refunding" | a cancelled sealed auction is ended by its queued job, which releases the same bids again |
| `RetryResumes` | `closing`, a crash for the stall | workers/index.ts:226 "a retried run resumes" | the redelivered job returns on ENDED before it reaches the resumable refund |
| `NobodyLeftBehind` | `proxy` | README.md:13 "exact Vickrey second-price convergence" | off the grid of the increment the ladder's ceiling is below the next bid; a solvent proxy stays behind |
| `ArmedProxyBids` | `proxy_live` | auto-bid.service.ts:91 "should immediately start laddering" | the ladder that `setAutoBid` enqueues leaves out that very auto-bid |
| `IncrementsRise` | `fraud` | fraud.graph.ts:9 "ordered list of BidEvent (most-recent last)" | detectors of two bids overtake each other; the increment of the later one is negative |
| `KeptForWinner` | `outcome` | workers/index.ts:249 "Winner: keep funds held" | on equal sealed bids the refund may keep and mark WON another row than the determination took |
| `EndJobFollows` | `timetable` | book ch. 14:57 "the new `end-auction` job replaces the old one" | anti-sniping leaves the job alone: the auction closes before the end it shows |
| `PendingRedelivered` | `intake` | docs/architecture/sequencer.md:63 "re-delivered on restart" | the consumer reads only `>`; entries of a dead one, or left after a failed `XACK`, are never read again |
| `TriedInArrivalOrder` | `intake` | bid.sequencer.ts:11 "This achieves serial ordering per auction" | two servers read consecutive batches of one stream and try them at the same time |
| `EverywhereAtOnce` | `suspension` | index.ts:115 "stops authenticating everywhere at once" | a read from before the suspension fills the cache after the eviction |
| `NoWaitCycle` | `locks` | README.md:36 "wait-for cycles are mathematically impossible" | a Dutch acceptance holds its bidder's wallet before `settleWithinTx` locks bidder and seller in order: with a seller of a smaller id two transactions wait for each other |
| `SocketAsShown` | `session` | socket.ts:22 "Call this on logout" | only the navigation bar does: the socket of the old session stays open after the other logouts |
| `CacheIsOwn` | `session` | profile/page.tsx:89 "enabled: !!user" | nothing clears the query cache: the next account sees what was fetched for the last one |
| `LogoutLasts` | `session` | AuthProvider.tsx:17 "logs the user out gracefully" | the answer to `/auth/me` writes the token of its render back, after a logout as well |
| `OnlyDeadEnd` | `session` | api.ts:16 "the session is genuinely dead" | any failure of `/auth/me` logs out, and a 401 for an old token empties the storage of a new one |
| `ReloadStays` | `session` | book ch. 15:258 "gate on `isHydrated`" | the effects of private pages run before hydration and push `/login`; the guard sends the user on to `/auctions` |
| `PillFollows` | `session` | useSocketListener.ts:41 "carry every transition afterwards" | the pill stays with the socket of the first render: "Offline" over a healthy connection after a login |
| `OneBidPerUser` | `price_panel` | PricePanel.tsx:348 "One bid per user; submitting again updates your bid" | another bid with another hold is created |
| `AcceptSendsPrice` | `price_panel` | PricePanel.tsx:485 "Accept the current price to win" | `onAccept` sends the field of the render before: nothing, or the price before the drop |
| `ArmedCanBid` | `price_panel` | AutoBidHealth.tsx:93 "the moment you are outbid" | ARMED is shown for limits that no ladder can bid with |
| `RatingsAreStored` | `price_panel` | book ch. 3:136 "can rate each other" | the page posts `rating`, the handler requires `score` |
| `EndFollows` | `notices` | page.tsx:238 "refetch everything after a socket reconnect" | an announced end wins over every fetched one: an aborted extension, or one missed, stays |
| `FreshInTheEnd` | `notices` | Countdown.tsx:46 "never stale by more than 250 ms" | the period is chosen once, when the page is opened |
| `NoToastForOwn` | `notices`, `Sealed = TRUE` | page.tsx:123 "ONLY for bids by other users" | payloads of sealed bids have no bidder |
| `HoveredStay` | `notices` | LiveTicker.tsx:110 "hovered events live forever" | a full stack and the end of the auction remove the hovered toast |
| `QuietAfterEnd` | `notices` | page.tsx:206 "leftover toasts don't linger" | a bid emitted after the end pushes its toast over the outcome |
| `BannerLeaves` | `notices` | BackpressureBanner.tsx:18 "Auto-dismisses after" | every render of the page starts the eight seconds anew |
| `GroupsAreLadders` | `notices`, `MaxEvents = 3` | BidHistory.tsx:153 "one auto-bid resolution" | two ladders within two seconds are one group |
| `EmptyIsFine` | `create_form`, `Entries <- English` | create/page.tsx:54 "or leave it empty" | an empty description is refused by the handler |
| `BlankStartsNow` | `create_form`, `Entries <- Cleared`, `Skew = 2` | create/page.tsx:425 "Leave blank to start immediately" | it starts when the server's clock reaches the browser's |
| `SomethingHighlighted` | `create_form`, `Entries <- Cleared` | create/page.tsx:211 "fix the highlighted fields" | a cleared anti-sniping window is refused and nothing is highlighted |
| `EndIsQueued` | `create_form`, `Entries <- English`, `MaxTime = 4` | book ch. 4:32 "BullMQ job enqueued" | an end that passes before it is scheduled has no job |
| `PendingWillStart` | `create_form`, `Entries <- English`, `MaxTime = 4` | book ch. 4:34 "At startTime, the `start-auction` job fires" | a start between the two readings of the clock has no job |
| `OpenFlagsShown` | `fraud_desk` | fraud/page.tsx:216 "Open flags (DB)" | `dismissed=false` is coerced to true: the list shows the dismissed flags, and open ones cannot be dismissed from the page |
| `OnlineAsActive` | `fraud_desk` | book ch. 17:243 "'Online' when the engine is active" | the state turns with the first flag and never back |
| `AnnouncedIsStored` | `fraud_desk` | fraud.engine.ts:10 "AND persists a FraudFlag row" | a failed insert is logged; the flag was announced before it |
| `ViewersSettle` | `presence`, `Gateways = {g1, g2}`, `Reaches <- TwoGateways` | socket.gateway.ts:18 "carrying the final post-burst count" | announcements of two processes are not ordered; the older count may come last |
| `CountsInQuiet` | `presence` | book ch. 12:114 "we reset the timer" | a running timer is left alone |

Read off the code while modelling, most of them behaviours of the models, which is why the
properties carry the conditions above:

*Closing and money*
* `buyNow` leaves bids and holds of the auction in place (book ch. 4:42 says they are refunded) and
  checks the whole balance, holds included (escrow.service.ts:24 says spendable);
* a reserve that is missed leaves the top bid on hold (ch. 4:44 says released);
* after a crash before settlement the seller is paid only when the winner confirms (ch. 7:322);
* a leader may raise itself several times in a row after a short-funded rival drops out
  (workers/index.ts:513 "prevents self-outbidding");
* an auto-bid cancelled while a ladder runs is still used by that ladder.

*Timetable*
* `createAuction` reads the clock twice: a start between the two leaves a PENDING auction without a
  start job, and an end between them, like a crash before the jobs, one that nothing ends;
* a drop-price job redelivered after its write drops twice; one that read before an acceptance
  writes its price over the sold auction; the repeatable job is never removed.

*Intake*
* a crash between `XADD` and `XGROUP CREATE` stops the reads of all streams until a later bid on that auction;
* `XLEN` counts acknowledged entries, so an auction past the threshold refuses bids for good.

*Commitments*
* a late upsert clears a reveal, a reveal may be written over a later commitment, and settlement
  takes its winner from `bids`, not from revealed commitments (commitment.service.ts:20);
* the nonce is stored after the answer: a lost answer or a doubled commit leaves a bidder without it.

*Suspension*
* an entry filled by a read from before the suspension lives for its full time: the bound is the
  lifetime plus that read (auth.middleware.ts:22 "up to 30s"), and an instance that misses the
  message keeps its entry.

*Pages*
* a change between the read of a query and the join of the room, or during a query's first fetch,
  is not shown until the next refetch; `cancelAuction` and an acceptance by target announce nothing;
  the extension is announced inside its transaction (bid.service.ts:211);
* `cancelAuction` does not invalidate the bids, `toggleSuspend` not the flags; the server never emits
  `auction:state-sync`; the admin page listens to `bid:new` without joining a room;
* a flag is announced before its row is stored; the intervals of the page make up for it, and show a
  suspension in the list of top bidders, which the click does not invalidate;
* with two tabs a page acts in the name of whoever logged in last in the other one (`session_tabs.cfg`).

## Proofs

All theorems hold for all values of the constants that satisfy the named assumptions of the modules,
and rest on nothing else but the hypotheses in the table.

| Module | Theorems | Properties |
|---|---|---|
| `AuctionHouseProofs` | `InvCorrect`, `TypeCorrect`, `WalletsExplained`, `HoldsAreCovered`, `MoneyIsConserved`, `SoldAtMostOnce`, `EnglishAuctionsClimb` | types, `LedgerExplainsWallets`, `HoldsCovered`, `MoneyConserved`, `SoldOnce` (every step of the core is a step of `Sale` or a stutter), `EnglishBidsClimb` |
| | `FirstOutcomeIsFinal`, `PaidAsItShows`, `HoldsAreBacked`, if `Undisturbed`; `BestBidAlwaysWins`, if also `DutchAboveReserve`; `EndsAreWorkedOff`, if also `OnlyStalls` | `OutcomeFinal`, `PaidAsShown`, `HeldBacksBids`; `BestBidWins`; `NothingForgotten` |
| `ProxyProofs` | `ProxyInvCorrect`, `ProxyTypeCorrect`, `LaddersKeepPromises`, `RungsStayWithinLimits`, `LogIsFaithful`, `ClearedAtSecondPrice`, if `Undisturbed`; the last also if `LoopSuffices` | types, `LaddersKeepTheBooks`, `RungsWithinLimits`, `LogFidelity`, `ClearsAtSecondPrice` |
| | `LaddersLeaveOutcomes`, `PaidAsShownWithLadders`, `LaddersSellOnce`, if `Undisturbed`; `BestBidWinsWithLadders`, if also `DutchAboveReserve`; `LaddersForgetNothing`, if also `OnlyStalls` | `OutcomeFinal`, `PaidAsShown`, `SoldOnceWithLadders` (every step of the composition is a step of `Sale` or a stutter); `BestBidWins`; `NothingForgotten`; all under `ProxySpec` |
| `TimetableProofs` | `TimetableWellTyped`, `ClosesNearShownEnd`, `EndsNoEarlier`, `SoldPriceWithinAStep`, `PriceNeverAhead`, `OpenIsAttended` | types, `ClosesWithinWindow`, `NeverClosedEarly`, `SoldWithinAStep`, `PriceKeepsPace`, `SomethingEndsIt` |
| `BidIntakeProofs` | `StreamsStayBounded`, `BidsAreTriedInOrder`; `OneServerKeepsOrder`, if there is one server; `NothingAckedUntried`, if `RoomInStreams` | `StreamBounded`, `BidsInOrderOnce` (the refinement of `InOrderOnce`); `TriedInArrivalOrder`; `AckedWasTried` |
| `CommitmentsProofs` | `CommitmentsTyped`, `CommitmentsHide`, `CommitmentsBind`, `NonceNotLost` | types, `ChosenBlind`, `RevealedWasCommitted`, `CanStillReveal` |
| `SafeguardProofs` | `SuspensionTyped`, `SuspensionsTakeHold`, `EvictionsSettle` | types, `LockedOutInTime`, `EvictionSettles` |
| | `WindowAlwaysExact`, `ResponsesInWindow`; `RingAlwaysLatest` | `WindowExact`, `ResponseInWindow` of `FraudWindow`; `RingHoldsLatest` of `FraudDesk` |
| | `OrderedLocksNeverCycle` | `CyclesNeedAnAcceptance` of `RowLocks`: what is left of the sentence that `NoWaitCycle` refutes |
| `LivePagesProofs` | `NothingIsMissed`, if `KnownOps`; `WatchersCounted`, if `ServesAll` | `NothingMissed`; `RightOrDue` of `Presence` |
| `FrontEndProofs` | `SessionsAreWhole`, `OneTabActsAsShown`; `TypedOnceHeldOnce`, `ButtonsComeBack`, if `Sensible` | `SessionWhole`, `ActsAsShown`; `HeldOnce` (English and Dutch auctions), `NoDeadButton` of `PricePanel` |
| | `EndShownAsAnnounced`, if `Timed`; `ToastsBeginToGo`, if `Lively` | `EndAsAnnounced`, `ToastsLeave` of `AuctionNotices` |
| | `DutchLastsAsHinted`, if `Typable` | `LastsAsHinted` of `CreateForm` |

*Hypotheses.* `Undisturbed`: one process runs the scheduler, which takes one job at a time, and no
admin overwrites a status. That is how the system runs normally, but it does not enforce either:
with two schedulers, or a moderation of an ended auction, TLC finds an outcome that changes, so
`outcome`, `proxy` and `proxy_live` run without them; `books` runs with both. Crashes, stalls, aborts and
redelivered jobs are not excluded. `DutchAboveReserve`: a Dutch auction starts at its reserve or
above; `createAuction` does not check that, so it cannot be an assumption of the model. `OnlyStalls`:
no run of endAuction dies or has a transaction aborted; after either, the code leaves work undone
(`RetryResumes` below; a failed settlement waits for the winner).
`RoomInStreams`: backpressure (`BACKPRESSURE_THRESHOLD`, 750 by default) stops a stream before `XADD`
begins to trim it (`STREAM_TTL_ENTRIES`, 1000), even when all users and failed `XLEN`s add to it at
once. `bid.sequencer.ts:54` relies on the same order of the two numbers; beyond it an entry may be
trimmed before it is read, and the group passes it untried. `KnownOps`: every click and operation has
its entry in the tables of the module. `ServesAll`: one gateway process serves every viewer, as without the Redis adapter. `Sensible`: amounts are numbers and the increment is positive,
as the schema of the handler demands. `LoopSuffices`: no limit of an English auction is more than
`MaxLadder` increments, which is where the loop of the worker stops (index.ts: 100000 rungs); beyond
it a ladder ends short of its price. `Timed`: the end and the window of anti-sniping are instants.
`Lively`: a stack of at least one toast, a life and a period (by default 5, 4000 and 200 ms).
`Typable`: an entry is one of the three types, or a number in any other field.

*Core.* `TypeOK` alone is not inductive where money is concerned: settling moves money
between two rows, and the accounting differs if buyer and seller are one user. `SellerOutside` says
they are not, neither among the bids nor in a run that is still to settle. There is one
lemma per movement of `Accounts`: it keeps rows typed, keeps each row explained (`KeepsBooks`),
keeps holds covered provided the amount was available, and either sells nothing (`KeepsSales`) or
is exactly one sale (`ShowsSale`). Each action is shown to be safe for money
(`SafeForMoney`: one lemma per action, from those), to keep the bid rows (`RowsKept`) and to write
typed columns and sound runs (`ColumnsTyped`); the three together give `Inv'`, and the money lemmas
give the ledger theorems and the refinement without being repeated. For `EnglishBidsClimb` most
actions are *quiet* (no bid is added or becomes WINNING, the price stays or becomes that of the
WINNING bid) and one lemma covers them all; `PlaceBid` is treated on its own.

*Sums.* `MoneyConserved` and `HeldBacksBids` speak of sums over users, bids and auctions. The library
defines `SumFunctionOnSet` but states nothing about it; the lemmas on sums prove, by descending to a
smallest counterexample, that a sum is an amount, that adding or removing one element adds or
removes its amount, and that sums of equal functions are equal. Each action then moves at most two
terms.

*Outcome.* What an ended auction shows is decided in one transaction and used by two later ones, with
bids, confirmations, buy-now and redelivered runs in between. `OutcomeInv` therefore says, of every
auction: what holds before its outcome (`NoOutcomeYet`, `Untouched`, `OnOffer`), that a bid that has won
is the best and has the price shown (`BestWins`), that whatever the winner may still confirm is
that bid or one of its amount (`Confirmable`), that the refund is done for all bids or none
(`AllOrNone`), that every run under way carries what the auction shows (`RunShows`), and that an
auction has one drop-price job under way at the most, which carries the price one step below the one shown,
unless a purchase has replaced that, and has not changed the price since somebody accepted it
(`DropsKnown`). A step on
another auction keeps all of it (`SameAuction`), so each action is treated only at its own auction.
`HoldsInv` adds which rows may be WON, WINNING or released before and after the refund (`HoldsSound`),
and from these that the hold of a wallet is the sum of the bids that still stand (`HeldBacked`). Here
a tie of sealed bids has to be excluded, as the property does: with one, the rows differ. It also says
that the winning bid keeps its hold until it is paid for, so wherever a crash or an abort has cut
endAuction short the winner can still confirm, and of the winner's bids the one that is asked for has
the price shown (`WinnerCanConfirm`).

*Closing.* `NothingForgotten` is the safety half of `WinnerPays` and `LosersReleased`: every auction has
the job or the run that owes it its next step, so that nothing is needed but a worker that goes on,
which is what `WorkerFairness` says. It is inductive on `HoldsInv`: a step either leaves an auction its
job and its runs (`WorkLeft`), or ends it and takes on what follows (`EndTakesWorkOn`), or does what a
run was for and hands on the rest (`RunDoesWork`).

*Ladders.* While a ladder runs, its copy of rows and wallets differs from the database, and everything
else goes on. `LadderSound` says how: its rows are those of the auction followed by its rungs
(`RowsClimb`), each within the limit read (`RungsSound`); its wallets are those of the database but for
the hold of the trigger, released, and that of the leader, taken, each with the rows that explain it
and without a payment (`HoldsMoved`); and the auction is as
it found it (`SceneKept`), because no step of the core touches rows or wallets it has locked
(`LaddersApart` for two ladders). `SameSound` carries this over the steps of others, `MovesBacked` and
`NextSound` over its own. At the commit the copy replaces the database, and the difference is exactly
one displaced and one new leader: the step lemmas of the core apply. That a rung never repeats a
leader while somebody else could bid needs that whoever has left the pool without being deactivated
can no longer afford a rung, the last conjunct of `RungsSound`.

To the core, every step of the composition is one of its own, a stutter, or a commit of a sound
ladder (`ProxySteps`). A commit is as safe for money as an action of the core (`CommitMoney`), so the
core's lemmas on books, totals and sales apply to `ProxySpec` as they do to `Spec`; and it is of an
auction that is ACTIVE, so no outcome changes. `LaddersSellOnce` needs a wider set of amounts than
`SoldAtMostOnce`: every rung is within a limit that somebody registered (`Asked`, from `AimInv`).

*Second price.* The ceiling that a ladder computes from the two highest limits when it begins must
still be where it ends. `AimSound` says that the ceiling is the one of its candidates (`AimsAt`), that
the price is on the grid and below it while the ladder runs, and that the steps left are those the
loop bound allows, less those taken, unless somebody has dropped out. The quotients in the ceiling
and the bound are treated by lemmas of their own (`Multiples`, `Quotients`, `OnGrid`).

*Timetable.* `CourseInv` says what each stage of an auction's life leaves as it is: until it opens
(`Unlisted`, `Opening`, `UnopenedUnsold`), once sold (`SoldEnds`), about its end (`EndsAsListed`) and
about the price that a drop-price job carries between its read and its write: it is a step below the
one shown, also when that one has been accepted meanwhile (`CarriedPrice`). `PriceKeepsPace` needs that
the clock is started only once (`ClockOnce`), since createAuction, the start job and reconciliation
can each start it, and that the drops made so far, with the one that is carried and the one that a crash will repeat, are no more than
intervals have passed and crashes happened (`PaceInv`). `SomethingEndsIt`, the safety half of
`EveryAuctionCloses`, follows each step that hands the auction on to the next job, from `createAuction`
to the start job to the clock; its invariant `Attended` speaks of cancelled auctions as well, because
the start job may overwrite a cancellation and then needs the jobs that are left.

*Intake.* A stream plus the requests that have measured it stays below the threshold plus
one request per user and failed command (`BoundInv`): adding moves an entry from the one count to the
other. The refinement needs that the group passes only what has arrived, with everything tried behind
it (`PassedInv`), that what a consumer holds was delivered, has been tried by nobody and comes after all
that its server has tried, in the order of arrival (`HandOf`), and that no two consumers hold the same
entry (`Apart`). What each server has tried is then in order (`ServerOrder`), which with a single server
is the order of arrival. With `RoomInStreams` nothing is ever trimmed (`KeptInv`), hence
nothing acknowledged is untried (`AnswerInv`).

*Commitments.* The properties speak of rows, but what will be written to a row is already decided in
a request under way: a commit that has passed its check was sent blind (`CheckedIsBlind`), a reveal
that has matched matched something committed (`MatchCommitted`), and while the auction is open
nothing is revealed or about to be (`OpenIsHidden`). Most steps only move requests on; `MoveOn` and
`MovingOnKeeps` treat them once. For the nonce (`NonceSound`), a commit sent alone and still awaited
finds its page open, with nothing stored and no reveal under way, or else something has gone wrong
that `CanStillReveal` leaves out (`CommitWaits`); and what an answer under way says is what the row
holds (`DoneIsStored`, `DoneIsRevealed`), so the page stores the pair of the row.

*Suspension.* `LockedOutInTime` needs to know how long each leak can still last: a read that missed
the suspension began before it (`MissesAreOld`) and is short (`ReadsReturn`), so the entry it fills
expires in time (`LeaksExpire`). `EvictionSettles` is the second conjunct of `Settled`, whose first
says the same of the reads that will fill the cache.

*Row locks.* Without a second stage a transaction holds only rows of lower rank than those it still
wants (`InSequence`), where rows of equal rank are one row (`Distinct`: it locks one auction). In a
cycle of such transactions take the one that waits for the row of least rank (`LeastNumber`): some
other one waits for a row that it holds, of a lower rank.

*Fraud window.* With events in the order of their times (`InOrder`), pruning a window by a later
event gives the window of that event; `AddKeepsWindow` says so of one map and serves both. A response
time is counted from an event of that window, the last by its number (`Numbered`, `LastAmong`).

*Ring.* `RingInv` says which measurement each place of the ring holds: before it is full the one of
its own number, afterwards one of the last round or of the one before (`HeldAt`), so that a place
keeps its measurement until it is overwritten.

*Pages.* `LiveInv` follows an announcement: operations are numbered in the order of their commits
(`Numbered`), an event is on its way only after the commit that it announces (`NothingEarly`, from the
order of the steps in the tables, `StepsInOrder`), and what the page has heard of is shown, being
fetched by a read that has seen it, or asked for by a request yet to be read (`Answered`).

*Session.* `SessionWhole` needs that every answer under way will store a whole session (`Storable`:
the token it carries is one its account was given). `ActsAsShown` with one tab needs more: the store is
a copy of localStorage from its hydration on (`Copied`), so what a request was sent with is what its
page showed (`SentAsShown`); `SetAuthKeepsOwn`, `SignOutKeepsOwn` and `NewDocumentKeepsOwn` treat the
three ways in which both change.

*Panel.* A hold is refused below the minimum, and the first hold of an entry raises the price to its
amount (`PriceCovers`); prices only rise, so with a positive increment (`Sensible`) no later copy of
the entry is acceptable. In a Dutch auction the first acceptance closes it.

*Notices.* The end of the auction is changed in the row after it was announced, and announced before
it is handled. `Announced` says of every end that counts (`row.end`, and that of an open transaction)
that the page will have it once it has handled what is still on the wire (`WillHear`), because
extensions come in order (`HeardInOrder`). For the ticker, `TickerInv` bounds how late the interval can
still fire for a toast that waits (`Delay`): each toast that comes puts it off by one period, but
only until the stack is full, for then the number of toasts no longer changes.

*Form.* The form and `createAuction` compute the length of a Dutch auction separately, the one from
what is typed, the other from the body. `HintInv` says that a request under way has no end of its own
and carries the length of its body (`RequestKept`), although the form may change meanwhile, and that
each row kept it (`RowKept`). `BodyOf` shows that what the body leaves out changes neither.

*Presence.* With one gateway a page shows how many are open or has word of it to come. Whoever comes or
goes starts the timer, if none runs; firing it asks for a count, and the latest count, when it is
answered, counts the sockets that are in the room then. So `CountComes` holds of whoever is in the
room: unless the timer runs or the latest count is unanswered, the last number on its way, among the
counts, the messages and the page, is that of the sockets. `RoomOfPages` and `AsManySockets` make that
the number of open pages, once nobody has to reconnect or to be forgotten. With two gateways TLC refutes
it, as it does `ViewersSettle`: neither knows which of their counts is the later.

Model-checked only, since liveness under fairness is beyond the provers: `ViewersSettle`, the queries of
the fraud desk (`SuspensionShows`, `FlagsAreCounted`), `WinnerPays`, `LosersReleased`, `LadderEnds`, `EveryAuctionCloses`,
`BacklogCleared`, `ShownInTheEnd` and `BackInTheRoom`.

## Not modelled

* Hashing and signing; routing, rate limits; decimal arithmetic of a library: single statements or
  library code without shared state.
* The average that `rateUser` recomputes after its insert; editing and deleting a PENDING auction,
  which are guarded updates of texts.
* The score of the fraud classifier (real arithmetic); layout, filters, charts, certificates, the
  forms of profile and wallet.
* Simulator, seeding, benchmarks and documentation scripts: not part of the running system.

## Plan

Modelled so far: what decides over money, time, order and visibility, and the session and panels of
the browser. Proved so far: all safety properties of the runs of the core, the timetable, the intake,
the suspension, the commitments, the pages, the session, the panel, the notices, the form and the ladders.
What remains:

1. Proofs: that what the fraud page shows of stored flags and suspensions never goes back, which is
   behind `SuspensionShows` and `FlagsAreCounted`.
2. The simulator as a client: the agents' decisions against `AuctionHouse`.
