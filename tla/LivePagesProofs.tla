--------------------------- MODULE LivePagesProofs ---------------------------
(***************************************************************************)
(* The open page shows whatever it has been told of, for any pages, clicks *)
(* and operations of others: the argument follows an announcement from the *)
(* commit before it to the answer of the fetch that it causes.             *)
(* Presence: with one gateway, the number of viewers that a page shows is  *)
(* right, or word of it is to come.                                        *)
(***************************************************************************)
EXTENDS LivePages, SequenceTheorems, FiniteSetTheorems, TLAPS

\* The operations that the front end and the server know.
KnownOps == Clicks \subseteq DOMAIN Clicked /\ Others \subseteq DOMAIN Done

\* What the steps of an operation are called.
Steps == RoomEvents \cup {"commit", "notification:new", "fraud:flag"}
Ops   == Clicks \cup Others

\* No step of an operation commits after one that announces the commit.
CommitsFirst(steps) ==
  \A m, n \in DOMAIN steps : m < n /\ steps[m] \in Announcements => steps[n] # "commit"

\* Whether the operation j has its commit ahead.
Uncommitted(j) == \E n \in DOMAIN j.left : j.left[n] = "commit"

LiveTypeOK ==
  /\ log \in Seq([op : Ops, id : Nat])
  /\ jobs \subseteq [op : Ops, id : Nat, left : Seq(Steps)]
  /\ down \in Seq([event : Steps, id : Nat])
  /\ begun \in Nat
  /\ heard \subseteq Nat
  /\ shown \in -1 .. Len(log)
  /\ fetch \in -2 .. Len(log)

\* Operations have numbers of their own, used up in their order.
Numbered ==
  /\ \A j \in jobs : j.id < begun
  /\ \A j, k \in jobs : j.id = k.id => j = k
  /\ \A i \in heard : i < begun
  /\ \A k \in DOMAIN down : down[k].id < begun

\* Nobody has heard, or is about to hear, of what is not committed yet.
NothingEarly ==
  \A j \in jobs :
    /\ CommitsFirst(j.left)
    /\ Uncommitted(j) =>
         /\ j.id \notin heard
         /\ \A k \in DOMAIN down : down[k].id = j.id => down[k].event \notin Announcements

\* What the page has heard of it shows, or will show when its fetch is answered.
Answered ==
  /\ fetch >= 0 => shown <= fetch
  /\ \A i \in DOMAIN log : log[i].id \in heard => shown >= i \/ fetch = Sent \/ fetch >= i

LiveInv == LiveTypeOK /\ Numbered /\ NothingEarly /\ Answered

\* Every operation commits before it announces.
LEMMA StepsInOrder ==
  ASSUME KnownOps, NEW op \in Ops
  PROVE  /\ Operation(op).steps \in Seq(Steps) /\ CommitsFirst(Operation(op).steps)
<1> DEFINE Orders == { <<"commit">>, <<"commit", "bid:new">>, <<"commit", "auction:ended">>,
                       <<"auction:extended", "commit", "bid:new">>, <<"commit", "bid:ladder">>,
                       <<"commit", "auction:price-drop">>, <<"commit", "notification:new">>,
                       <<"fraud:flag", "commit">> }
<1>1. ASSUME op \in Clicks PROVE Clicked[op].op.steps \in Orders
  <2>1. op \in {"placeBid", "setAutoBid", "cancelAutoBid", "toggleWatchlist", "buyNow",
                "cancelAuction", "rateUser", "reveal", "toggleListed", "removeWatched",
                "handleAction", "markRead", "updateProfile", "toggleSuspend", "moderate",
                  "dismiss",
                "suspendBidder"}
    BY <1>1 DEF KnownOps, Clicked
  <2>2. Clicked[op] \in {PlaceBid, BuyNow, SetAutoBid, CancelAutoBid,
          ToggleWatchlist, CancelAuction, RateUser, Reveal,
            ToggleListed, RemoveWatched,
          HandleAction, MarkRead, UpdateProfile, ToggleSuspend,
            Moderate, Dismiss, SuspendBidder}
    BY <2>1 DEF Clicked
  <2>3. /\ PlaceBid.op.steps = <<"commit", "bid:new">>
        /\ BuyNow.op.steps = <<"commit", "auction:ended">>
    BY DEF PlaceBid, BuyNow, Click, Op
  <2>4. \A c \in {SetAutoBid, CancelAutoBid, ToggleWatchlist,
        CancelAuction, RateUser, Reveal,
                  ToggleListed, RemoveWatched} : c.op.steps = <<"commit">>
    BY DEF SetAutoBid, CancelAutoBid, ToggleWatchlist, CancelAuction,
           RateUser, Reveal,
           ToggleListed, RemoveWatched, Click, Op, Quietly,
             WatchlistWrite, RatingWrite
  <2>5. \A c \in {HandleAction, MarkRead, UpdateProfile, ToggleSuspend,
        Moderate, Dismiss,
                  SuspendBidder} : c.op.steps = <<"commit">>
    BY DEF HandleAction, MarkRead, UpdateProfile, ToggleSuspend,
           Moderate, Dismiss,
           SuspendBidder, Click, Op, Quietly, NotificationWrite,
             UserWrite, FlagWrite
  <2> QED
    BY <2>1, <2>2, <2>3, <2>4, <2>5
<1>2. ASSUME op \in Others PROVE Done[op].steps \in Orders
  <2>1. op \in {"edit", "snipe", "ladder", "drop", "end", "deliver", "onBid"}
    BY <1>2 DEF KnownOps, Done
  <2>2. Done[op] \in {Edit, Snipe, Ladder, Drop, End,
        Deliver, OnBid}
    BY <2>1 DEF Done
  <2>3. \A o \in {Edit, Snipe, Ladder, Drop, End, Deliver,
        OnBid} : o.steps \in Orders
    BY DEF Edit, Snipe, Ladder, Drop, End, Deliver, OnBid,
           Op, Quietly
  <2> QED
    BY <2>1, <2>2, <2>3
<1>3. \A s \in Orders : s \in Seq(Steps) /\ CommitsFirst(s)
  <2>1. {"commit", "auction:extended", "fraud:flag"} \cap Announcements = {}
    BY DEF Announcements, RoomEvents
  <2>2. \A s \in Orders : s \in Seq(Steps)
    <3>1. \A S : \A a, b, c \in S : <<a>> \in Seq(S) /\ <<a, b>> \in Seq(S) /\ <<a, b,
          c>> \in Seq(S)
      OBVIOUS
    <3>2. {"commit", "bid:new", "auction:ended", "auction:extended", "bid:ladder",
           "auction:price-drop", "notification:new", "fraud:flag"} \subseteq Steps
      BY DEF Steps, RoomEvents
    <3> QED
      BY <3>1, <3>2
  <2>3. ASSUME NEW a, NEW b, b = "commit" => a \notin Announcements
        PROVE  CommitsFirst(<<a>>) /\ CommitsFirst(<<a, b>>)
    BY <2>3 DEF CommitsFirst
  <2>4. CommitsFirst(<<"auction:extended", "commit", "bid:new">>)
    BY <2>1 DEF CommitsFirst
  <2> QED
    BY <2>1, <2>2, <2>3, <2>4
<1> HIDE DEF Orders
<1> QED
  BY <1>1, <1>2, <1>3 DEF Operation, Ops


\* A fetch begins, or not.
Refetches == fetch' \in {fetch, Sent}

LEMMA RefetchAnswers ==
  ASSUME LiveTypeOK, Answered, Refetches, UNCHANGED <<log, shown>>, heard' = heard
  PROVE  Answered' /\ fetch' \in -2 .. Len(log')
BY DEF LiveTypeOK, Answered, Refetches, Sent

\* The cache: what is read now has everything that is committed.
LEMMA CacheKeeps ==
  ASSUME LiveInv,
    FetchRead \/ FetchDone \/ Poll \/ \E p \in Pages : Visit(p)
  PROVE  LiveInv'
<1>1. UNCHANGED <<log, jobs, heard, begun, down>>
  BY DEF FetchRead, FetchDone, Poll, Visit, socketVars
<1>2. Numbered' /\ NothingEarly'
  BY <1>1 DEF LiveInv, Numbered, NothingEarly, Uncommitted, CommitsFirst
<1>3. Answered' /\ shown' \in -1 .. Len(log') /\ fetch' \in -2 .. Len(log')
  <2>1. Len(log) \in Nat /\ shown \in -1 .. Len(log) /\ fetch \in -2 .. Len(log)
        /\ DOMAIN log = 1 .. Len(log)
    BY LenProperties DEF LiveInv, LiveTypeOK
  <2>2. CASE FetchRead
    <3>1. fetch' = Len(log) /\ shown' = shown /\ log' = log
      BY <2>2 DEF FetchRead
    <3> DEFINE last == Len(log)
    <3>2. last \in Nat /\ shown \in -1 .. last /\ DOMAIN log = 1 .. last /\ fetch' = last
      BY <2>1, <3>1
    <3> HIDE DEF last
    <3>3. fetch' >= 0 => shown' <= fetch'
      BY <3>1, <3>2
    <3>4. \A i \in DOMAIN log : fetch' >= i
      BY <3>2
    <3>5. Answered'
      BY <3>1, <3>3, <3>4 DEF Answered
    <3>6. shown' \in -1 .. last /\ fetch' \in -2 .. last
      BY <3>1, <3>2
    <3> QED
      BY <3>1, <3>5, <3>6 DEF last
  <2>3. CASE FetchDone
    BY <1>1, <2>1, <2>3 DEF FetchDone, LiveInv, Answered, Idle, Sent
  <2>4. CASE Poll \/ \E p \in Pages : Visit(p)
    <3>1. UNCHANGED shown /\ Refetches
      BY <2>4 DEF Poll, Visit, RefetchIf, Refetches
    <3> QED
      BY <1>1, <2>1, <3>1, RefetchAnswers DEF LiveInv
  <2> QED
    BY <2>2, <2>3, <2>4
<1> QED
  BY <1>1, <1>2, <1>3 DEF LiveInv, LiveTypeOK

\* The socket: events get lost, and nothing is heard.
LEMMA SocketKeeps ==
  ASSUME LiveInv, ServeRoomCall \/ Disconnect \/ Reconnect \/ GiveUp
  PROVE  LiveInv'
<1>1. UNCHANGED <<log, jobs, heard, begun, shown>> /\ Refetches
  BY DEF ServeRoomCall, Disconnect, Reconnect, GiveUp, cacheVars,
         Refetches, RefetchIf
<1>2. down' = down \/ down' = <<>>
  BY DEF ServeRoomCall, Disconnect, Reconnect, GiveUp
<1>3. Numbered' /\ NothingEarly'
  BY <1>1, <1>2 DEF LiveInv, Numbered, NothingEarly, Uncommitted, CommitsFirst
<1>4. Answered' /\ fetch' \in -2 .. Len(log')
  BY <1>1, RefetchAnswers DEF LiveInv
<1>5. down' \in Seq([event : Steps, id : Nat])
  BY <1>2, EmptySeq DEF LiveInv, LiveTypeOK
<1> QED
  BY <1>1, <1>3, <1>4, <1>5 DEF LiveInv, LiveTypeOK

\* A new operation has its commit ahead; its number is new.
LEMMA BeginKeeps ==
  ASSUME KnownOps, LiveInv, NEW op \in Ops, Begin(op)
  PROVE  LiveInv'
<1> DEFINE new == [op |-> op, id |-> begun, left |-> Operation(op).steps]
<1>1. /\ UNCHANGED <<log, heard, down, shown, fetch>>
      /\ jobs' = jobs \cup {new} /\ begun' = begun + 1
  BY DEF Begin, cacheVars, socketVars
<1>2. begun \in Nat
  BY DEF LiveInv, LiveTypeOK
<1>3. /\ new.id = begun /\ new.left = Operation(op).steps
      /\ new \in [op : Ops, id : Nat, left : Seq(Steps)]
  BY <1>2, StepsInOrder
<1>4. CommitsFirst(new.left)
  BY <1>3, StepsInOrder
<1> HIDE DEF new
<1>5. LiveTypeOK'
  BY <1>1, <1>2, <1>3 DEF LiveInv, LiveTypeOK
<1>6. jobs \subseteq [op : Ops, id : Nat, left : Seq(Steps)] /\ heard \subseteq Nat
  BY DEF LiveInv, LiveTypeOK
<1>7. \A k \in DOMAIN down : down[k].id \in Nat
  <2>1. \A k \in DOMAIN down : down[k] \in [event : Steps, id : Nat]
    BY ElementOfSeq, LenProperties DEF LiveInv, LiveTypeOK
  <2> QED
    BY <2>1
<1>8. Numbered'
  BY <1>1, <1>2, <1>3, <1>6, <1>7 DEF LiveInv, Numbered
<1>9. NothingEarly'
  <2>1. new.id \notin heard /\ \A k \in DOMAIN down : down[k].id # new.id
    BY <1>2, <1>3, <1>6, <1>7 DEF LiveInv, Numbered
  <2>2. \A j \in jobs' : j \in jobs \/ j = new
    BY <1>1
  <2> QED
    BY <1>1, <1>4, <2>1, <2>2 DEF LiveInv, NothingEarly, Uncommitted, CommitsFirst
<1>10. Answered'
  BY <1>1 DEF LiveInv, Answered
<1> QED
  BY <1>5, <1>8, <1>9, <1>10 DEF LiveInv

\* An operation that has taken a step.
LEMMA AdvancedIs ==
  ASSUME LiveInv, NEW j \in jobs, j.left # <<>>, jobs' = Advanced(j)
  PROVE  /\ jobs' \subseteq [op : Ops, id : Nat, left : Seq(Steps)]
         /\ \A k \in jobs' : \E i \in jobs :
              /\ k.id = i.id
              /\ CommitsFirst(k.left)
              /\ Uncommitted(k) => Uncommitted(i)
              /\ i = j \/ k = i
              /\ i = j /\ Head(j.left) \in Announcements => ~Uncommitted(k)
         /\ \A k, l \in jobs' : k.id = l.id => k = l
         /\ Head(j.left) \in Steps
<1> DEFINE next == [j EXCEPT !.left = Tail(j.left)]
<1>1. j \in [op : Ops, id : Nat, left : Seq(Steps)] /\ j.left \in Seq(Steps)
  BY DEF LiveInv, LiveTypeOK
<1>2. /\ Head(j.left) \in Steps /\ Tail(j.left) \in Seq(Steps) /\ 1 \in DOMAIN j.left
      /\ Head(j.left) = j.left[1]
      /\ \A n \in DOMAIN Tail(j.left) : n + 1 \in DOMAIN j.left
         /\ Tail(j.left)[n] = j.left[n + 1]
                                        /\ n \in Nat \ {0}
  <2>1. /\ Head(j.left) \in Steps /\ Tail(j.left) \in Seq(Steps)
        /\ Len(Tail(j.left)) = Len(j.left) - 1
        /\ \A n \in 1 .. Len(Tail(j.left)) : Tail(j.left)[n] = j.left[n + 1]
    BY <1>1, HeadTailProperties
  <2>2. /\ DOMAIN j.left = 1 .. Len(j.left) /\ Len(j.left) \in Nat
        /\ DOMAIN Tail(j.left) = 1 .. Len(Tail(j.left))
    BY <1>1, <2>1, LenProperties
  <2>3. Len(j.left) # 0
    BY <1>1, EmptySeq
  <2> QED
    BY <1>1, <2>1, <2>2, <2>3
<1>3. /\ next.id = j.id /\ next.left = Tail(j.left)
      /\ next \in [op : Ops, id : Nat, left : Seq(Steps)]
  BY <1>1, <1>2
<1>4. jobs' = (jobs \ {j}) \cup {next}
  BY DEF Advanced
<1> HIDE DEF next
<1>5. CommitsFirst(next.left) /\ (Uncommitted(next) => Uncommitted(j))
      /\ (Head(j.left) \in Announcements => ~Uncommitted(next))
  <2>1. CommitsFirst(j.left)
    BY DEF LiveInv, NothingEarly
  <2>2. CommitsFirst(next.left)
    <3> SUFFICES ASSUME NEW m \in DOMAIN Tail(j.left), NEW n \in DOMAIN Tail(j.left), m < n,
                        Tail(j.left)[m] \in Announcements
                 PROVE  Tail(j.left)[n] # "commit"
      BY <1>3 DEF CommitsFirst
    <3>1. m + 1 \in DOMAIN j.left /\ n + 1 \in DOMAIN j.left /\ m + 1 < n + 1
      BY <1>2
    <3> QED
      BY <1>2, <2>1, <3>1 DEF CommitsFirst
  <2>3. Uncommitted(next) => Uncommitted(j)
    BY <1>2, <1>3 DEF Uncommitted
  <2>4. ASSUME Head(j.left) \in Announcements PROVE ~Uncommitted(next)
    <3>1. \A n \in DOMAIN Tail(j.left) : 1 < n + 1
      BY <1>2
    <3> QED
      BY <1>2, <1>3, <2>1, <2>4, <3>1 DEF CommitsFirst, Uncommitted
  <2> QED
    BY <2>2, <2>3, <2>4
<1>6. \A k \in jobs' : \E i \in jobs :
              /\ k.id = i.id
              /\ CommitsFirst(k.left)
              /\ Uncommitted(k) => Uncommitted(i)
              /\ i = j \/ k = i
              /\ i = j /\ Head(j.left) \in Announcements => ~Uncommitted(k)
  BY <1>3, <1>4, <1>5 DEF LiveInv, NothingEarly
<1>7. \A k, l \in jobs' : k.id = l.id => k = l
  BY <1>3, <1>4 DEF LiveInv, Numbered
<1>8. jobs' \subseteq [op : Ops, id : Nat, left : Seq(Steps)]
  BY <1>3, <1>4 DEF LiveInv, LiveTypeOK
<1> QED
  BY <1>2, <1>6, <1>7, <1>8

\* What is committed was not heard of before.
LEMMA CommitKeeps ==
  ASSUME LiveInv, NEW j \in jobs, Commit(j)
  PROVE  LiveInv'
<1>1. /\ j.left # <<>> /\ Head(j.left) = "commit" /\ jobs' = Advanced(j)
      /\ log' = Append(log, [op |-> j.op, id |-> j.id])
      /\ UNCHANGED <<heard, down, shown, fetch, begun>>
  BY DEF Commit, cacheVars, socketVars
<1>2. j \in [op : Ops, id : Nat, left : Seq(Steps)] /\ log \in Seq([op : Ops, id : Nat])
  BY DEF LiveInv, LiveTypeOK
<1>3. /\ log' \in Seq([op : Ops, id : Nat]) /\ Len(log') = Len(log) + 1
      /\ DOMAIN log' = 1 .. Len(log) + 1 /\ Len(log) \in Nat
      /\ \A i \in DOMAIN log : log'[i] = log[i]
      /\ DOMAIN log = 1 .. Len(log)
      /\ log'[Len(log) + 1].id = j.id
  <2> DEFINE e == [op |-> j.op, id |-> j.id]
  <2>1. e \in [op : Ops, id : Nat] /\ e.id = j.id
    BY <1>2
  <2>2. log' = Append(log, e)
    BY <1>1
  <2> HIDE DEF e
  <2>3. DOMAIN log = 1 .. Len(log) /\ Len(log) \in Nat
    BY <1>2, LenProperties
  <2>4. /\ log' \in Seq([op : Ops, id : Nat]) /\ Len(log') = Len(log) + 1
        /\ \A i \in 1 .. Len(log) : log'[i] = log[i]
        /\ log'[Len(log) + 1] = e
    BY <1>2, <2>1, <2>2, AppendProperties
  <2>5. DOMAIN log' = 1 .. Len(log')
    BY <2>4, LenProperties
  <2> QED
    BY <2>1, <2>3, <2>4, <2>5
<1>4. LiveTypeOK'
  BY <1>1, <1>3, AdvancedIs DEF LiveInv, LiveTypeOK
<1>5. Numbered'
  BY <1>1, AdvancedIs DEF LiveInv, Numbered
<1>6. NothingEarly'
  BY <1>1, AdvancedIs DEF LiveInv, NothingEarly
<1>7. j.id \notin heard
  <2>1. Uncommitted(j)
    <3>1. 1 \in DOMAIN j.left /\ j.left[1] = "commit"
      <4>1. j.left \in Seq(Steps) /\ DOMAIN j.left = 1 .. Len(j.left) /\ Len(j.left) \in Nat
        BY <1>2, LenProperties
      <4>2. Len(j.left) # 0
        BY <1>1, <4>1, EmptySeq
      <4> QED
        BY <1>1, <4>1, <4>2
    <3> QED
      BY <3>1 DEF Uncommitted
  <2> QED
    BY <2>1 DEF LiveInv, NothingEarly
<1>8. Answered'
  <2>1. \A i \in DOMAIN log' : i \in DOMAIN log \/ i = Len(log) + 1
    BY <1>3
  <2> QED
    BY <1>1, <1>3, <1>7, <2>1 DEF LiveInv, Answered
<1> QED
  BY <1>4, <1>5, <1>6, <1>8 DEF LiveInv

\* What is announced has been committed.
LEMMA EmitKeeps ==
  ASSUME LiveInv, NEW j \in jobs, Emit(j)
  PROVE  LiveInv'
<1> DEFINE e == [event |-> Head(j.left), id |-> j.id]
<1>1. /\ j.left # <<>> /\ jobs' = Advanced(j)
      /\ UNCHANGED <<log, heard, shown, fetch, begun>>
      /\ down' = down \/ down' = Append(down, e)
  BY DEF Emit, cacheVars
<1>2. j \in [op : Ops, id : Nat, left : Seq(Steps)] /\ down \in Seq([event : Steps, id : Nat])
  BY DEF LiveInv, LiveTypeOK
<1>3. e \in [event : Steps, id : Nat] /\ e.id = j.id /\ e.event = Head(j.left)
  BY <1>1, <1>2, AdvancedIs
<1> HIDE DEF e
<1>4. /\ down' \in Seq([event : Steps, id : Nat])
      /\ \A k \in DOMAIN down' : down'[k] = e \/ (k \in DOMAIN down /\ down'[k] = down[k])
  <2>1. CASE down' = Append(down, e)
    <3>1. /\ down' \in Seq([event : Steps, id : Nat]) /\ Len(down') = Len(down) + 1
          /\ \A i \in 1 .. Len(down) : down'[i] = down[i]
          /\ down'[Len(down) + 1] = e
      BY <1>2, <1>3, <2>1, AppendProperties
    <3>2. DOMAIN down' = 1 .. Len(down') /\ DOMAIN down = 1 .. Len(down) /\ Len(down) \in Nat
      BY <1>2, <3>1, LenProperties
    <3> QED
      BY <3>1, <3>2
  <2>2. CASE down' = down
    BY <1>2, <2>2
  <2> QED
    BY <1>1, <2>1, <2>2
<1>5. LiveTypeOK'
  BY <1>1, <1>4, AdvancedIs DEF LiveInv, LiveTypeOK
<1>6. Numbered'
  BY <1>1, <1>3, <1>4, AdvancedIs DEF LiveInv, Numbered
<1>7. NothingEarly'
  <2> SUFFICES ASSUME NEW k \in jobs'
               PROVE  /\ CommitsFirst(k.left)
                      /\ Uncommitted(k) =>
                           /\ k.id \notin heard
                           /\ \A n \in DOMAIN down' :
                                down'[n].id = k.id => down'[n].event \notin Announcements
    BY <1>1 DEF NothingEarly
  <2>1. PICK i \in jobs : /\ k.id = i.id
                          /\ CommitsFirst(k.left)
                          /\ Uncommitted(k) => Uncommitted(i)
                          /\ i = j \/ k = i
                          /\ i = j /\ Head(j.left) \in Announcements => ~Uncommitted(k)
    BY <1>1, AdvancedIs
  <2>2. ASSUME Uncommitted(k), NEW n \in DOMAIN down', down'[n].id = k.id
        PROVE  down'[n].event \notin Announcements
    <3>1. CASE down'[n] = e
      BY <1>3, <2>1, <2>2, <3>1 DEF LiveInv, Numbered
    <3>2. CASE n \in DOMAIN down /\ down'[n] = down[n]
      BY <2>1, <2>2, <3>2 DEF LiveInv, NothingEarly
    <3> QED
      BY <1>4, <3>1, <3>2
  <2> QED
    BY <2>1, <2>2 DEF LiveInv, NothingEarly
<1>8. Answered'
  BY <1>1 DEF LiveInv, Answered
<1> QED
  BY <1>5, <1>6, <1>7, <1>8 DEF LiveInv

LEMMA FinishKeeps ==
  ASSUME LiveInv, NEW j \in jobs, Finish(j)
  PROVE  LiveInv'
<1>1. UNCHANGED <<log, heard, begun, shown, down>> /\ jobs' = jobs \ {j} /\ Refetches
  BY DEF Finish, socketVars, Refetches, RefetchIf
<1>2. Numbered' /\ NothingEarly'
  BY <1>1 DEF LiveInv, Numbered, NothingEarly, Uncommitted, CommitsFirst
<1>3. Answered' /\ fetch' \in -2 .. Len(log')
  BY <1>1, RefetchAnswers DEF LiveInv
<1> QED
  BY <1>1, <1>2, <1>3 DEF LiveInv, LiveTypeOK

\* The page fetches again when it hears of an operation.
LEMMA HandleKeeps ==
  ASSUME LiveInv, HandleEvent
  PROVE  LiveInv'
<1> DEFINE e == Head(down)
<1>1. /\ down # <<>> /\ down' = Tail(down) /\ UNCHANGED <<log, jobs, begun, shown>>
      /\ Refetches
      /\ \/ heard' = heard
         \/ heard' = heard \cup {e.id} /\ fetch' = Sent /\ e.event \in Announcements
  BY DEF HandleEvent, RefetchIf, Refetches
<1>2. down \in Seq([event : Steps, id : Nat])
  BY DEF LiveInv, LiveTypeOK
<1>3. /\ e \in [event : Steps, id : Nat] /\ 1 \in DOMAIN down /\ e = down[1]
      /\ Tail(down) \in Seq([event : Steps, id : Nat])
      /\ \A k \in DOMAIN Tail(down) : k + 1 \in DOMAIN down /\ Tail(down)[k] = down[k + 1]
  <2>1. DOMAIN down = 1 .. Len(down) /\ Len(down) \in Nat /\ Len(down) # 0
    BY <1>1, <1>2, LenProperties, EmptySeq
  <2>2. /\ Tail(down) \in Seq([event : Steps, id : Nat]) /\ Len(Tail(down)) = Len(down) - 1
        /\ \A k \in 1 .. Len(Tail(down)) : Tail(down)[k] = down[k + 1]
    BY <1>1, <1>2, HeadTailProperties
  <2>3. DOMAIN Tail(down) = 1 .. Len(Tail(down))
    BY <2>2, LenProperties
  <2>4. e = down[1]
    BY <1>1, <1>2, HeadTailProperties
  <2>5. down[1] \in [event : Steps, id : Nat]
    <3>1. 1 \in 1 .. Len(down)
      BY <2>1
    <3> QED
      BY <1>2, <3>1, ElementOfSeq, Zenon
  <2> QED
    BY <2>1, <2>2, <2>3, <2>4, <2>5
<1> HIDE DEF e
<1>4. LiveTypeOK'
  <2>1. Len(log) \in Nat /\ fetch' \in -2 .. Len(log)
    BY <1>1, LenProperties DEF LiveInv, LiveTypeOK, Refetches, Sent
  <2> QED
    BY <1>1, <1>3, <2>1 DEF LiveInv, LiveTypeOK
<1>5. Numbered'
  BY <1>1, <1>3 DEF LiveInv, Numbered
<1>6. NothingEarly'
  <2>1. \A j \in jobs : Uncommitted(j) /\ e.event \in Announcements => j.id # e.id
    BY <1>3 DEF LiveInv, NothingEarly
  <2> QED
    BY <1>1, <1>3, <2>1 DEF LiveInv, NothingEarly, Uncommitted, CommitsFirst
<1>7. Answered'
  <2>1. CASE heard' = heard
    BY <1>1, <2>1, RefetchAnswers DEF LiveInv
  <2>2. CASE fetch' = Sent
    BY <1>1, <2>2 DEF LiveInv, Answered, Sent
  <2> QED
    BY <1>1, <2>1, <2>2
<1> QED
  BY <1>4, <1>5, <1>6, <1>7 DEF LiveInv

LEMMA LiveNext == KnownOps /\ LiveInv /\ [Next]_vars => LiveInv'
<1> SUFFICES ASSUME KnownOps, LiveInv, [Next]_vars PROVE LiveInv'
  OBVIOUS
<1>1. CASE UNCHANGED vars
  BY <1>1 DEF vars, socketVars, cacheVars, LiveInv, LiveTypeOK, Numbered,
     NothingEarly, Answered,
              Uncommitted, CommitsFirst
<1> QED
  BY <1>1, CacheKeeps, SocketKeeps, BeginKeeps, CommitKeeps, EmitKeeps, FinishKeeps, HandleKeeps
     DEF Next, Work, Ops

\* Whatever the pages, the operations, the navigation and the socket do: what the page has
\* been told of is on it as soon as no fetch is under way.
THEOREM NothingIsMissed ==
  ASSUME KnownOps
  PROVE  Spec => []NothingMissed
<1>1. Init => LiveInv
  <2> SUFFICES ASSUME Init PROVE LiveInv
    OBVIOUS
  <2>1. log = <<>> /\ Len(log) = 0 /\ down = <<>> /\ jobs = {} /\ heard = {} /\ begun = 0
        /\ shown = -1 /\ fetch \in {-1, -2}
    BY DEF Init, Nothing, Sent, Idle
  <2> QED
    BY <2>1, EmptySeq DEF LiveInv, LiveTypeOK, Numbered, NothingEarly, Answered
<1>2. LiveInv /\ [Next]_vars => LiveInv'
  BY LiveNext
<1>3. LiveInv => NothingMissed
  <2> SUFFICES ASSUME LiveInv, fetch = -2, NEW i \in DOMAIN log, log[i].id \in heard
               PROVE  shown >= i
    BY DEF NothingMissed, Idle
  <2>1. i \in Nat
    BY LenProperties DEF LiveInv, LiveTypeOK
  <2>2. shown >= i \/ fetch = -1 \/ fetch >= i
    BY DEF LiveInv, Answered, Sent
  <2> QED
    BY <2>1, <2>2
<1> QED
  BY <1>1, <1>2, <1>3, PTL DEF Spec

-----------------------------------------------------------------------------
(* How many watch: Presence, with one gateway                              *)

CONSTANTS Gateways, Reaches, PRESENCE_DEBOUNCE, MaxFaults
VARIABLES on, connected, epoch, sockets, timer, quiet, counting, wire, pill, faults

Watch == INSTANCE Presence WITH room <- sockets, shown <- pill

\* g serves everybody.
ServesAll(g) ==
  Gateways = {g} /\ Reaches \in [Watch!Viewers -> {g}] /\ PRESENCE_DEBOUNCE \in Nat

Answers == [Gateways -> {-1} \cup Nat]

WatchTyped ==
  /\ on \in SUBSET Watch!Viewers /\ IsFiniteSet(on)
  /\ connected \in [Watch!Viewers -> BOOLEAN]
  /\ epoch \in [Watch!Viewers -> Nat]
  /\ sockets \in SUBSET (Watch!Viewers \X Nat) /\ IsFiniteSet(sockets)
  /\ \A s \in sockets : s[2] <= epoch[s[1]]
  /\ timer \in [Gateways -> Nat]
  /\ counting \in [Gateways -> Seq(Answers)]
  /\ wire \in [Watch!Viewers -> Seq(Nat)]
  /\ pill \in [Watch!Viewers -> {-1} \cup Nat]

\* A viewer that is connected is in the room if and only if its page is open.
RoomOfPages == \A v \in Watch!Viewers : connected[v] => (v \in on <=> Watch!Socket(v) \in sockets)

\* Unless a count is due, or asked for and not answered, the last number on its way to whoever
\* is in the room counts the sockets that are in it.
CountComes(g) ==
  \A v \in Watch!Viewers : Watch!Receives(v) =>
    \/ timer[g] # 0
    \/ counting[g] # <<>> /\ counting[g][Len(counting[g])][g] = -1
    \/ Watch!Word(v) = Cardinality(sockets)

WatchInv(g) == WatchTyped /\ RoomOfPages /\ CountComes(g)

\* The sum of one answer is that answer.
LEMMA SumOfOne ==
  ASSUME NEW g, NEW a \in [{g} -> Int]
  PROVE  Watch!Sum(a) = a[g]
<1> DEFINE first(s)    == CHOOSE x \in s : TRUE
           IsTable(t)  == t = [s \in SUBSET {g} |-> IF s = {} THEN 0
                                                    ELSE a[first(s)] + t[s \ {first(s)}]]
           h           == [s \in SUBSET {g} |-> IF s = {} THEN 0 ELSE a[g]]
           table       == CHOOSE t : IsTable(t)
<1>1. Watch!Sum(a) = table[{g}]
  BY DEF Watch!Sum, Watch!SumFunction, Watch!SumFunctionOnSet, Watch!FoldFunctionOnSet,
         Watch!MapThenFoldSet
<1>2. \A s \in SUBSET {g} : s # {} => first(s) = g /\ s \ {first(s)} = {} /\ s = {g}
  OBVIOUS
<1>3. IsTable(h)
  BY <1>2
<1>4. IsTable(table)
  BY <1>3
<1> HIDE DEF table
<1>5. table[{}] = 0 /\ table[{g}] = a[g] + table[{}]
  BY <1>2, <1>4
<1> QED
  BY <1>1, <1>5

\* One gateway has all the sockets.
LEMMA LocalIsAll ==
  ASSUME NEW g, ServesAll(g), WatchTyped
  PROVE  Watch!Local(g) = Cardinality(sockets) /\ Cardinality(sockets) \in Nat
<1>1. {s \in sockets : Reaches[s[1]] = g} = sockets
  BY DEF ServesAll, WatchTyped
<1>2. Watch!Cardinality(sockets) = Cardinality(sockets)
  BY DEF Watch!Cardinality, Cardinality
<1> QED
  BY <1>1, <1>2, FS_CardinalityType DEF Watch!Local, WatchTyped

\* What is on its way to v depends on these alone; it is the number in the last count, if any.
LEMMA WordIs ==
  ASSUME NEW g, ServesAll(g), WatchTyped, NEW v \in Watch!Viewers
  PROVE  /\ counting[g] # <<>> => Watch!Word(v) = Watch!Sum(counting[g][Len(counting[g])])
         /\ counting[g] = <<>> /\ wire[v] # <<>> => Watch!Word(v) = wire[v][Len(wire[v])]
         /\ counting[g] = <<>> /\ wire[v] = <<>> => Watch!Word(v) = pill[v]
<1>1. Reaches[v] = g
  BY DEF ServesAll
<1> QED
  BY <1>1 DEF Watch!Word, Watch!Told, Watch!Last

\* After somebody has come or gone a count is due.
LEMMA ScheduleMakesDue ==
  ASSUME NEW g, ServesAll(g), WatchTyped, Watch!schedulePresenceEmit(g)
  PROVE  timer' \in [Gateways -> Nat] /\ timer'[g] # 0
BY DEF ServesAll, WatchTyped, Watch!schedulePresenceEmit

\* A page that opens, or comes back, joins under its present socket.
LEMMA OpenKeepsWatch ==
  ASSUME NEW g, ServesAll(g), WatchInv(g), NEW v \in Watch!Viewers, Watch!Open(v)
  PROVE  WatchInv(g)'
<1> USE DEF WatchInv
<1>1. Reaches[v] = g
  BY DEF ServesAll
<1>2. timer' \in [Gateways -> Nat] /\ timer'[g] # 0
  BY <1>1, ScheduleMakesDue DEF Watch!Open, Watch!Join
<1>3. /\ on' = on \cup {v}
      /\ sockets' = sockets \cup {<<v, epoch[v]>>}
      /\ UNCHANGED <<connected, epoch, counting, wire>>
      /\ pill' = [pill EXCEPT ![v] = -1]
  BY DEF Watch!Open, Watch!Join, Watch!Socket, Watch!Nobody
<1>4. IsFiniteSet(on') /\ IsFiniteSet(sockets')
  BY <1>3, FS_AddElement DEF WatchTyped
<1>5. WatchTyped'
  BY <1>2, <1>3, <1>4 DEF WatchTyped
<1>6. RoomOfPages'
  BY <1>3 DEF RoomOfPages, Watch!Socket, WatchTyped
<1> QED
  BY <1>2, <1>5, <1>6 DEF CountComes

LEMMA ReconnectKeepsWatch ==
  ASSUME NEW g, ServesAll(g), WatchInv(g), NEW v \in Watch!Viewers, Watch!Reconnect(v)
  PROVE  WatchInv(g)'
<1> USE DEF WatchInv
<1>1. Reaches[v] = g
  BY DEF ServesAll
<1>2. /\ ~connected[v]
      /\ connected' = [connected EXCEPT ![v] = TRUE]
      /\ epoch' = [epoch EXCEPT ![v] = @ + 1]
      /\ UNCHANGED <<on, counting, wire, pill>>
  BY DEF Watch!Reconnect
<1>3. CASE v \in on
  <2>1. timer' \in [Gateways -> Nat] /\ timer'[g] # 0
    BY <1>1, <1>3, ScheduleMakesDue DEF Watch!Reconnect
  <2>2. sockets' = sockets \cup {<<v, epoch[v] + 1>>}
    BY <1>3 DEF Watch!Reconnect
  <2>3. IsFiniteSet(sockets')
    BY <2>2, FS_AddElement DEF WatchTyped
  <2>4. WatchTyped'
    BY <1>2, <2>1, <2>2, <2>3 DEF WatchTyped
  <2>5. RoomOfPages'
    BY <1>2, <1>3, <2>2 DEF RoomOfPages, Watch!Socket, WatchTyped
  <2> QED
    BY <2>1, <2>4, <2>5 DEF CountComes
<1>4. CASE v \notin on
  <2>1. timer' \in [Gateways -> Nat] /\ (timer'[g] # 0 \/ timer' = timer)
    BY <1>1, <1>4, ScheduleMakesDue DEF Watch!Reconnect, WatchTyped
  <2>2. sockets' = sockets
    BY <1>4 DEF Watch!Reconnect
  <2>3. WatchTyped'
    BY <1>2, <2>1, <2>2 DEF WatchTyped
  <2>4. <<v, epoch[v] + 1>> \notin sockets
    BY DEF WatchTyped
  <2>5. RoomOfPages'
    BY <1>2, <1>4, <2>2, <2>4 DEF RoomOfPages, Watch!Socket, WatchTyped
  <2>6. CountComes(g)'
    <3>1. SUFFICES ASSUME timer' = timer PROVE CountComes(g)'
      BY <2>1 DEF CountComes
    <3>2. \A w \in Watch!Viewers : Watch!Word(w)' = Watch!Word(w)
      BY <1>2 DEF Watch!Word, Watch!Told
    <3>3. \A w \in Watch!Viewers : Watch!Receives(w)' => Watch!Receives(w)
      BY <1>2, <2>2, <2>4 DEF Watch!Receives, Watch!Socket, WatchTyped
    <3> QED
      BY <1>2, <2>2, <3>1, <3>2, <3>3 DEF CountComes
  <2> QED
    BY <2>3, <2>5, <2>6
<1> QED
  BY <1>3, <1>4

\* A page that closes leaves, and a socket that is gone is forgotten: a count is due.
LEMMA CloseKeepsWatch ==
  ASSUME NEW g, ServesAll(g), WatchInv(g), NEW v \in Watch!Viewers, Watch!Close(v)
  PROVE  WatchInv(g)'
<1> USE DEF WatchInv
<1>1. Reaches[v] = g
  BY DEF ServesAll
<1>2. /\ v \in on
      /\ on' = on \ {v}
      /\ wire' = [wire EXCEPT ![v] = <<>>]
      /\ UNCHANGED <<connected, epoch, counting, pill>>
  BY DEF Watch!Close
<1>3. IsFiniteSet(on')
  BY <1>2, FS_RemoveElement, FS_Subset DEF WatchTyped
<1>4. CASE Watch!Receives(v)
  <2>1. timer' \in [Gateways -> Nat] /\ timer'[g] # 0
    BY <1>1, <1>4, ScheduleMakesDue DEF Watch!Close
  <2>2. sockets' = sockets \ {<<v, epoch[v]>>}
    BY <1>4 DEF Watch!Close, Watch!Socket
  <2>3. IsFiniteSet(sockets')
    BY <2>2, FS_RemoveElement, FS_Subset DEF WatchTyped
  <2>4. WatchTyped'
    BY <1>2, <1>3, <2>1, <2>2, <2>3 DEF WatchTyped
  <2>5. RoomOfPages'
    BY <1>2, <2>2 DEF RoomOfPages, Watch!Socket, WatchTyped
  <2> QED
    BY <2>1, <2>4, <2>5 DEF CountComes
<1>5. CASE ~Watch!Receives(v)
  <2>1. UNCHANGED <<sockets, timer>>
    BY <1>5 DEF Watch!Close
  <2>2. ~connected[v]
    BY <1>2, <1>5 DEF RoomOfPages, Watch!Receives
  <2>3. WatchTyped'
    BY <1>2, <1>3, <2>1 DEF WatchTyped
  <2>4. RoomOfPages'
    BY <1>2, <2>1, <2>2 DEF RoomOfPages, Watch!Socket
  <2>5. CountComes(g)'
    <3>1. \A w \in Watch!Viewers : Watch!Receives(w)' => Watch!Receives(w) /\ w # v
      BY <1>2, <2>1, <2>2 DEF Watch!Receives, Watch!Socket
    <3>2. \A w \in Watch!Viewers : w # v => Watch!Word(w)' = Watch!Word(w)
      BY <1>2 DEF Watch!Word, Watch!Told, WatchTyped
    <3> QED
      BY <1>2, <2>1, <3>1, <3>2 DEF CountComes
  <2> QED
    BY <2>3, <2>4, <2>5
<1> QED
  BY <1>4, <1>5

LEMMA ForgetKeepsWatch ==
  ASSUME NEW g, ServesAll(g), WatchInv(g), NEW s \in sockets, Watch!Forget(s)
  PROVE  WatchInv(g)'
<1> USE DEF WatchInv
<1>1. Reaches[s[1]] = g
  BY DEF ServesAll, WatchTyped
<1>2. timer' \in [Gateways -> Nat] /\ timer'[g] # 0
  BY <1>1, ScheduleMakesDue DEF Watch!Forget
<1>3. sockets' = sockets \ {s} /\ UNCHANGED <<on, connected, epoch, counting, wire, pill>>
  BY DEF Watch!Forget
<1>4. IsFiniteSet(sockets')
  BY <1>3, FS_RemoveElement, FS_Subset DEF WatchTyped
<1>5. WatchTyped'
  BY <1>2, <1>3, <1>4 DEF WatchTyped
<1>6. RoomOfPages'
  BY <1>3 DEF RoomOfPages, Watch!Socket, Watch!Forget, Watch!Gone
<1> QED
  BY <1>2, <1>5, <1>6 DEF CountComes

\* Whoever loses its connection receives nothing.
LEMMA DisconnectKeepsWatch ==
  ASSUME NEW g, ServesAll(g), WatchInv(g), NEW v \in Watch!Viewers, Watch!Disconnect(v)
  PROVE  WatchInv(g)'
<1> USE DEF WatchInv
<1>1. /\ connected' = [connected EXCEPT ![v] = FALSE]
      /\ wire' = [wire EXCEPT ![v] = <<>>]
      /\ UNCHANGED <<on, epoch, sockets, timer, counting, pill>>
  BY DEF Watch!Disconnect
<1>2. WatchTyped'
  BY <1>1 DEF WatchTyped
<1>3. RoomOfPages'
  BY <1>1 DEF RoomOfPages, Watch!Socket, WatchTyped
<1>4. \A w \in Watch!Viewers : Watch!Receives(w)' => Watch!Receives(w) /\ w # v
  BY <1>1 DEF Watch!Receives, Watch!Socket, WatchTyped
<1>5. \A w \in Watch!Viewers : w # v => Watch!Word(w)' = Watch!Word(w)
  BY <1>1 DEF Watch!Word, Watch!Told, WatchTyped
<1> QED
  BY <1>1, <1>2, <1>3, <1>4, <1>5 DEF CountComes

\* The last element stays while others go.
LEMMA LastOfTail ==
  ASSUME NEW S, NEW q \in Seq(S), q # <<>>
  PROVE  /\ Head(q) \in S /\ Tail(q) \in Seq(S)
         /\ Tail(q) = <<>> => q[Len(q)] = Head(q)
         /\ Tail(q) # <<>> => Tail(q)[Len(Tail(q))] = q[Len(q)]
<1>1. Len(q) \in Nat /\ Len(q) # 0 /\ Head(q) = q[1] /\ Head(q) \in S
  BY EmptySeq, HeadTailProperties
<1>2. Tail(q) \in Seq(S) /\ Len(Tail(q)) = Len(q) - 1
  BY HeadTailProperties
<1>3. \A i \in 1 .. Len(q) - 1 : Tail(q)[i] = q[i + 1]
  BY HeadTailProperties
<1>4. Tail(q) = <<>> => Len(q) = 1
  BY <1>1, <1>2, EmptySeq
<1>5. Tail(q) # <<>> => Len(q) - 1 \in 1 .. Len(q) - 1
  BY <1>1, <1>2, EmptySeq
<1> QED
  BY <1>1, <1>2, <1>3, <1>4, <1>5

\* A number is shown: the last one on its way stays the last.
LEMMA ShowKeepsWatch ==
  ASSUME NEW g, ServesAll(g), WatchInv(g), NEW v \in Watch!Viewers, Watch!Show(v)
  PROVE  WatchInv(g)'
<1> USE DEF WatchInv
<1>1. /\ wire[v] # <<>>
      /\ wire' = [wire EXCEPT ![v] = Tail(wire[v])]
      /\ pill' = [pill EXCEPT ![v] = Head(wire[v])]
      /\ UNCHANGED <<on, connected, epoch, sockets, timer, counting>>
  BY DEF Watch!Show
<1>2. /\ wire[v] \in Seq(Nat) /\ Head(wire[v]) \in Nat /\ Tail(wire[v]) \in Seq(Nat)
      /\ Tail(wire[v]) = <<>> => wire[v][Len(wire[v])] = Head(wire[v])
      /\ Tail(wire[v]) # <<>> => Tail(wire[v])[Len(Tail(wire[v]))] = wire[v][Len(wire[v])]
  BY <1>1, LastOfTail DEF WatchTyped
<1>3. WatchTyped'
  BY <1>1, <1>2 DEF WatchTyped
<1>4. RoomOfPages'
  BY <1>1 DEF RoomOfPages, Watch!Socket
<1>5. \A w \in Watch!Viewers : Watch!Word(w)' = Watch!Word(w)
  <2>1. ASSUME NEW w \in Watch!Viewers PROVE Watch!Told(w)' = Watch!Told(w)
    BY <1>1, <1>2 DEF Watch!Told, Watch!Last, WatchTyped
  <2> QED
    BY <1>1, <2>1 DEF Watch!Word
<1>6. \A w \in Watch!Viewers : Watch!Receives(w)' = Watch!Receives(w)
  BY <1>1 DEF Watch!Receives, Watch!Socket
<1> QED
  BY <1>1, <1>3, <1>4, <1>5, <1>6 DEF CountComes

\* A timer that fires asks for a count that nobody has answered yet.
LEMMA FireKeepsWatch ==
  ASSUME NEW g, ServesAll(g), WatchInv(g), Watch!Fire(g)
  PROVE  WatchInv(g)'
<1> USE DEF WatchInv
<1> DEFINE asked == [h \in Gateways |-> -1]
<1>1. /\ timer' = [timer EXCEPT ![g] = 0]
      /\ counting' = [counting EXCEPT ![g] = Append(counting[g], asked)]
      /\ UNCHANGED <<on, connected, epoch, sockets, wire, pill>>
  BY DEF Watch!Fire, Watch!Nobody
<1>2. counting[g] \in Seq(Answers) /\ g \in Gateways /\ asked \in Answers /\ asked[g] = -1
  BY DEF WatchTyped, ServesAll, Answers
<1> HIDE DEF asked
<1>3. /\ counting'[g] = Append(counting[g], asked)
      /\ counting'[g] \in Seq(Answers)
      /\ counting'[g] # <<>>
      /\ counting'[g][Len(counting'[g])][g] = -1
  <2>1. counting'[g] = Append(counting[g], asked)
    BY <1>1, <1>2 DEF WatchTyped
  <2> QED
    BY <1>2, <2>1, AppendProperties, EmptySeq
<1>4. WatchTyped'
  BY <1>1, <1>3 DEF WatchTyped
<1>5. RoomOfPages'
  BY <1>1 DEF RoomOfPages, Watch!Socket
<1> QED
  BY <1>3, <1>4, <1>5 DEF CountComes

\* The latest count, when it is answered, counts the room as it is.
LEMMA CountKeepsWatch ==
  ASSUME NEW g, ServesAll(g), WatchInv(g), Watch!Count(g, g)
  PROVE  WatchInv(g)'
<1> USE DEF WatchInv
<1>1. PICK i \in DOMAIN counting[g] :
        /\ counting' = [counting EXCEPT ![g][i][g] = Cardinality(sockets)]
        /\ UNCHANGED <<on, connected, epoch, sockets, timer, wire, pill>>
  BY LocalIsAll DEF Watch!Count
<1> DEFINE counts == counting[g]
           answer == [counts[i] EXCEPT ![g] = Cardinality(sockets)]
<1>2. /\ counts \in Seq(Answers) /\ g \in Gateways /\ Gateways = {g}
      /\ i \in 1 .. Len(counts) /\ Len(counts) \in Nat
      /\ counts[i] \in Answers
  BY <1>1, LenProperties, ElementOfSeq DEF WatchTyped, ServesAll
<1>3. answer \in Answers /\ answer[g] = Cardinality(sockets)
  BY <1>2, LocalIsAll DEF Answers
<1>4. counting'[g] = [counts EXCEPT ![i] = answer]
  BY <1>1, <1>2 DEF WatchTyped
<1> HIDE DEF answer, counts
<1>5. /\ counting'[g] \in Seq(Answers) /\ Len(counting'[g]) = Len(counts)
      /\ counting'[g][i] = answer
      /\ \A j \in 1 .. Len(counts) : j # i => counting'[g][j] = counts[j]
  BY <1>2, <1>3, <1>4, ExceptSeq
<1>6. WatchTyped'
  BY <1>1, <1>5 DEF WatchTyped
<1>7. RoomOfPages'
  BY <1>1 DEF RoomOfPages, Watch!Socket
<1>8. CountComes(g)'
  <2> SUFFICES ASSUME NEW v \in Watch!Viewers, Watch!Receives(v)', timer'[g] = 0
               PROVE  \/ counting'[g] # <<>> /\ counting'[g][Len(counting'[g])][g] = -1
                      \/ Watch!Word(v)' = Cardinality(sockets)'
    BY DEF CountComes
  <2>1. Watch!Receives(v) /\ timer[g] = 0 /\ sockets' = sockets
    BY <1>1 DEF Watch!Receives, Watch!Socket
  <2>2. counting'[g] # <<>> /\ counts # <<>>
    BY <1>2, <1>5, EmptySeq
  <2>3. Watch!Word(v)' = Watch!Sum(counting'[g][Len(counting'[g])])
    <3>1. (counting[g] # <<>> => Watch!Word(v) = Watch!Sum(counting[g][Len(counting[g])]))'
      BY <1>6, WordIs DEF ServesAll, Watch!Viewers, Watch!Word, Watch!Told, Watch!Last
    <3> QED
      BY <2>2, <3>1
  <2>4. CASE i = Len(counts)
    <3>1. counting'[g][Len(counting'[g])] = answer
      BY <1>5, <2>4
    <3>2. Watch!Sum(answer) = Cardinality(sockets)
      <4>1. answer \in [{g} -> Int]
        BY <1>2, <1>3 DEF Answers
      <4> QED
        BY <1>3, <4>1, SumOfOne
    <3> QED
      BY <2>1, <2>3, <3>1, <3>2
  <2>5. CASE i # Len(counts)
    <3>1. counting'[g][Len(counting'[g])] = counts[Len(counts)]
      BY <1>2, <1>5, <2>5
    <3>2. Watch!Word(v) = Watch!Sum(counts[Len(counts)])
      BY <2>2, WordIs DEF counts
    <3>3. counts[Len(counts)][g] = -1 \/ Watch!Word(v) = Cardinality(sockets)
      BY <2>1 DEF CountComes, counts
    <3> QED
      BY <2>1, <2>2, <2>3, <3>1, <3>2, <3>3
  <2> QED
    BY <2>4, <2>5
<1> QED
  BY <1>6, <1>7, <1>8

\* What is emitted to a viewer in the room is the oldest count: what it will show in the end
\* is the same number as before.
LEMMA EmitKeepsWatch ==
  ASSUME NEW g, ServesAll(g), WatchInv(g), Watch!Emit(g)
  PROVE  WatchInv(g)'
<1> USE DEF WatchInv
<1> DEFINE counts == counting[g]
           n      == Watch!Sum(Head(counts))
<1>1. /\ counts # <<>> /\ Head(counts)[g] # -1
      /\ counting' = [counting EXCEPT ![g] = Tail(counts)]
      /\ wire' = [v \in Watch!Viewers |-> IF Watch!Receives(v) THEN Append(wire[v], n) ELSE wire[v]]
      /\ UNCHANGED <<on, connected, epoch, sockets, timer, pill>>
  BY DEF Watch!Emit, Watch!Nobody, ServesAll
<1>2. counts \in Seq(Answers) /\ g \in Gateways /\ Gateways = {g}
  BY DEF WatchTyped, ServesAll
<1>3. /\ Head(counts) \in Answers /\ Tail(counts) \in Seq(Answers)
      /\ Tail(counts) = <<>> => counts[Len(counts)] = Head(counts)
      /\ Tail(counts) # <<>> => Tail(counts)[Len(Tail(counts))] = counts[Len(counts)]
  BY <1>1, <1>2, LastOfTail
<1>4. n \in Nat
  <2>1. Head(counts) \in [{g} -> Int] /\ Head(counts)[g] \in Nat
    BY <1>1, <1>2, <1>3 DEF Answers
  <2> QED
    BY <2>1, SumOfOne
<1>5. counting'[g] = Tail(counts)
  BY <1>1, <1>2 DEF WatchTyped
<1> HIDE DEF n, counts
<1>6. ASSUME NEW v \in Watch!Viewers
      PROVE  /\ wire'[v] \in Seq(Nat)
             /\ Watch!Receives(v) => wire'[v] # <<>> /\ wire'[v][Len(wire'[v])] = n
  <2>1. wire[v] \in Seq(Nat)
    BY DEF WatchTyped
  <2>2. Append(wire[v], n) \in Seq(Nat) /\ Append(wire[v], n) # <<>>
        /\ Append(wire[v], n)[Len(Append(wire[v], n))] = n
    BY <1>4, <2>1, AppendProperties
  <2> QED
    BY <1>1, <2>1, <2>2
<1>7. WatchTyped'
  <2>1. counting' \in [Gateways -> Seq(Answers)]
    BY <1>1, <1>3 DEF WatchTyped
  <2>2. wire' \in [Watch!Viewers -> Seq(Nat)]
    BY <1>1, <1>6
  <2> QED
    BY <1>1, <2>1, <2>2 DEF WatchTyped
<1>8. RoomOfPages'
  BY <1>1 DEF RoomOfPages, Watch!Socket
<1>9. CountComes(g)'
  <2> SUFFICES ASSUME NEW v \in Watch!Viewers, Watch!Receives(v)', timer'[g] = 0
               PROVE  \/ counting'[g] # <<>> /\ counting'[g][Len(counting'[g])][g] = -1
                      \/ Watch!Word(v)' = Cardinality(sockets)'
    BY DEF CountComes
  <2>1. Watch!Receives(v) /\ timer[g] = 0 /\ sockets' = sockets /\ Reaches[v] = g
    BY <1>1 DEF Watch!Receives, Watch!Socket, ServesAll
  <2>2. Watch!Word(v) = Watch!Sum(counts[Len(counts)])
    BY <1>1, WordIs DEF counts
  <2>3. counts[Len(counts)][g] = -1 \/ Watch!Word(v) = Cardinality(sockets)
    BY <2>1 DEF CountComes, counts
  <2>4. CASE Tail(counts) = <<>>
    <3>1. Watch!Word(v)' = n
      BY <1>5, <1>6, <2>1, <2>4 DEF Watch!Word, Watch!Told, Watch!Last
    <3>2. n = Watch!Word(v) /\ counts[Len(counts)][g] # -1
      BY <1>1, <1>3, <2>2, <2>4 DEF n
    <3> QED
      BY <2>1, <2>3, <3>1, <3>2
  <2>5. CASE Tail(counts) # <<>>
    <3>1. Watch!Word(v)' = Watch!Sum(Tail(counts)[Len(Tail(counts))])
      BY <1>5, <2>1, <2>5 DEF Watch!Word, Watch!Last
    <3> QED
      BY <1>3, <1>5, <2>1, <2>2, <2>3, <2>5, <3>1
  <2> QED
    BY <2>4, <2>5
<1> QED
  BY <1>7, <1>8, <1>9

\* Time passes: a timer that runs goes on running.
LEMMA PassKeepsWatch ==
  ASSUME NEW g, ServesAll(g), WatchInv(g), Watch!Pass
  PROVE  WatchInv(g)'
<1> USE DEF WatchInv
<1>1. /\ timer' = [h \in Gateways |-> IF timer[h] > 1 THEN timer[h] - 1 ELSE timer[h]]
      /\ UNCHANGED <<on, connected, epoch, sockets, counting, wire, pill>>
  BY DEF Watch!Pass
<1>2. timer' \in [Gateways -> Nat] /\ (timer[g] # 0 => timer'[g] # 0)
  BY <1>1 DEF WatchTyped, ServesAll
<1>3. WatchTyped'
  BY <1>1, <1>2 DEF WatchTyped
<1>4. RoomOfPages'
  BY <1>1 DEF RoomOfPages, Watch!Socket
<1>5. \A v \in Watch!Viewers : Watch!Word(v)' = Watch!Word(v) /\ Watch!Receives(v)' = Watch!Receives(v)
  BY <1>1 DEF Watch!Word, Watch!Told, Watch!Receives, Watch!Socket
<1> QED
  BY <1>1, <1>2, <1>3, <1>4, <1>5 DEF CountComes

\* A lone gateway asks nobody else, so that its counts do not fail.
LEMMA WatchNext ==
  ASSUME NEW g, ServesAll(g), WatchInv(g), [Watch!Next]_(Watch!vars)
  PROVE  WatchInv(g)'
<1>1. CASE Watch!Next
  <2>1. ~Watch!CountFails(g)
    BY DEF Watch!CountFails, ServesAll
  <2>2. Gateways = {g} /\ sockets \in SUBSET (Watch!Viewers \X Nat)
    BY DEF ServesAll, WatchInv, WatchTyped
  <2> QED
    BY <1>1, <2>1, <2>2, OpenKeepsWatch, ReconnectKeepsWatch, CloseKeepsWatch, ForgetKeepsWatch,
       DisconnectKeepsWatch, ShowKeepsWatch, FireKeepsWatch, CountKeepsWatch, EmitKeepsWatch,
       PassKeepsWatch
    DEF Watch!Next, Watch!Gateway
<1>2. CASE UNCHANGED Watch!vars
  <2>1. UNCHANGED <<on, connected, epoch, sockets, timer, counting, wire, pill>>
    BY <1>2 DEF Watch!vars
  <2>2. WatchTyped'
    BY <2>1 DEF WatchInv, WatchTyped
  <2>3. RoomOfPages'
    BY <2>1 DEF WatchInv, RoomOfPages, Watch!Socket
  <2>4. \A v \in Watch!Viewers : Watch!Word(v)' = Watch!Word(v) /\ Watch!Receives(v)' = Watch!Receives(v)
    BY <2>1 DEF Watch!Word, Watch!Told, Watch!Receives, Watch!Socket
  <2> QED
    BY <2>1, <2>2, <2>3, <2>4 DEF WatchInv, CountComes
<1> QED
  BY <1>1, <1>2

\* When everybody is connected and no socket is gone, the sockets are as many as the open pages.
LEMMA AsManySockets ==
  ASSUME NEW g, ServesAll(g), WatchInv(g), \A w \in on : connected[w],
         \A s \in sockets : ~Watch!Gone(s)
  PROVE  Cardinality(sockets) = Cardinality(on)
<1> DEFINE socket == [w \in on |-> Watch!Socket(w)]
<1>1. IsFiniteSet(on) /\ on \subseteq Watch!Viewers
  BY DEF WatchInv, WatchTyped
<1>2. \A w \in on : socket[w] \in sockets
  BY <1>1 DEF WatchInv, RoomOfPages
<1>3. ASSUME NEW s \in sockets
      PROVE  \E w \in on : socket[w] = s
  <2>1. s[1] \in Watch!Viewers /\ s = Watch!Socket(s[1]) /\ connected[s[1]]
    BY <1>3 DEF WatchInv, WatchTyped, Watch!Gone
  <2> QED
    BY <1>3, <2>1 DEF WatchInv, RoomOfPages
<1>4. \A w, u \in on : socket[w] = socket[u] => w = u
  BY DEF Watch!Socket
<1>5. socket \in Bijection(on, sockets)
  BY <1>2, <1>3, <1>4 DEF Bijection, Injection, Surjection, IsInjective
<1> QED
  BY <1>1, <1>5, FS_Bijection DEF ExistsBijection

\* With one gateway, whatever viewers, bursts of joins and leaves, lost connections and delays:
\* a page shows how many are open, or has word of it to come.
THEOREM WatchersCounted ==
  ASSUME NEW g, ServesAll(g)
  PROVE  Watch!Spec => []Watch!RightOrDue
<1>1. Watch!Init => WatchInv(g)
  <2> SUFFICES ASSUME Watch!Init PROVE WatchInv(g)
    OBVIOUS
  <2>1. /\ on = {} /\ sockets = {} /\ connected = [v \in Watch!Viewers |-> TRUE]
        /\ epoch = [v \in Watch!Viewers |-> 0]
        /\ timer = [h \in Gateways |-> 0] /\ counting = [h \in Gateways |-> <<>>]
        /\ wire = [v \in Watch!Viewers |-> <<>>] /\ pill = [v \in Watch!Viewers |-> -1]
    BY DEF Watch!Init, Watch!Nobody
  <2>2. WatchTyped
    BY <2>1, FS_EmptySet, EmptySeq DEF WatchTyped
  <2> QED
    BY <2>1, <2>2 DEF WatchInv, RoomOfPages, CountComes, Watch!Receives
<1>2. WatchInv(g) /\ [Watch!Next]_(Watch!vars) => WatchInv(g)'
  BY WatchNext
<1>3. WatchInv(g) => Watch!RightOrDue
  <2> SUFFICES ASSUME WatchInv(g) PROVE Watch!RightOrDue
    OBVIOUS
  <2> SUFFICES ASSUME NEW v \in on, \A w \in on : connected[w],
                      \A s \in sockets : ~Watch!Gone(s), timer[g] = 0,
                      \A i \in DOMAIN counting[g] : counting[g][i][g] # -1
               PROVE  Watch!Word(v) = Cardinality(on)
    <3>1. ASSUME NEW v \in on PROVE Reaches[v] = g
      BY <3>1 DEF ServesAll, WatchInv, WatchTyped
    <3>2. ASSUME NEW i \in DOMAIN counting[g], counting[g][i][g] = -1
          PROVE  -1 \in Watch!Range(counting[g][i])
      <4>1. g \in Gateways /\ counting[g] \in Seq(Answers)
        BY DEF ServesAll, WatchInv, WatchTyped
      <4>2. counting[g][i] \in Answers
        BY <3>2, <4>1, LenProperties, ElementOfSeq
      <4> QED
        BY <3>2, <4>1, <4>2 DEF Answers, Watch!Range
    <3> QED
      <4>1. Watch!Cardinality(on) = Cardinality(on)
        BY DEF Watch!Cardinality, Cardinality
      <4>2. SUFFICES ASSUME NEW v \in on, \A w \in on : connected[w],
                            \A s \in sockets : ~Watch!Gone(s), timer[Reaches[v]] = 0,
                            \A i \in DOMAIN counting[Reaches[v]] :
                              Watch!Nobody \notin Watch!Range(counting[Reaches[v]][i])
                     PROVE  Watch!Word(v) = Watch!Cardinality(on)
        BY DEF Watch!RightOrDue
      <4> QED
        BY <3>1, <3>2, <4>1, <4>2 DEF Watch!Nobody
  <2>1. v \in Watch!Viewers /\ counting[g] \in Seq(Answers)
    BY DEF WatchInv, WatchTyped, ServesAll
  <2>2. Watch!Receives(v)
    BY <2>1 DEF WatchInv, RoomOfPages, Watch!Receives
  <2>3. counting[g] # <<>> => Len(counting[g]) \in DOMAIN counting[g]
    BY <2>1, LenProperties, EmptySeq
  <2> QED
    BY <2>1, <2>2, <2>3, AsManySockets DEF WatchInv, CountComes
<1> QED
  BY <1>1, <1>2, <1>3, PTL DEF Watch!Spec
=============================================================================
