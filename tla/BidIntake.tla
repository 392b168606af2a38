----------------------------- MODULE BidIntake -----------------------------
(***************************************************************************)
(* The Redis Stream in front of placeBid: the handler of POST .../stream,  *)
(* BidSequencer.enqueue and the consumer loops of BidSequencer.            *)
(*                                                                         *)
(* Every server process serves requests and runs one consumer; all the     *)
(* consumers belong to one group, which hands each entry to one of them.   *)
(* A process may die and be started again, Redis keeps its state.          *)
(*                                                                         *)
(* A stream entry is its arrival number in the stream of its auction.      *)
(* Whether placeBid accepts a bid is the matter of AuctionHouse; here it   *)
(* is tried, and acknowledged whatever the outcome.                        *)
(***************************************************************************)
EXTENDS FiniteSetsExt, SequencesExt

CONSTANTS
  Servers,        \* server processes, each with a consumer of the group
  NoServer,
  Users,          \* bidders, each with one request at a time
  Auctions,
  NoAuction,
  Backpressure,   \* BACKPRESSURE_THRESHOLD
  StreamLength,   \* STREAM_TTL_ENTRIES, from which on XADD trims
  ReadCount,      \* COUNT: entries read from one stream at a time
  MaxCrashes,     \* bound: crashes of server processes
  MaxRedisErrors  \* bound: Redis commands that fail

ASSUME NoneAssumption == NoAuction \notin Auctions /\ NoServer \notin Servers
ASSUME LimitsAssumption == {Backpressure, StreamLength, ReadCount} \subseteq Nat \ {0}
ASSUME FiniteAssumption == IsFiniteSet(Users) /\ IsFiniteSet(Auctions)
ASSUME FaultsAssumption == MaxCrashes \in Nat /\ MaxRedisErrors \in Nat

VARIABLES
  open,        \* auctions that are ACTIVE and not past their end
  request,     \* where the request of each user stands
  arrived,     \* how many entries XADD has appended to each stream
  stream,      \* the entries still in each stream
  group,       \* streams whose consumer group exists
  delivered,   \* last-delivered-id of the group
  pending,     \* pending entries list of the group: delivered, not acknowledged
  consumer,    \* where the consumer loop of each server stands
  tried,       \* the entries handed to placeBid and who did it, in that order
  up,          \* servers that run
  crashes,
  redisErrors

redisVars == <<arrived, stream, group, delivered, pending>>
vars == <<open, request, redisVars, consumer, tried, up, crashes, redisErrors>>

NoRequest == [step |-> "none", auction |-> NoAuction, server |-> NoServer]
Resting   == [step |-> "rest", keys |-> {}, batch |-> <<>>]
\* No consumer loop runs.
Off       == [Resting EXCEPT !.step = "off"]

-----------------------------------------------------------------------------
(* placeBidStream and enqueue                                              *)

\* The checks before enqueueing read the auction without a lock.
Validate(s, u, a) ==
  /\ s \in up
  /\ request[u].step = "none"
  /\ a \in open
  /\ request' = [request EXCEPT ![u] = [step |-> "checked", auction |-> a, server |-> s]]
  /\ UNCHANGED <<open, redisVars, consumer, tried, up, crashes, redisErrors>>

\* Mutation: no backpressure.
SaturatedNever(a) == FALSE

\* XLEN counts what is in the stream, acknowledged or not.
Saturated(a) == Cardinality(stream[a]) >= Backpressure

\* The length is read, and the request refused with 503 if it is too large.
\* An error of XLEN counts as length 0.
Measure(u) ==
  /\ request[u].step = "checked"
  /\ \/ /\ Saturated(request[u].auction)
        /\ request' = [request EXCEPT ![u] = NoRequest]
        /\ UNCHANGED redisErrors
     \/ /\ ~Saturated(request[u].auction)
        /\ request' = [request EXCEPT ![u].step = "measured"]
        /\ UNCHANGED redisErrors
     \/ /\ redisErrors < MaxRedisErrors
        /\ redisErrors' = redisErrors + 1
        /\ request' = [request EXCEPT ![u].step = "measured"]
  /\ UNCHANGED <<open, redisVars, consumer, tried, up, crashes>>

\* What may be left of a stream: MAXLEN ~ removes oldest entries beyond the
\* limit, when it is convenient.
Trimmed(entries) ==
  LET last == Max(entries)
  IN  {{i \in entries : i >= first} :
         first \in {f \in entries : f = Min(entries) \/ f <= last - StreamLength + 1}}

Add(u) ==
  LET a == request[u].auction
      i == arrived[a] + 1
  IN  /\ request[u].step = "measured"
      /\ arrived' = [arrived EXCEPT ![a] = i]
      /\ \E kept \in Trimmed(stream[a] \cup {i}) : stream' = [stream EXCEPT ![a] = kept]
      /\ request' = [request EXCEPT ![u].step = "added"]
      /\ UNCHANGED <<open, group, delivered, pending, consumer, tried, up, crashes, redisErrors>>

\* Mutation: XGROUP CREATE ... $.
GroupStartAtEnd(a) == arrived[a]

\* XGROUP CREATE ... 0: the entry that a new group starts after.
GroupStart(a) == 0

\* XGROUP CREATE, which changes nothing when the group exists; then 202.
EnsureGroup(u) ==
  /\ request[u].step = "added"
  /\ group'   = group \cup {request[u].auction}
  /\ delivered' = [a \in Auctions |-> IF a = request[u].auction /\ a \notin group
                                      THEN GroupStart(a) ELSE delivered[a]]
  /\ request' = [request EXCEPT ![u] = NoRequest]
  /\ UNCHANGED <<open, arrived, stream, pending, consumer, tried, up,
                 crashes, redisErrors>>

-----------------------------------------------------------------------------
(* The consumer loop                                                       *)

\* getActiveStreamKeys
ActiveStreams == {a \in Auctions : stream[a] # {}}

\* The loop sleeps when there is none.
Scan(s) ==
  /\ consumer[s].step = "rest"
  /\ ActiveStreams # {}
  /\ consumer' = [consumer EXCEPT ![s] = [Resting EXCEPT !.step = "scanned", !.keys = ActiveStreams]]
  /\ UNCHANGED <<open, request, redisVars, tried, up, crashes, redisErrors>>

\* Mutation: the group starts over with every read.
UnreadFromStart(a) == {i \in stream[a] : Cardinality({j \in stream[a] : j <= i}) <= ReadCount}

\* What '>' delivers of the stream of a.
Unread(a) ==
  LET new == {i \in stream[a] : i > delivered[a]}
  IN  {i \in new : Cardinality({j \in new : j <= i}) <= ReadCount}

\* What XREADGROUP delivers of all keys at once ...
Delivery(s) == UNION {{a} \X Unread(a) : a \in consumer[s].keys}

\* ... stream by stream, the entries of each in the order of their arrival.
StreamByStream(batch) ==
  \A j, k \in DOMAIN batch : j < k /\ batch[j][1] = batch[k][1] =>
    /\ batch[j][2] < batch[k][2]
    /\ \A m \in j..k : batch[m][1] = batch[j][1]

\* The loop over what is left of a batch.
Holding(batch) ==
  IF batch = <<>> THEN Resting ELSE [Resting EXCEPT !.step = "try", !.batch = batch]

Read(s) ==
  /\ consumer[s].step = "scanned"
  /\ consumer[s].keys \subseteq group
  /\ \E batch \in SetToSeqs(Delivery(s)) :
       /\ StreamByStream(batch)
       /\ consumer' = [consumer EXCEPT ![s] = Holding(batch)]
  /\ delivered' = [a \in Auctions |-> IF a \in consumer[s].keys
                                      THEN Max(Unread(a) \cup {delivered[a]})
                                      ELSE delivered[a]]
  /\ pending'   = [a \in Auctions |-> IF a \in consumer[s].keys
                                      THEN pending[a] \cup Unread(a) ELSE pending[a]]
  /\ UNCHANGED <<open, request, arrived, stream, group, tried, up, crashes, redisErrors>>

\* NOGROUP: one stream without a group fails the read of all of them.
ReadFails(s) ==
  /\ consumer[s].step = "scanned"
  /\ ~(consumer[s].keys \subseteq group)
  /\ consumer' = [consumer EXCEPT ![s] = Resting]
  /\ UNCHANGED <<open, request, redisVars, tried, up, crashes, redisErrors>>

\* processEntry: placeBid, whatever comes of it.
Try(s) ==
  LET entry == Head(consumer[s].batch)
  IN  /\ consumer[s].step = "try"
      /\ tried'    = [tried EXCEPT ![entry[1]] = Append(@, [by |-> s, bid |-> entry[2]])]
      /\ consumer' = [consumer EXCEPT ![s].step = "ack"]
      /\ UNCHANGED <<open, request, redisVars, up, crashes, redisErrors>>

\* Mutation: the whole rest of the batch is acknowledged with its first entry.
AckedBatch(s) == 1..Len(consumer[s].batch)

\* Positions in the batch that are acknowledged.
Acked(s) == {1}

Ack(s) ==
  /\ consumer[s].step = "ack"
  /\ pending'  = [a \in Auctions |-> pending[a] \ {consumer[s].batch[i][2] :
                    i \in {j \in Acked(s) : consumer[s].batch[j][1] = a}}]
  /\ consumer' = [consumer EXCEPT ![s] = Holding(Tail(consumer[s].batch))]
  /\ UNCHANGED <<open, request, arrived, stream, group, delivered, tried, up,
                 crashes, redisErrors>>

\* An error of XACK leaves the loop over the batch: its other entries are
\* pending and nobody reads them again.
AckFails(s) ==
  /\ consumer[s].step = "ack"
  /\ redisErrors < MaxRedisErrors
  /\ redisErrors' = redisErrors + 1
  /\ consumer' = [consumer EXCEPT ![s] = Resting]
  /\ UNCHANGED <<open, request, redisVars, tried, up, crashes>>

-----------------------------------------------------------------------------
(* The auction, the process                                                *)

Close(a) ==
  /\ a \in open
  /\ open' = open \ {a}
  /\ UNCHANGED <<request, redisVars, consumer, tried, up, crashes, redisErrors>>

\* Its requests and its consumer are gone.
Crash(s) ==
  /\ s \in up
  /\ crashes < MaxCrashes
  /\ up'       = up \ {s}
  /\ crashes'  = crashes + 1
  /\ request'  = [u \in Users |-> IF request[u].server = s THEN NoRequest ELSE request[u]]
  /\ consumer' = [consumer EXCEPT ![s] = Off]
  /\ UNCHANGED <<open, redisVars, tried, redisErrors>>

\* initWorkers, startConsumer
StartConsumer(s) == consumer' = [consumer EXCEPT ![s] = Resting]

\* bootstrap: when Redis does not answer in time the server runs without workers, and
\* nothing starts them later.
Bootstrap(s) ==
  /\ s \in Servers \ up
  /\ up' = up \cup {s}
  /\ \/ /\ StartConsumer(s)
        /\ UNCHANGED redisErrors
     \/ /\ redisErrors < MaxRedisErrors
        /\ redisErrors' = redisErrors + 1
        /\ UNCHANGED consumer
  /\ UNCHANGED <<open, request, redisVars, tried, crashes>>

Init ==
  /\ open        = Auctions
  /\ request     = [u \in Users |-> NoRequest]
  /\ arrived     = [a \in Auctions |-> 0]
  /\ stream      = [a \in Auctions |-> {}]
  /\ group       = {}
  /\ delivered   = [a \in Auctions |-> 0]
  /\ pending     = [a \in Auctions |-> {}]
  /\ consumer    = [s \in Servers |-> Off]
  /\ tried       = [a \in Auctions |-> <<>>]
  /\ up          = {}
  /\ crashes     = 0
  /\ redisErrors = 0

Handle(u)      == Measure(u) \/ Add(u) \/ EnsureGroup(u)
ConsumeLoop(s) == Scan(s) \/ Read(s) \/ ReadFails(s) \/ Try(s) \/ Ack(s)

Next ==
  \/ \E u \in Users : Handle(u) \/ \E s \in Servers, a \in Auctions : Validate(s, u, a)
  \/ \E s \in Servers : ConsumeLoop(s) \/ AckFails(s) \/ Crash(s) \/ Bootstrap(s)
  \/ \E a \in Auctions : Close(a)

Spec == Init /\ [][Next]_vars

\* Handlers finish, the loops go on, a server that died is started again.
FairSpec ==
  /\ Spec
  /\ \A u \in Users : WF_vars(Handle(u))
  /\ \A s \in Servers : WF_vars(ConsumeLoop(s)) /\ WF_vars(Bootstrap(s))

-----------------------------------------------------------------------------
(* Properties                                                              *)

Promise == INSTANCE InOrderOnce

\* The consumers try no bid twice, whichever of them it went to, and each tries those of
\* an auction in the order of their arrival: over crashes, restarts, failed
\* acknowledgements and any interleaving of their reads.  Between consumers there is no
\* order (TriedInArrivalOrder).
BidsInOrderOnce == Promise!Spec

\* Between measuring the stream and adding to it other requests may add: the
\* threshold can be passed, but by no more than one entry per concurrent request
\* (and per failed XLEN).  This is what keeps the stream below the length at
\* which XADD starts to drop entries that nobody has read.
StreamBounded ==
  \A a \in Auctions :
    Cardinality(stream[a]) <= Backpressure - 1 + Cardinality(Users) + redisErrors

WasTried(a, i) == \E k \in DOMAIN tried[a] : tried[a][k].bid = i

\* Nothing is acknowledged before it was tried: an entry that the group has
\* passed and that is not pending has had its answer.
AckedWasTried ==
  \A a \in Auctions : \A i \in 1..delivered[a] :
    i \in pending[a] \/ WasTried(a, i)

InHand(a, i) == \E s \in Servers : \E k \in DOMAIN consumer[s].batch : consumer[s].batch[k] = <<a, i>>

\* Entries that a dead consumer, or one that an error threw out of its batch,
\* has left behind.
Abandoned(a, i) == i \in pending[a] /\ ~InHand(a, i)

\* The consumers always get to the end of the backlog: again and again every bid
\* in the streams has been tried, except those a lost consumer had taken, and
\* except while some stream that a crash left without its group fails every read,
\* or no server runs whose start reached Redis.
BacklogCleared ==
  []<>(\/ up = Servers /\ \A s \in Servers : consumer[s] = Off
       \/ \E b \in Auctions : stream[b] # {} /\ b \notin group
       \/ \A a \in Auctions : \A i \in stream[a] : WasTried(a, i) \/ Abandoned(a, i))

\* "This achieves serial ordering per auction" (bid.sequencer.ts): the bids of an auction
\* are tried in the order of their arrival. Two consumers of the group overtake each other.
TriedInArrivalOrder ==
  \A a \in Auctions : \A j, k \in DOMAIN tried[a] : j < k => tried[a][j].bid < tried[a][k].bid

\* "Pending entries are re-delivered on restart" (docs/architecture/sequencer.md): every
\* entry is tried in the end. Nothing reads them again.
PendingRedelivered ==
  \A a \in Auctions : \A i \in 1..(2 * StreamLength) : i \in pending[a] ~> WasTried(a, i)
=============================================================================
