-------------------------- MODULE BidIntakeProofs --------------------------
(***************************************************************************)
(* What the bid sequencers guarantee, for any servers, bidders, auctions,  *)
(* limits, crashes and failing Redis commands: they implement InOrderOnce, *)
(* one server alone keeps the order of arrival, a stream passes its        *)
(* threshold only by the requests that measured it at once, and nothing is *)
(* acknowledged untried.                                                   *)
(***************************************************************************)
EXTENDS BidIntake, FiniteSetTheorems, SequenceTheorems, TLAPS

-----------------------------------------------------------------------------
(* Sets of arrival numbers                                                 *)

\* A bounded set of naturals that is not empty has a greatest element.
LEMMA MaxOf ==
  ASSUME NEW S \in SUBSET Nat, S # {}, NEW n \in Nat, \A i \in S : i <= n
  PROVE  Max(S) \in S /\ \A i \in S : i <= Max(S)
<1> DEFINE T == {n - i : i \in S}
<1>1. T \subseteq Nat /\ T # {}
  <2>1. \A i \in S : n - i \in Nat
    OBVIOUS
  <2> QED
    BY <2>1
<1>2. PICK x \in T : \A y \in T : ~ (<<y, x>> \in OpToRel(<, Nat))
  <2> HIDE DEF T
  <2> QED
    BY <1>1, NatLessThanWellFounded, WFMin
<1>3. PICK m \in S : x = n - m
  OBVIOUS
<1>4. ASSUME NEW i \in S PROVE m >= i
  <2>1. n - i \in T /\ n - m \in T
    OBVIOUS
  <2>2. ~ (n - i < n - m)
    BY <1>1, <1>2, <1>3, <2>1 DEF OpToRel
  <2> QED
    BY <2>2
<1>5. \E y \in S : \A i \in S : y >= i
  BY <1>4
<1>6. Max(S) \in S /\ \A i \in S : Max(S) >= i
  BY <1>5 DEF Max
<1> QED
  BY <1>6

\* MAXLEN ~ only removes, and removes nothing while the stream is short enough.
LEMMA TrimmedIs ==
  ASSUME NEW S \in SUBSET Nat, NEW kept \in Trimmed(S)
  PROVE  kept \subseteq S
BY DEF Trimmed

LEMMA TrimmedNothing ==
  ASSUME NEW n \in Nat \ {0}, n <= StreamLength, NEW kept \in Trimmed(1..n)
  PROVE  kept = 1..n
<1>1. Max(1..n) = n
  <2>1. 1..n \in SUBSET Nat /\ 1..n # {} /\ \A i \in 1..n : i <= n
    OBVIOUS
  <2>2. Max(1..n) \in 1..n /\ \A i \in 1..n : i <= Max(1..n)
    BY <2>1, MaxOf
  <2> QED
    BY <2>2
<1>2. Min(1..n) = 1
  <2>1. 1 \in 1..n /\ \A y \in 1..n : 1 =< y
    OBVIOUS
  <2>2. Min(1..n) \in 1..n /\ \A y \in 1..n : Min(1..n) =< y
    BY <2>1 DEF Min
  <2> QED
    BY <2>1, <2>2
<1>3. PICK first \in 1..n : /\ first = 1 \/ first <= n - StreamLength + 1
                            /\ kept = {i \in 1..n : i >= first}
  BY <1>1, <1>2 DEF Trimmed
<1>4. first = 1
  BY <1>3, LimitsAssumption
<1> QED
  BY <1>3, <1>4

-----------------------------------------------------------------------------
(* Type correctness                                                        *)

Steps == {"none", "checked", "measured", "added"}
Phases == {"rest", "scanned", "try", "ack", "off"}
Entries == Auctions \X Nat
Trial    == [by: Servers, bid: Nat]
Request  == [step: Steps, auction: Auctions \cup {NoAuction}, server: Servers \cup {NoServer}]
Consumer == [step: Phases, keys: SUBSET Auctions, batch: Seq(Entries)]

IntakeTypeOK ==
  /\ request \in [Users -> Request]
  /\ \A u \in Users : request[u].step # "none" => request[u].auction \in Auctions
  /\ arrived \in [Auctions -> Nat]
  /\ stream \in [Auctions -> SUBSET Nat]
  /\ \A a \in Auctions : stream[a] \subseteq 1..arrived[a]
  /\ delivered \in [Auctions -> Nat]
  /\ pending \in [Auctions -> SUBSET Nat]
  /\ consumer \in [Servers -> Consumer]
  /\ \A s \in Servers : consumer[s].step \in {"try", "ack"} <=> consumer[s].batch # <<>>
  /\ tried \in [Auctions -> Seq(Trial)]
  /\ redisErrors \in 0..MaxRedisErrors

\* The records that the code starts with.
LEMMA StartingRecords ==
  /\ NoRequest \in Request /\ NoRequest.step = "none"
  /\ Resting \in Consumer /\ Resting.step = "rest" /\ Resting.batch = <<>> /\ Resting.keys = {}
  /\ Off \in Consumer /\ Off.step = "off" /\ Off.batch = <<>>
<1>1. NoRequest \in Request /\ NoRequest.step = "none"
  BY DEF NoRequest, Request, Steps
<1>2. <<>> \in Seq(Entries)
  BY EmptySeq
<1>3. /\ Resting \in Consumer /\ Resting.step = "rest" /\ Resting.batch = <<>> /\ Resting.keys = {}
  BY <1>2 DEF Resting, Consumer, Phases
<1>4. /\ Off \in Consumer /\ Off.step = "off" /\ Off.batch = <<>>
  BY <1>2 DEF Off, Resting, Consumer, Phases
<1> QED
  BY <1>1, <1>3, <1>4

\* What is left of a batch.
LEMMA HoldingIs ==
  ASSUME NEW batch \in Seq(Entries)
  PROVE  /\ Holding(batch) \in Consumer /\ Holding(batch).batch = batch
         /\ Holding(batch).step \in {"try", "ack"} <=> Holding(batch).batch # <<>>
         /\ Holding(batch).step # "ack"
BY StartingRecords DEF Holding, Resting, Consumer, Phases

LEMMA ConsumerIs ==
  ASSUME IntakeTypeOK, NEW s \in Servers
  PROVE  /\ consumer[s].step \in Phases /\ consumer[s].keys \subseteq Auctions
         /\ consumer[s].batch \in Seq(Entries)
         /\ DOMAIN consumer[s].batch = 1..Len(consumer[s].batch) /\ Len(consumer[s].batch) \in Nat
         /\ \A k \in DOMAIN consumer[s].batch :
              consumer[s].batch[k][1] \in Auctions /\ consumer[s].batch[k][2] \in Nat
<1>1. /\ consumer[s].step \in Phases /\ consumer[s].keys \subseteq Auctions
      /\ consumer[s].batch \in Seq(Entries)
  BY DEF IntakeTypeOK, Consumer
<1>2. DOMAIN consumer[s].batch = 1..Len(consumer[s].batch) /\ Len(consumer[s].batch) \in Nat
  BY <1>1, LenProperties
<1>3. ASSUME NEW k \in DOMAIN consumer[s].batch
      PROVE  consumer[s].batch[k][1] \in Auctions /\ consumer[s].batch[k][2] \in Nat
  <2>1. consumer[s].batch[k] \in Entries
    BY <1>1, <1>2, ElementOfSeq
  <2> QED
    BY <2>1 DEF Entries
<1> QED
  BY <1>1, <1>2, <1>3

\* One consumer moves on.
LEMMA ConsumerMoves ==
  ASSUME IntakeTypeOK, NEW s \in Servers, NEW c \in Consumer,
         c.step \in {"try", "ack"} <=> c.batch # <<>>, consumer' = [consumer EXCEPT ![s] = c]
  PROVE  /\ consumer' \in [Servers -> Consumer] /\ consumer'[s] = c
         /\ \A q \in Servers : consumer'[q].step \in {"try", "ack"} <=> consumer'[q].batch # <<>>
         /\ \A q \in Servers : q # s => consumer'[q] = consumer[q]
BY DEF IntakeTypeOK

\* One request moves on.
LEMMA RequestMoves ==
  ASSUME IntakeTypeOK, NEW u \in Users, NEW r \in Request, request' = [request EXCEPT ![u] = r],
         r.step # "none" => r.auction \in Auctions
  PROVE  /\ request' \in [Users -> Request]
         /\ \A v \in Users : request'[v].step # "none" => request'[v].auction \in Auctions
BY DEF IntakeTypeOK

LEMMA StepMoves ==
  ASSUME IntakeTypeOK, NEW u \in Users, request[u].auction \in Auctions,
         NEW step \in Steps, request' = [request EXCEPT ![u].step = step]
  PROVE  /\ request' \in [Users -> Request]
         /\ \A v \in Users : request'[v].step # "none" => request'[v].auction \in Auctions
<1> DEFINE r == [request[u] EXCEPT !.step = step]
<1>1. request[u] \in Request
  BY DEF IntakeTypeOK
<1>2. r \in Request /\ r.auction \in Auctions
  BY <1>1 DEF Request
<1>3. request' = [request EXCEPT ![u] = r]
  OBVIOUS
<1> HIDE DEF r
<1> QED
  BY <1>2, <1>3, RequestMoves

\* Only unread entries of the stream are delivered.
LEMMA UnreadIs ==
  ASSUME IntakeTypeOK, NEW a \in Auctions
  PROVE  /\ Unread(a) \subseteq stream[a] /\ Unread(a) \in SUBSET Nat
         /\ IsFiniteSet(Unread(a))
         /\ \A i \in Unread(a) : delivered[a] < i /\ i <= arrived[a]
<1>1. /\ stream[a] \subseteq 1..arrived[a] /\ stream[a] \subseteq Nat
      /\ arrived[a] \in Nat /\ delivered[a] \in Nat
  BY DEF IntakeTypeOK
<1>2. Unread(a) \subseteq {i \in stream[a] : i > delivered[a]}
  BY DEF Unread
<1>3. IsFiniteSet(Unread(a))
  <2>1. IsFiniteSet(1..arrived[a])
    BY <1>1, FS_Interval
  <2>2. Unread(a) \in SUBSET (1..arrived[a])
    BY <1>1, <1>2, Zenon
  <2> QED
    BY <2>1, <2>2, FS_Subset
<1> QED
  BY <1>1, <1>2, <1>3

\* What a read delivers is a finite set of entries of the streams it asks for.
LEMMA DeliveryIs ==
  ASSUME IntakeTypeOK, NEW s \in Servers
  PROVE  /\ Delivery(s) \subseteq Entries /\ IsFiniteSet(Delivery(s))
         /\ \A e \in Delivery(s) : e[1] \in consumer[s].keys /\ e[2] \in Unread(e[1])
<1>1. consumer[s].keys \subseteq Auctions
  BY ConsumerIs
<1>2. \A a \in consumer[s].keys : IsFiniteSet({a} \X Unread(a)) /\ {a} \X Unread(a) \subseteq Entries
  <2>1. ASSUME NEW a \in consumer[s].keys PROVE IsFiniteSet({a} \X Unread(a))
    <3>1. IsFiniteSet({a}) /\ IsFiniteSet(Unread(a))
      BY <1>1, UnreadIs, FS_Singleton
    <3> QED
      BY <3>1, FS_Product
  <2>2. ASSUME NEW a \in consumer[s].keys PROVE {a} \X Unread(a) \subseteq Entries
    BY <1>1, UnreadIs DEF Entries
  <2> QED
    BY <2>1, <2>2
<1>3. IsFiniteSet({{a} \X Unread(a) : a \in consumer[s].keys})
  <2> DEFINE T == {{a} \X Unread(a) : a \in consumer[s].keys}
             f == [a \in consumer[s].keys |-> {a} \X Unread(a)]
  <2>1. f \in Surjection(consumer[s].keys, T)
    BY DEF Surjection
  <2>2. IsFiniteSet(consumer[s].keys)
    BY <1>1, FiniteAssumption, FS_Subset
  <2> HIDE DEF f, T
  <2>3. IsFiniteSet(T)
    BY <2>1, <2>2, FS_Surjection
  <2> QED
    BY <2>3 DEF T
<1>4. IsFiniteSet(Delivery(s))
  BY <1>2, <1>3, FS_UNION DEF Delivery
<1>5. ASSUME NEW e \in Delivery(s)
      PROVE  e \in Entries /\ e[1] \in consumer[s].keys /\ e[2] \in Unread(e[1])
  <2>1. PICK a \in consumer[s].keys : e \in {a} \X Unread(a)
    BY DEF Delivery
  <2>2. e[1] = a /\ e[2] \in Unread(a)
    BY <2>1
  <2> QED
    BY <1>2, <2>1, <2>2
<1> QED
  BY <1>4, <1>5

\* The batch that a read returns.
LEMMA BatchIs ==
  ASSUME IntakeTypeOK, NEW s \in Servers, NEW batch \in SetToSeqs(Delivery(s))
  PROVE  /\ batch \in Seq(Entries) /\ DOMAIN batch = 1..Len(batch)
         /\ \A k \in DOMAIN batch : batch[k] \in Delivery(s)
         /\ \A j, k \in DOMAIN batch : j # k => batch[j] # batch[k]
<1> DEFINE n == Cardinality(Delivery(s))
<1>1. n \in Nat
  BY DeliveryIs, FS_CardinalityType
<1>2. /\ batch \in [1..n -> Delivery(s)]
      /\ \A j, k \in 1..n : j # k => batch[j] # batch[k]
  BY DEF SetToSeqs
<1>3. batch \in [1..n -> Entries]
  BY <1>2, DeliveryIs
<1>4. batch \in Seq(Entries)
  BY <1>1, <1>3, SeqDef
<1>5. DOMAIN batch = 1..Len(batch)
  BY <1>4, LenProperties
<1> QED
  BY <1>2, <1>4, <1>5

LEMMA RequestsTyped ==
  ASSUME IntakeTypeOK, NEW u \in Users,
         Handle(u) \/ \E s \in Servers, a \in Auctions : Validate(s, u, a)
  PROVE  IntakeTypeOK'
<1>1. ASSUME NEW s \in Servers, NEW a \in Auctions, Validate(s, u, a) PROVE IntakeTypeOK'
  <2> DEFINE r == [step |-> "checked", auction |-> a, server |-> s]
  <2>1. r \in Request /\ r.auction \in Auctions /\ request' = [request EXCEPT ![u] = r]
    BY <1>1 DEF Validate, Request, Steps
  <2> HIDE DEF r
  <2> QED
    BY <1>1, <2>1, RequestMoves DEF Validate, IntakeTypeOK, redisVars
<1>2. CASE Measure(u)
  <2>1. request' \in {[request EXCEPT ![u] = NoRequest], [request EXCEPT ![u].step = "measured"]}
    BY <1>2 DEF Measure
  <2>2. redisErrors' \in 0..MaxRedisErrors
    BY <1>2, FaultsAssumption DEF Measure, IntakeTypeOK
  <2>3. request[u].auction \in Auctions
    BY <1>2 DEF Measure, IntakeTypeOK
  <2>4. /\ request' \in [Users -> Request]
        /\ \A v \in Users : request'[v].step # "none" => request'[v].auction \in Auctions
    BY <2>1, <2>3, StartingRecords, RequestMoves, StepMoves DEF Steps
  <2> QED
    BY <1>2, <2>2, <2>4 DEF Measure, IntakeTypeOK, redisVars
<1>3. CASE Add(u)
  <2> DEFINE a == request[u].auction
             i == arrived[a] + 1
  <2>1. a \in Auctions /\ arrived[a] \in Nat /\ i \in Nat \ {0} /\ stream[a] \cup {i} \subseteq 1..i
    BY <1>3 DEF Add, IntakeTypeOK
  <2>2. PICK kept \in Trimmed(stream[a] \cup {i}) : stream' = [stream EXCEPT ![a] = kept]
    BY <1>3 DEF Add
  <2>3. kept \subseteq 1..i /\ kept \subseteq Nat
    BY <2>1, <2>2, TrimmedIs
  <2>4. arrived' = [arrived EXCEPT ![a] = i]
    BY <1>3 DEF Add
  <2> HIDE DEF i
  <2>5. /\ arrived' \in [Auctions -> Nat] /\ stream' \in [Auctions -> SUBSET Nat]
        /\ \A b \in Auctions : stream'[b] \subseteq 1..arrived'[b]
    BY <2>1, <2>2, <2>3, <2>4 DEF IntakeTypeOK
  <2>6. /\ request' \in [Users -> Request]
        /\ \A v \in Users : request'[v].step # "none" => request'[v].auction \in Auctions
    BY <1>3, <2>1, StepMoves DEF Add, Steps
  <2> QED
    BY <1>3, <2>5, <2>6 DEF Add, IntakeTypeOK
<1>4. CASE EnsureGroup(u)
  <2>1. delivered' \in [Auctions -> Nat]
    BY <1>4 DEF EnsureGroup, GroupStart, IntakeTypeOK
  <2> QED
    BY <1>4, <2>1, StartingRecords, RequestMoves DEF EnsureGroup, IntakeTypeOK
<1> QED
  BY <1>1, <1>2, <1>3, <1>4 DEF Handle

\* The group goes on in the stream of a, and passes what it delivers.
Passes(s, a) ==
  /\ \/ delivered[a] <= delivered'[a] /\ delivered'[a] <= arrived[a]
     \/ delivered'[a] = delivered[a]
  /\ \A i \in Unread(a) : a \in consumer[s].keys => i <= delivered'[a]
  /\ delivered'[a] = delivered[a] \/ delivered'[a] \in Unread(a)

LEMMA ReadTyped ==
  ASSUME IntakeTypeOK, NEW s \in Servers, Read(s)
  PROVE  IntakeTypeOK' /\ \A a \in Auctions : Passes(s, a)
<1> DEFINE D(a) == Unread(a) \cup {delivered[a]}
<1>1. ASSUME NEW a \in Auctions
      PROVE  /\ Max(D(a)) \in Nat /\ delivered[a] <= Max(D(a))
             /\ Max(D(a)) = delivered[a] \/ Max(D(a)) \in Unread(a)
             /\ \A i \in Unread(a) : i <= Max(D(a))
  <2>1. delivered[a] \in Nat /\ arrived[a] \in Nat
    BY DEF IntakeTypeOK
  <2>2. D(a) \in SUBSET Nat /\ D(a) # {} /\ \A i \in D(a) : i <= arrived[a] + delivered[a]
    BY <2>1, UnreadIs
  <2>3. Max(D(a)) \in D(a) /\ \A i \in D(a) : i <= Max(D(a))
    <3> HIDE DEF D
    <3>1. arrived[a] + delivered[a] \in Nat
      BY <2>1
    <3> QED
      BY <2>2, <3>1, MaxOf
  <2> QED
    BY <2>2, <2>3
<1>2. delivered' = [a \in Auctions |-> IF a \in consumer[s].keys THEN Max(D(a)) ELSE delivered[a]]
  BY DEF Read
<1> HIDE DEF D
<1>3. delivered' \in [Auctions -> Nat]
  BY <1>1, <1>2 DEF IntakeTypeOK
<1>4. pending' \in [Auctions -> SUBSET Nat]
  BY UnreadIs DEF Read, IntakeTypeOK
<1>5. /\ consumer' \in [Servers -> Consumer]
      /\ \A q \in Servers : consumer'[q].step \in {"try", "ack"} <=> consumer'[q].batch # <<>>
  <2>1. PICK batch \in SetToSeqs(Delivery(s)) : consumer' = [consumer EXCEPT ![s] = Holding(batch)]
    BY DEF Read
  <2>2. batch \in Seq(Entries)
    BY <2>1, BatchIs
  <2> QED
    BY <2>1, <2>2, HoldingIs, ConsumerMoves
<1>6. IntakeTypeOK'
  BY <1>3, <1>4, <1>5 DEF Read, IntakeTypeOK
<1>7. \A a \in Auctions : Passes(s, a)
  BY <1>1, <1>2, UnreadIs DEF IntakeTypeOK, Passes
<1> QED
  BY <1>6, <1>7

LEMMA ConsumerTyped ==
  ASSUME IntakeTypeOK, NEW s \in Servers, Scan(s) \/ ReadFails(s) \/ Try(s) \/ Ack(s) \/ AckFails(s)
  PROVE  IntakeTypeOK'
<1>1. CASE Scan(s)
  <2> DEFINE c == [Resting EXCEPT !.step = "scanned", !.keys = ActiveStreams]
  <2>1. c \in Consumer /\ (c.step \in {"try", "ack"} <=> c.batch # <<>>)
    BY StartingRecords DEF ActiveStreams, Consumer, Phases
  <2>2. consumer' = [consumer EXCEPT ![s] = c]
    BY <1>1 DEF Scan
  <2> HIDE DEF c
  <2> QED
    BY <1>1, <2>1, <2>2, ConsumerMoves DEF Scan, IntakeTypeOK, redisVars
<1>2. CASE ReadFails(s)
  BY <1>2, StartingRecords, ConsumerMoves DEF ReadFails, IntakeTypeOK, redisVars
<1>3. CASE Try(s)
  <2> DEFINE e == Head(consumer[s].batch)
             c == [consumer[s] EXCEPT !.step = "ack"]
             t == [by |-> s, bid |-> e[2]]
  <2>1. consumer[s] \in Consumer /\ consumer[s].batch \in Seq(Entries) /\ consumer[s].batch # <<>>
    BY <1>3, ConsumerIs DEF Try, IntakeTypeOK
  <2>2. e \in Entries
    BY <2>1
  <2>3. e[1] \in Auctions /\ t \in Trial
    BY <2>2 DEF Entries, Trial
  <2>4. tried' = [tried EXCEPT ![e[1]] = Append(tried[e[1]], t)]
    BY <1>3 DEF Try
  <2>5. c \in Consumer /\ (c.step \in {"try", "ack"} <=> c.batch # <<>>)
    BY <2>1 DEF Consumer, Phases
  <2>6. consumer' = [consumer EXCEPT ![s] = c]
    BY <1>3 DEF Try
  <2> HIDE DEF e, c, t
  <2>7. tried' \in [Auctions -> Seq(Trial)]
    BY <2>3, <2>4 DEF IntakeTypeOK
  <2> QED
    BY <1>3, <2>5, <2>6, <2>7, ConsumerMoves DEF Try, IntakeTypeOK, redisVars
<1>4. CASE Ack(s)
  <2>1. Tail(consumer[s].batch) \in Seq(Entries)
    <3>1. consumer[s].batch \in Seq(Entries) /\ consumer[s].batch # <<>>
      BY <1>4, ConsumerIs DEF Ack, IntakeTypeOK
    <3> QED
      BY <3>1, HeadTailProperties
  <2>2. consumer' = [consumer EXCEPT ![s] = Holding(Tail(consumer[s].batch))]
    BY <1>4 DEF Ack
  <2>3. pending' \in [Auctions -> SUBSET Nat]
    BY <1>4 DEF Ack, IntakeTypeOK
  <2> QED
    BY <1>4, <2>1, <2>2, <2>3, HoldingIs, ConsumerMoves DEF Ack, IntakeTypeOK
<1>5. CASE AckFails(s)
  BY <1>5, FaultsAssumption, StartingRecords, ConsumerMoves DEF AckFails, IntakeTypeOK, redisVars
<1> QED
  BY <1>1, <1>2, <1>3, <1>4, <1>5

LEMMA RestTyped ==
  ASSUME IntakeTypeOK,
         (\E a \in Auctions : Close(a)) \/ (\E s \in Servers : Crash(s) \/ Bootstrap(s))
  PROVE  IntakeTypeOK'
<1>1. CASE \E a \in Auctions : Close(a)
  BY <1>1 DEF Close, IntakeTypeOK, redisVars
<1>2. ASSUME NEW s \in Servers, Crash(s) PROVE IntakeTypeOK'
  <2>1. /\ request' \in [Users -> Request]
        /\ \A u \in Users : request'[u].step # "none" => request'[u].auction \in Auctions
    BY <1>2, StartingRecords DEF Crash, IntakeTypeOK
  <2> QED
    BY <1>2, <2>1, StartingRecords, ConsumerMoves DEF Crash, IntakeTypeOK, redisVars
<1>3. ASSUME NEW s \in Servers, Bootstrap(s) PROVE IntakeTypeOK'
  <2>1. CASE StartConsumer(s) /\ UNCHANGED redisErrors
    BY <1>3, <2>1, StartingRecords, ConsumerMoves DEF Bootstrap, StartConsumer, IntakeTypeOK, redisVars
  <2>2. CASE redisErrors < MaxRedisErrors /\ redisErrors' = redisErrors + 1 /\ UNCHANGED consumer
    BY <1>3, <2>2, FaultsAssumption DEF Bootstrap, IntakeTypeOK, redisVars
  <2> QED
    BY <1>3, <2>1, <2>2 DEF Bootstrap
<1> QED
  BY <1>1, <1>2, <1>3

LEMMA IntakeTyped ==
  /\ Init => IntakeTypeOK
  /\ IntakeTypeOK /\ [Next]_vars => IntakeTypeOK'
<1>1. Init => IntakeTypeOK
  BY FaultsAssumption, StartingRecords DEF Init, IntakeTypeOK
<1>2. ASSUME IntakeTypeOK, Next PROVE IntakeTypeOK'
  BY <1>2, RequestsTyped, ReadTyped, ConsumerTyped, RestTyped DEF Next, ConsumeLoop
<1>3. ASSUME IntakeTypeOK, UNCHANGED vars PROVE IntakeTypeOK'
  BY <1>3 DEF vars, redisVars, IntakeTypeOK
<1> QED
  BY <1>1, <1>2, <1>3

-----------------------------------------------------------------------------
(* The length of the streams                                               *)

\* The requests that have measured the stream of a and have not added to it yet.
Measured(a) == {u \in Users : request[u].step = "measured" /\ request[u].auction = a}

\* Each of them may still add an entry.
BoundInv ==
  \A a \in Auctions :
    Cardinality(stream[a]) + Cardinality(Measured(a))
      <= Backpressure - 1 + Cardinality(Users) + redisErrors

LEMMA Counts ==
  ASSUME IntakeTypeOK, NEW a \in Auctions
  PROVE  /\ IsFiniteSet(stream[a]) /\ Cardinality(stream[a]) \in Nat
         /\ IsFiniteSet(Measured(a)) /\ Cardinality(Measured(a)) \in Nat
         /\ Cardinality(Users) \in Nat /\ Cardinality(Measured(a)) <= Cardinality(Users)
         /\ redisErrors \in Nat /\ Backpressure \in Nat \ {0}
<1>1. IsFiniteSet(stream[a])
  <2>1. arrived[a] \in Nat /\ stream[a] \in SUBSET (1..arrived[a])
    BY DEF IntakeTypeOK
  <2>2. IsFiniteSet(1..arrived[a])
    BY <2>1, FS_Interval
  <2> QED
    BY <2>1, <2>2, FS_Subset
<1>2. Measured(a) \in SUBSET Users
  BY DEF Measured
<1>3. IsFiniteSet(Measured(a)) /\ Cardinality(Measured(a)) <= Cardinality(Users)
  BY <1>2, FiniteAssumption, FS_Subset
<1>4. redisErrors \in Nat /\ Backpressure \in Nat \ {0}
  BY LimitsAssumption, FaultsAssumption DEF IntakeTypeOK
<1> QED
  BY <1>1, <1>3, <1>4, FiniteAssumption, FS_CardinalityType

LEMMA OneMore ==
  ASSUME NEW S, NEW x, NEW T \in SUBSET (S \cup {x}), IsFiniteSet(S)
  PROVE  Cardinality(T) \in Nat /\ Cardinality(T) <= Cardinality(S) + 1
<1> DEFINE U == S \cup {x}
<1>1. IsFiniteSet(U) /\ (Cardinality(U) = Cardinality(S) \/ Cardinality(U) = Cardinality(S) + 1)
  BY FS_AddElement
<1>2. T \in SUBSET U
  OBVIOUS
<1> HIDE DEF U
<1>3. IsFiniteSet(T) /\ Cardinality(T) <= Cardinality(U)
  BY <1>1, <1>2, FS_Subset
<1>4. Cardinality(S) \in Nat /\ Cardinality(T) \in Nat /\ Cardinality(U) \in Nat
  BY <1>1, <1>3, FS_CardinalityType
<1> QED
  BY <1>1, <1>3, <1>4

\* Fewer that have measured, and no stream that has grown.
LEMMA BoundStays ==
  ASSUME IntakeTypeOK, IntakeTypeOK', BoundInv, NEW a \in Auctions, stream'[a] = stream[a],
         Measured(a)' \subseteq Measured(a), redisErrors <= redisErrors'
  PROVE  Cardinality(stream'[a]) + Cardinality(Measured(a)')
           <= Backpressure - 1 + Cardinality(Users) + redisErrors'
<1>1. Cardinality(Measured(a)') <= Cardinality(Measured(a)) /\ Cardinality(Measured(a)') \in Nat
  <2>1. Measured(a)' \in SUBSET Measured(a) /\ IsFiniteSet(Measured(a))
    BY Counts
  <2> QED
    BY <2>1, FS_Subset, FS_CardinalityType
<1>2. /\ Cardinality(stream[a]) \in Nat /\ Cardinality(Measured(a)) \in Nat
      /\ Cardinality(Users) \in Nat /\ redisErrors \in Nat /\ Backpressure \in Nat
      /\ redisErrors' \in Nat
  BY Counts, FaultsAssumption DEF IntakeTypeOK
<1>3. Cardinality(stream[a]) + Cardinality(Measured(a))
        <= Backpressure - 1 + Cardinality(Users) + redisErrors
  BY DEF BoundInv
<1> QED
  BY <1>1, <1>2, <1>3

LEMMA MeasureBound ==
  ASSUME IntakeTypeOK, IntakeTypeOK', BoundInv, NEW u \in Users, Measure(u)
  PROVE  BoundInv'
<1> SUFFICES ASSUME NEW a \in Auctions
             PROVE  Cardinality(stream'[a]) + Cardinality(Measured(a)')
                      <= Backpressure - 1 + Cardinality(Users) + redisErrors'
  BY DEF BoundInv
<1>1. stream' = stream
  BY DEF Measure, redisVars
<1>2. /\ Cardinality(stream[a]) \in Nat /\ Cardinality(Measured(a)) \in Nat
      /\ Cardinality(Users) \in Nat /\ redisErrors \in Nat /\ Backpressure \in Nat
      /\ IsFiniteSet(Measured(a))
  BY Counts
<1>3. CASE request' = [request EXCEPT ![u] = NoRequest] /\ UNCHANGED redisErrors
  <2>1. Measured(a)' \subseteq Measured(a)
    BY <1>3 DEF Measured, IntakeTypeOK, NoRequest
  <2> QED
    BY <1>1, <1>2, <1>3, <2>1, BoundStays
<1>4. CASE a # request[u].auction /\ request' = [request EXCEPT ![u].step = "measured"]
  <2>1. request'[u].auction = request[u].auction
    BY <1>4 DEF IntakeTypeOK, Request
  <2>2. Measured(a)' \subseteq Measured(a)
    BY <1>4, <2>1 DEF Measured, IntakeTypeOK
  <2>3. redisErrors <= redisErrors'
    BY <1>2 DEF Measure
  <2> QED
    BY <1>1, <2>2, <2>3, BoundStays
<1>5. CASE ~Saturated(request[u].auction) /\ a = request[u].auction /\ UNCHANGED redisErrors
  <2>1. Cardinality(stream[a]) <= Backpressure - 1
    BY <1>2, <1>5 DEF Saturated
  <2>2. Cardinality(Measured(a)') \in Nat /\ Cardinality(Measured(a)') <= Cardinality(Users)
    <3>1. Measured(a)' \in SUBSET Users
      BY DEF Measured
    <3> QED
      BY <3>1, FiniteAssumption, FS_Subset, FS_CardinalityType
  <2> QED
    BY <1>1, <1>2, <1>5, <2>1, <2>2
<1>6. CASE /\ redisErrors' = redisErrors + 1
           /\ request' = [request EXCEPT ![u].step = "measured"]
  <2>1. Measured(a)' \in SUBSET (Measured(a) \cup {u})
    BY <1>6 DEF Measured, IntakeTypeOK
  <2>3. /\ Cardinality(Measured(a)') <= Cardinality(Measured(a)) + 1
        /\ Cardinality(Measured(a)') \in Nat
    BY <1>2, <2>1, OneMore
  <2>4. Cardinality(stream[a]) + Cardinality(Measured(a))
          <= Backpressure - 1 + Cardinality(Users) + redisErrors
    BY DEF BoundInv
  <2> QED
    BY <1>1, <1>2, <1>6, <2>3, <2>4
<1> QED
  BY <1>3, <1>4, <1>5, <1>6 DEF Measure

LEMMA AddBound ==
  ASSUME IntakeTypeOK, IntakeTypeOK', BoundInv, NEW u \in Users, Add(u)
  PROVE  BoundInv'
<1> SUFFICES ASSUME NEW a \in Auctions
             PROVE  Cardinality(stream'[a]) + Cardinality(Measured(a)')
                      <= Backpressure - 1 + Cardinality(Users) + redisErrors'
  BY DEF BoundInv
<1>1. /\ Cardinality(stream[a]) \in Nat /\ Cardinality(Measured(a)) \in Nat
      /\ Cardinality(Users) \in Nat /\ redisErrors \in Nat /\ Backpressure \in Nat
      /\ IsFiniteSet(Measured(a)) /\ IsFiniteSet(stream[a])
  BY Counts
<1>2. /\ request[u].step = "measured" /\ request[u].auction \in Auctions
      /\ request' = [request EXCEPT ![u].step = "added"]
      /\ redisErrors' = redisErrors
  BY DEF Add, IntakeTypeOK
<1>3. Measured(a)' = Measured(a) \ {u}
  <2>1. request'[u].step = "added"
    BY <1>2 DEF IntakeTypeOK, Request
  <2>2. \A v \in Users : v # u => request'[v] = request[v]
    BY <1>2 DEF IntakeTypeOK
  <2> QED
    BY <2>1, <2>2 DEF Measured
<1>4. PICK kept \in Trimmed(stream[request[u].auction] \cup {arrived[request[u].auction] + 1}) :
        stream' = [stream EXCEPT ![request[u].auction] = kept]
  BY DEF Add
<1>5. CASE a # request[u].auction
  <2>1. stream'[a] = stream[a]
    BY <1>4, <1>5 DEF IntakeTypeOK
  <2>2. Measured(a)' \subseteq Measured(a)
    BY <1>3
  <2>3. redisErrors <= redisErrors'
    BY <1>1, <1>2
  <2> QED
    BY <2>1, <2>2, <2>3, BoundStays
<1>6. CASE a = request[u].auction
  <2> DEFINE i == arrived[a] + 1
  <2>1. stream[a] \cup {i} \in SUBSET Nat
    BY DEF IntakeTypeOK
  <2> HIDE DEF i
  <2>2. stream'[a] \in SUBSET (stream[a] \cup {i})
    BY <1>4, <1>6, <2>1, TrimmedIs DEF IntakeTypeOK, i
  <2>4. /\ Cardinality(stream'[a]) <= Cardinality(stream[a]) + 1
        /\ Cardinality(stream'[a]) \in Nat
    BY <1>1, <2>2, OneMore
  <2>5. u \in Measured(a)
    BY <1>2, <1>6 DEF Measured
  <2>6. Cardinality(Measured(a)') = Cardinality(Measured(a)) - 1
    BY <1>1, <1>3, <2>5, FS_RemoveElement
  <2>7. Cardinality(stream[a]) + Cardinality(Measured(a))
          <= Backpressure - 1 + Cardinality(Users) + redisErrors
    BY DEF BoundInv
  <2> QED
    BY <1>1, <1>2, <2>4, <2>6, <2>7
<1> QED
  BY <1>5, <1>6

LEMMA BoundNext == IntakeTypeOK /\ IntakeTypeOK' /\ BoundInv /\ [Next]_vars => BoundInv'
<1> SUFFICES ASSUME IntakeTypeOK, IntakeTypeOK', BoundInv, [Next]_vars
             PROVE  BoundInv'
  OBVIOUS
<1>1. ASSUME stream' = stream, \A a \in Auctions : Measured(a)' \subseteq Measured(a),
             redisErrors <= redisErrors'
      PROVE  BoundInv'
  BY <1>1, BoundStays DEF BoundInv
<1>2. redisErrors \in Nat
  BY FaultsAssumption DEF IntakeTypeOK
<1>3. ASSUME NEW u \in Users, EnsureGroup(u) \/ \E s \in Servers, a \in Auctions : Validate(s, u, a)
      PROVE  BoundInv'
  <2>1. /\ request'[u].step \in {"none", "checked"} /\ stream' = stream /\ redisErrors' = redisErrors
        /\ \A v \in Users : v # u => request'[v] = request[v]
    BY <1>3 DEF EnsureGroup, Validate, NoRequest, redisVars, IntakeTypeOK
  <2>2. \A a \in Auctions : Measured(a)' \subseteq Measured(a)
    BY <2>1 DEF Measured
  <2> QED
    BY <1>1, <1>2, <2>1, <2>2
<1>4. CASE (\E s \in Servers : ConsumeLoop(s) \/ AckFails(s) \/ Bootstrap(s)) \/ \E a \in Auctions : Close(a)
  <2>1. stream' = stream /\ request' = request /\ redisErrors <= redisErrors'
    <3>1. ASSUME NEW s \in Servers, ConsumeLoop(s)
          PROVE  stream' = stream /\ request' = request /\ redisErrors <= redisErrors'
      <4>1. UNCHANGED <<stream, request, redisErrors>>
        <5>1. CASE Scan(s) \/ ReadFails(s)
          BY <5>1 DEF Scan, ReadFails, redisVars
        <5>2. CASE Read(s)
          BY <5>2 DEF Read
        <5>3. CASE Try(s)
          BY <5>3 DEF Try, redisVars
        <5>4. CASE Ack(s)
          BY <5>4 DEF Ack
        <5> QED
          BY <3>1, <5>1, <5>2, <5>3, <5>4 DEF ConsumeLoop
      <4> QED
        BY <1>2, <4>1
    <3>2. ASSUME NEW s \in Servers, AckFails(s) \/ Bootstrap(s)
          PROVE  stream' = stream /\ request' = request /\ redisErrors <= redisErrors'
      BY <1>2, <3>2 DEF AckFails, Bootstrap, redisVars
    <3>3. CASE \E a \in Auctions : Close(a)
      BY <1>2, <3>3 DEF Close, redisVars
    <3> QED
      BY <1>4, <3>1, <3>2, <3>3
  <2>2. \A a \in Auctions : Measured(a)' \subseteq Measured(a)
    BY <2>1 DEF Measured
  <2> QED
    BY <1>1, <2>1, <2>2
<1>5. ASSUME NEW s \in Servers, Crash(s) PROVE BoundInv'
  <2>1. \A a \in Auctions : Measured(a)' \subseteq Measured(a)
    BY <1>5 DEF Crash, Measured, NoRequest
  <2>2. stream' = stream /\ redisErrors' = redisErrors
    BY <1>5 DEF Crash, redisVars
  <2> QED
    BY <1>1, <1>2, <2>1, <2>2
<1>6. CASE UNCHANGED vars
  BY <1>1, <1>2, <1>6 DEF vars, redisVars, Measured
<1> QED
  BY <1>3, <1>4, <1>5, <1>6, MeasureBound, AddBound DEF Next, Handle

LEMMA BoundInit == Init => BoundInv
<1> SUFFICES ASSUME Init, NEW a \in Auctions
             PROVE  Cardinality(stream[a]) + Cardinality(Measured(a))
                      <= Backpressure - 1 + Cardinality(Users) + redisErrors
  BY DEF BoundInv
<1>1. stream[a] = {} /\ Measured(a) = {}
  BY DEF Init, Measured, NoRequest
<1>2. Cardinality(stream[a]) = 0 /\ Cardinality(Measured(a)) = 0
  BY <1>1, FS_EmptySet
<1>3. Cardinality(Users) \in Nat /\ redisErrors \in Nat /\ Backpressure \in Nat \ {0}
  BY IntakeTyped, Counts
<1> QED
  BY <1>2, <1>3

\* A stream passes its threshold by no more than the requests under way and the failed
\* commands (enqueue), whatever the threshold and however many bid at once.
THEOREM StreamsStayBounded == Spec => []StreamBounded
<1> DEFINE Bounded == IntakeTypeOK /\ BoundInv
<1>1. Init => Bounded
  BY IntakeTyped, BoundInit
<1>2. Bounded /\ [Next]_vars => Bounded'
  BY IntakeTyped, BoundNext
<1>3. Bounded => StreamBounded
  <2> SUFFICES ASSUME Bounded, NEW a \in Auctions
               PROVE  Cardinality(stream[a]) <= Backpressure - 1 + Cardinality(Users) + redisErrors
    BY DEF StreamBounded
  <2>1. /\ Cardinality(stream[a]) \in Nat /\ Cardinality(Measured(a)) \in Nat
        /\ Cardinality(Users) \in Nat /\ redisErrors \in Nat /\ Backpressure \in Nat
    BY Counts
  <2> QED
    BY <2>1 DEF BoundInv
<1> HIDE DEF Bounded
<1> QED
  BY <1>1, <1>2, <1>3, PTL DEF Spec

-----------------------------------------------------------------------------
(* The order of the bids                                                   *)

\* The group passes only what has arrived, and only once it exists; what has been
\* tried is behind it.
PassedInv ==
  \A a \in Auctions :
    /\ a \notin group => delivered[a] = 0
    /\ delivered[a] <= arrived[a]
    /\ \A k \in DOMAIN tried[a] : tried[a][k].bid \in 1..delivered[a]

\* What a consumer holds has been delivered, lies behind all it has tried, in order,
\* and nobody else has tried it.
HandOf(s) ==
  /\ \A k \in DOMAIN consumer[s].batch :
       /\ consumer[s].batch[k][2] \in 1..delivered[consumer[s].batch[k][1]]
       /\ k # 1 \/ consumer[s].step # "ack" =>
            Promise!IsNext(s, consumer[s].batch[k][1], consumer[s].batch[k][2])
  /\ \A j, k \in DOMAIN consumer[s].batch :
       j < k /\ consumer[s].batch[j][1] = consumer[s].batch[k][1] =>
         consumer[s].batch[j][2] < consumer[s].batch[k][2]

\* No two consumers hold the same entry.
Apart(s, q) ==
  \A j \in DOMAIN consumer[s].batch, k \in DOMAIN consumer[q].batch :
    consumer[s].batch[j] # consumer[q].batch[k]

HeldInv ==
  /\ \A s \in Servers : HandOf(s)
  /\ \A s, q \in Servers : s # q => Apart(s, q)

OrderInv == IntakeTypeOK /\ PassedInv /\ HeldInv

LEMMA PassedStays ==
  ASSUME PassedInv, IntakeTypeOK, IntakeTypeOK', UNCHANGED <<delivered, tried>>,
         group \subseteq group', \A a \in Auctions : arrived[a] <= arrived'[a]
  PROVE  PassedInv'
<1> SUFFICES ASSUME NEW a \in Auctions
             PROVE  /\ a \notin group' => delivered'[a] = 0
                    /\ delivered'[a] <= arrived'[a]
                    /\ \A k \in DOMAIN tried'[a] : tried'[a][k].bid \in 1..delivered'[a]
  BY DEF PassedInv
<1>1. delivered[a] \in Nat /\ arrived[a] \in Nat /\ arrived'[a] \in Nat
  BY DEF IntakeTypeOK
<1>2. /\ a \notin group => delivered[a] = 0
      /\ delivered[a] <= arrived[a]
      /\ \A k \in DOMAIN tried[a] : tried[a][k].bid \in 1..delivered[a]
  BY DEF PassedInv
<1> QED
  BY <1>1, <1>2

LEMMA HeldStays == HeldInv /\ UNCHANGED <<delivered, tried, consumer>> => HeldInv'
BY DEF HeldInv, HandOf, Apart, Promise!IsNext

LEMMA HandStays ==
  ASSUME NEW s \in Servers, HandOf(s), UNCHANGED <<delivered, tried>>, consumer'[s] = consumer[s]
  PROVE  HandOf(s)'
BY DEF HandOf, Promise!IsNext

\* One consumer moves: what it holds now is in order and no other's.
LEMMA HandMoves ==
  ASSUME HeldInv, NEW s \in Servers,
         \A q \in Servers : q # s => consumer'[q] = consumer[q] /\ HandOf(q)',
         HandOf(s)',
         \A q \in Servers : q # s =>
           \A k \in DOMAIN consumer'[s].batch, j \in DOMAIN consumer[q].batch :
             consumer'[s].batch[k] # consumer[q].batch[j]
  PROVE  HeldInv'
<1>1. \A q \in Servers : HandOf(q)'
  OBVIOUS
<1>2. ASSUME NEW q \in Servers, NEW r \in Servers, q # r PROVE Apart(q, r)'
  <2>1. CASE q = s
    BY <1>2, <2>1 DEF Apart
  <2>2. CASE r = s
    BY <1>2, <2>2 DEF Apart
  <2>3. CASE q # s /\ r # s
    BY <1>2, <2>3 DEF Apart, HeldInv
  <2> QED
    BY <2>1, <2>2, <2>3
<1> QED
  BY <1>1, <1>2 DEF HeldInv

\* One consumer lays down what it held.
LEMMA HandEmptied ==
  ASSUME OrderInv, NEW s \in Servers, NEW c \in Consumer, c.batch = <<>>,
         consumer' = [consumer EXCEPT ![s] = c], UNCHANGED <<delivered, tried>>
  PROVE  HeldInv'
<1>1. consumer'[s] = c /\ \A q \in Servers : q # s => consumer'[q] = consumer[q]
  BY DEF OrderInv, IntakeTypeOK
<1>2. HandOf(s)'
  BY <1>1 DEF HandOf
<1>3. \A q \in Servers : q # s => HandOf(q)'
  BY <1>1, HandStays DEF OrderInv, HeldInv
<1> QED
  BY <1>1, <1>2, <1>3, HandMoves DEF OrderInv

\* A new group starts at the beginning of its stream.
LEMMA NewGroup ==
  ASSUME OrderInv, IntakeTypeOK', NEW u \in Users, EnsureGroup(u)
  PROVE  delivered' = delivered
<1>1. \A a \in Auctions : delivered'[a] = delivered[a]
  BY DEF EnsureGroup, GroupStart, OrderInv, PassedInv
<1> QED
  BY <1>1 DEF OrderInv, IntakeTypeOK

\* A request passes nothing.
LEMMA RequestsInOrder ==
  ASSUME OrderInv, IntakeTypeOK', NEW u \in Users,
         Handle(u) \/ \E s \in Servers, a \in Auctions : Validate(s, u, a)
  PROVE  PassedInv' /\ HeldInv'
<1>1. CASE Measure(u) \/ \E s \in Servers, a \in Auctions : Validate(s, u, a)
  <2>1. UNCHANGED <<redisVars, tried, consumer>>
    BY <1>1 DEF Measure, Validate
  <2> QED
    BY <2>1, PassedStays, HeldStays DEF OrderInv, redisVars, IntakeTypeOK
<1>2. CASE Add(u)
  <2>1. UNCHANGED <<group, delivered, tried, consumer>>
    BY <1>2 DEF Add
  <2>2. \A a \in Auctions : arrived[a] <= arrived'[a]
    BY <1>2 DEF Add, OrderInv, IntakeTypeOK
  <2> QED
    BY <2>1, <2>2, PassedStays, HeldStays DEF OrderInv
<1>3. CASE EnsureGroup(u)
  <2>1. delivered' = delivered
    BY <1>3, NewGroup
  <2>2. UNCHANGED <<arrived, tried, consumer>> /\ group \subseteq group'
    BY <1>3 DEF EnsureGroup
  <2> QED
    BY <2>1, <2>2, PassedStays, HeldStays DEF OrderInv, IntakeTypeOK
<1> QED
  BY <1>1, <1>2, <1>3 DEF Handle

\* A read delivers what follows the last entry delivered to anyone, stream by stream.
LEMMA ReadInOrder ==
  ASSUME OrderInv, NEW s \in Servers, Read(s)
  PROVE  PassedInv' /\ HeldInv'
<1>1. UNCHANGED <<arrived, tried, group>>
  BY DEF Read
<1>2. IntakeTypeOK' /\ \A a \in Auctions : Passes(s, a)
  BY ReadTyped DEF OrderInv
<1>3. \A a \in Auctions :
        delivered[a] \in Nat /\ arrived[a] \in Nat /\ delivered'[a] \in Nat /\ delivered[a] <= delivered'[a]
  BY <1>2 DEF OrderInv, IntakeTypeOK, Passes
<1>4. PassedInv'
  <2> SUFFICES ASSUME NEW a \in Auctions
               PROVE  /\ a \notin group' => delivered'[a] = 0
                      /\ delivered'[a] <= arrived'[a]
                      /\ \A k \in DOMAIN tried'[a] : tried'[a][k].bid \in 1..delivered'[a]
    BY DEF PassedInv
  <2>1. /\ a \notin group => delivered[a] = 0
        /\ delivered[a] <= arrived[a]
        /\ \A k \in DOMAIN tried[a] : tried[a][k].bid \in 1..delivered[a]
    BY DEF OrderInv, PassedInv
  <2>2. a \notin consumer[s].keys => delivered'[a] = delivered[a]
    BY DEF Read
  <2>3. a \notin group => a \notin consumer[s].keys
    BY DEF Read
  <2>4. \/ delivered[a] <= delivered'[a] /\ delivered'[a] <= arrived[a]
        \/ delivered'[a] = delivered[a]
    BY <1>2 DEF Passes
  <2> QED
    BY <1>1, <1>3, <2>1, <2>2, <2>3, <2>4
<1>5. PICK batch \in SetToSeqs(Delivery(s)) :
        /\ StreamByStream(batch)
        /\ consumer' = [consumer EXCEPT ![s] = Holding(batch)]
  BY DEF Read
<1>6. \A q \in Servers : q # s => consumer'[q] = consumer[q]
  BY <1>5 DEF OrderInv, IntakeTypeOK
<1>7. consumer'[s].batch = batch /\ consumer'[s].step # "ack"
  <2>1. consumer'[s] = Holding(batch) /\ batch \in Seq(Entries)
    BY <1>5, BatchIs DEF OrderInv, IntakeTypeOK
  <2> QED
    BY <2>1, HoldingIs
<1>8. ASSUME NEW k \in DOMAIN batch
      PROVE  /\ batch[k][1] \in Auctions /\ batch[k][2] \in Nat
             /\ delivered[batch[k][1]] < batch[k][2]
             /\ batch[k][2] <= delivered'[batch[k][1]]
  <2>1. batch[k] \in Delivery(s)
    BY <1>5, BatchIs DEF OrderInv
  <2>2. PICK a, i : a = batch[k][1] /\ i = batch[k][2]
    OBVIOUS
  <2>3. a \in consumer[s].keys /\ i \in Unread(a)
    BY <2>1, <2>2, DeliveryIs DEF OrderInv
  <2>4. a \in Auctions
    BY <2>3, ConsumerIs DEF OrderInv
  <2>5. delivered[a] < i /\ i \in Nat /\ i <= delivered'[a]
    BY <1>2, <2>3, <2>4, UnreadIs DEF Passes, OrderInv
  <2> QED
    BY <2>2, <2>4, <2>5
<1>9. HandOf(s)'
  <2>1. ASSUME NEW k \in DOMAIN batch
        PROVE  /\ batch[k][2] \in 1..delivered'[batch[k][1]]
               /\ Promise!IsNext(s, batch[k][1], batch[k][2])'
    <3>1. PICK a, i : a = batch[k][1] /\ i = batch[k][2]
      OBVIOUS
    <3>2. a \in Auctions /\ i \in Nat /\ delivered[a] < i /\ i <= delivered'[a]
      BY <1>8, <3>1
    <3>3. \A m \in DOMAIN tried[a] : tried[a][m].bid \in 1..delivered[a]
      BY <3>2 DEF OrderInv, PassedInv
    <3>4. \A m \in DOMAIN tried'[a] : tried'[a][m].bid < i
      BY <1>1, <1>3, <3>2, <3>3
    <3>5. Promise!IsNext(s, a, i)'
      <4>1. \A m \in DOMAIN tried'[a] : tried'[a][m].bid \in Nat
        BY <1>1, <1>3, <3>2, <3>3
      <4> QED
        BY <3>2, <3>4, <4>1 DEF Promise!IsNext
    <3>6. i \in 1..delivered'[a]
      BY <1>3, <3>2
    <3> QED
      BY <1>1, <3>1, <3>5, <3>6 DEF Promise!IsNext
  <2>2. \A j, k \in DOMAIN batch : j < k /\ batch[j][1] = batch[k][1] => batch[j][2] < batch[k][2]
    BY <1>5 DEF StreamByStream
  <2> QED
    BY <1>7, <2>1, <2>2 DEF HandOf, Promise!IsNext
<1>10. ASSUME NEW q \in Servers, q # s PROVE HandOf(q)'
  <2>1. HandOf(q) /\ consumer'[q] = consumer[q]
    BY <1>6, <1>10 DEF OrderInv, HeldInv
  <2>2. ASSUME NEW k \in DOMAIN consumer[q].batch
        PROVE  consumer[q].batch[k][2] \in 1..delivered'[consumer[q].batch[k][1]]
    <3>1. PICK a, i : a = consumer[q].batch[k][1] /\ i = consumer[q].batch[k][2]
      OBVIOUS
    <3>2. a \in Auctions
      BY <3>1, ConsumerIs DEF OrderInv
    <3>3. i \in 1..delivered[a]
      BY <2>1, <3>1 DEF HandOf
    <3>4. i \in 1..delivered'[a]
      BY <1>3, <3>2, <3>3
    <3> QED
      BY <3>1, <3>4
  <2> QED
    BY <1>1, <2>1, <2>2 DEF HandOf, Promise!IsNext
<1>11. ASSUME NEW q \in Servers, q # s,
              NEW k \in DOMAIN batch, NEW j \in DOMAIN consumer[q].batch
       PROVE  batch[k] # consumer[q].batch[j]
  <2>1. consumer[q].batch[j][2] \in 1..delivered[consumer[q].batch[j][1]]
    BY DEF OrderInv, HeldInv, HandOf
  <2>2. delivered[batch[k][1]] < batch[k][2] /\ delivered[batch[k][1]] \in Nat
    BY <1>3, <1>8
  <2> QED
    BY <2>1, <2>2
<1>12. HeldInv'
  <2>1. \A q \in Servers : q # s =>
          \A k \in DOMAIN consumer'[s].batch, j \in DOMAIN consumer[q].batch :
            consumer'[s].batch[k] # consumer[q].batch[j]
    BY <1>7, <1>11
  <2> QED
    BY <1>6, <1>9, <1>10, <2>1, HandMoves DEF OrderInv
<1> QED
  BY <1>4, <1>12

\* The head of the batch, which is what Try and Ack are about.
LEMMA HeadIs ==
  ASSUME IntakeTypeOK, NEW s \in Servers, consumer[s].batch # <<>>
  PROVE  /\ 1 \in DOMAIN consumer[s].batch /\ Head(consumer[s].batch) = consumer[s].batch[1]
         /\ consumer[s].batch[1][1] \in Auctions /\ consumer[s].batch[1][2] \in Nat
         /\ Tail(consumer[s].batch) \in Seq(Entries)
         /\ DOMAIN Tail(consumer[s].batch) = 1..Len(consumer[s].batch) - 1
         /\ \A k \in DOMAIN Tail(consumer[s].batch) :
              k + 1 \in DOMAIN consumer[s].batch /\ Tail(consumer[s].batch)[k] = consumer[s].batch[k + 1]
<1>1. /\ consumer[s].batch \in Seq(Entries)
      /\ DOMAIN consumer[s].batch = 1..Len(consumer[s].batch) /\ Len(consumer[s].batch) \in Nat
      /\ \A k \in DOMAIN consumer[s].batch :
           consumer[s].batch[k][1] \in Auctions /\ consumer[s].batch[k][2] \in Nat
  BY ConsumerIs
<1>2. Len(consumer[s].batch) # 0
  BY <1>1, EmptySeq
<1>3. 1 \in DOMAIN consumer[s].batch /\ Head(consumer[s].batch) = consumer[s].batch[1]
  BY <1>1, <1>2
<1>4. /\ Tail(consumer[s].batch) \in Seq(Entries) /\ Len(Tail(consumer[s].batch)) = Len(consumer[s].batch) - 1
      /\ \A k \in 1..Len(Tail(consumer[s].batch)) : Tail(consumer[s].batch)[k] = consumer[s].batch[k + 1]
  BY <1>1, HeadTailProperties
<1>5. DOMAIN Tail(consumer[s].batch) = 1..Len(consumer[s].batch) - 1
  BY <1>4, LenProperties
<1>6. \A k \in DOMAIN Tail(consumer[s].batch) :
        k + 1 \in DOMAIN consumer[s].batch /\ Tail(consumer[s].batch)[k] = consumer[s].batch[k + 1]
  BY <1>1, <1>4, <1>5
<1> QED
  BY <1>1, <1>3, <1>4, <1>5, <1>6

\* What s tries: bid i of a, which comes after all that s has tried, and which nobody
\* else has tried. The log grows by a row.
Tries(s, a, i) ==
  /\ a = consumer[s].batch[1][1] /\ i = consumer[s].batch[1][2] /\ 1 \in DOMAIN consumer[s].batch
  /\ Promise!IsNext(s, a, i) /\ i \in 1..delivered[a]
  /\ tried' = [tried EXCEPT ![a] = Append(tried[a], [by |-> s, bid |-> i])]
  /\ \A b \in Auctions : b # a => tried'[b] = tried[b]
  /\ Len(tried[a]) \in Nat /\ DOMAIN tried[a] = 1..Len(tried[a])
  /\ DOMAIN tried'[a] = 1..Len(tried[a]) + 1
  /\ \A m \in DOMAIN tried[a] : tried'[a][m] = tried[a][m]
  /\ tried'[a][Len(tried[a]) + 1] = [by |-> s, bid |-> i]

LEMMA TryIs ==
  ASSUME OrderInv, NEW s \in Servers, Try(s)
  PROVE  \E a \in Auctions, i \in Nat : Tries(s, a, i)
<1>1. PICK a, i : a = consumer[s].batch[1][1] /\ i = consumer[s].batch[1][2]
  OBVIOUS
<1>2. consumer[s].batch # <<>> /\ consumer[s].step = "try"
  BY DEF Try, OrderInv, IntakeTypeOK
<1>3. /\ 1 \in DOMAIN consumer[s].batch /\ Head(consumer[s].batch) = consumer[s].batch[1]
      /\ a \in Auctions /\ i \in Nat
  BY <1>1, <1>2, HeadIs DEF OrderInv
<1> DEFINE t == [by |-> s, bid |-> i]
<1>4. tried' = [tried EXCEPT ![a] = Append(tried[a], t)] /\ t \in Trial
  BY <1>1, <1>3 DEF Try, Trial
<1>5. Promise!IsNext(s, a, i) /\ i \in 1..delivered[a]
  BY <1>1, <1>2, <1>3 DEF OrderInv, HeldInv, HandOf
<1> HIDE DEF t
<1>6. tried \in [Auctions -> Seq(Trial)]
  BY DEF OrderInv, IntakeTypeOK
<1>7. /\ tried'[a] = Append(tried[a], t) /\ tried[a] \in Seq(Trial)
      /\ \A b \in Auctions : b # a => tried'[b] = tried[b]
  BY <1>3, <1>4, <1>6
<1>8. /\ Len(tried[a]) \in Nat /\ DOMAIN tried[a] = 1..Len(tried[a])
      /\ DOMAIN tried'[a] = 1..Len(tried[a]) + 1
      /\ \A m \in DOMAIN tried[a] : tried'[a][m] = tried[a][m]
      /\ tried'[a][Len(tried[a]) + 1] = t
  BY <1>4, <1>7, AppendProperties, LenProperties
<1>9. Tries(s, a, i)
  BY <1>1, <1>3, <1>4, <1>5, <1>7, <1>8, Zenon DEF Tries, t
<1> QED
  BY <1>3, <1>9

LEMMA TryInOrder ==
  ASSUME OrderInv, NEW s \in Servers, Try(s)
  PROVE  PassedInv' /\ HeldInv'
<1>1. PICK a \in Auctions, i \in Nat : Tries(s, a, i)
  BY TryIs
<1>2. /\ a = consumer[s].batch[1][1] /\ i = consumer[s].batch[1][2] /\ 1 \in DOMAIN consumer[s].batch
      /\ Promise!IsNext(s, a, i) /\ i \in 1..delivered[a]
      /\ \A b \in Auctions : b # a => tried'[b] = tried[b]
      /\ Len(tried[a]) \in Nat
      /\ DOMAIN tried[a] = 1..Len(tried[a]) /\ DOMAIN tried'[a] = 1..Len(tried[a]) + 1
      /\ \A m \in DOMAIN tried[a] : tried'[a][m] = tried[a][m]
      /\ tried'[a][Len(tried[a]) + 1] = [by |-> s, bid |-> i]
  BY <1>1 DEF Tries
<1>3. UNCHANGED <<arrived, delivered, group>>
  BY DEF Try, redisVars
\* Every row of the log is an old one or the new one.
<1>4. \A m \in DOMAIN tried'[a] :
        \/ m \in DOMAIN tried[a] /\ tried'[a][m] = tried[a][m]
        \/ tried'[a][m].by = s /\ tried'[a][m].bid = i
  <2> SUFFICES ASSUME NEW m \in DOMAIN tried'[a], m \notin DOMAIN tried[a]
               PROVE  tried'[a][m].by = s /\ tried'[a][m].bid = i
    BY <1>2, Zenon
  <2>1. m = Len(tried[a]) + 1
    BY <1>2
  <2>2. tried'[a][m] = [by |-> s, bid |-> i]
    BY <1>2, <2>1, Zenon
  <2> QED
    BY <2>2
<1>5. PassedInv'
  <2> SUFFICES ASSUME NEW b \in Auctions
               PROVE  /\ b \notin group' => delivered'[b] = 0
                      /\ delivered'[b] <= arrived'[b]
                      /\ \A k \in DOMAIN tried'[b] : tried'[b][k].bid \in 1..delivered'[b]
    BY DEF PassedInv
  <2>1. /\ b \notin group => delivered[b] = 0
        /\ delivered[b] <= arrived[b]
        /\ \A k \in DOMAIN tried[b] : tried[b][k].bid \in 1..delivered[b]
    BY DEF OrderInv, PassedInv
  <2>2. CASE b = a
    BY <1>2, <1>3, <1>4, <2>1, <2>2
  <2>3. CASE b # a
    BY <1>2, <1>3, <2>1, <2>3
  <2> QED
    BY <2>2, <2>3
\* What stands next still does, unless it is the bid that was tried or s holds it before i.
<1>6. ASSUME NEW q \in Servers, NEW b \in Auctions, NEW j \in Nat, Promise!IsNext(q, b, j),
             b = a => j # i /\ (q = s => i < j)
      PROVE  Promise!IsNext(q, b, j)'
  <2>1. CASE b = a
    BY <1>4, <1>6, <2>1 DEF Promise!IsNext
  <2>2. CASE b # a
    BY <1>2, <1>6, <2>2 DEF Promise!IsNext
  <2> QED
    BY <2>1, <2>2
<1>7. /\ consumer'[s].batch = consumer[s].batch /\ consumer'[s].step = "ack"
      /\ \A q \in Servers : q # s => consumer'[q] = consumer[q]
  BY DEF Try, OrderInv, IntakeTypeOK, Consumer
<1>9. ASSUME NEW q \in Servers, NEW k \in DOMAIN consumer[q].batch
      PROVE  consumer[q].batch[k][1] \in Auctions /\ consumer[q].batch[k][2] \in Nat
  BY ConsumerIs DEF OrderInv
<1>10. HandOf(s)'
  <2>1. consumer[s].step = "try"
    BY DEF Try
  <2>2. ASSUME NEW k \in DOMAIN consumer[s].batch, k # 1
        PROVE  Promise!IsNext(s, consumer[s].batch[k][1], consumer[s].batch[k][2])'
    <3>1. PICK b, j : b = consumer[s].batch[k][1] /\ j = consumer[s].batch[k][2]
      OBVIOUS
    <3>2. b \in Auctions /\ j \in Nat
      BY <1>9, <3>1
    <3>3. Promise!IsNext(s, b, j)
      BY <2>1, <3>1 DEF OrderInv, HeldInv, HandOf
    <3>4. b = a => i < j
      <4>1. 1 < k
        BY <2>2, ConsumerIs DEF OrderInv
      <4>2. consumer[s].batch[1][1] = consumer[s].batch[k][1] =>
              consumer[s].batch[1][2] < consumer[s].batch[k][2]
        BY <1>2, <4>1 DEF OrderInv, HeldInv, HandOf
      <4> QED
        BY <1>2, <3>1, <4>2
    <3>5. b = a => j # i /\ (s = s => i < j)
      BY <3>2, <3>4
    <3>6. Promise!IsNext(s, b, j)'
      BY <1>6, <3>2, <3>3, <3>5
    <3> QED
      BY <1>7, <3>1, <3>6 DEF Promise!IsNext
  <2>3. HandOf(s)
    BY DEF OrderInv, HeldInv
  <2> QED
    BY <1>3, <1>7, <2>2, <2>3 DEF HandOf, Promise!IsNext
<1>11. ASSUME NEW q \in Servers, q # s PROVE HandOf(q)'
  <2>1. HandOf(q) /\ Apart(s, q) /\ consumer'[q] = consumer[q]
    BY <1>7, <1>11 DEF OrderInv, HeldInv
  <2>2. ASSUME NEW k \in DOMAIN consumer[q].batch, k # 1 \/ consumer[q].step # "ack"
        PROVE  Promise!IsNext(q, consumer[q].batch[k][1], consumer[q].batch[k][2])'
    <3>1. PICK b, j : b = consumer[q].batch[k][1] /\ j = consumer[q].batch[k][2]
      OBVIOUS
    <3>2. b \in Auctions /\ j \in Nat /\ Promise!IsNext(q, b, j)
      BY <1>9, <2>1, <2>2, <3>1 DEF HandOf
    <3>3. b = a => j # i
      <4>1. consumer[s].batch[1] \in Entries /\ consumer[q].batch[k] \in Entries
        BY <1>2, ConsumerIs, ElementOfSeq DEF OrderInv
      <4>2. consumer[s].batch[1] # consumer[q].batch[k]
        BY <1>2, <2>1 DEF Apart
      <4>3. consumer[s].batch[1] = <<a, i>> /\ consumer[q].batch[k] = <<b, j>>
        BY <1>2, <3>1, <4>1 DEF Entries
      <4> QED
        BY <4>2, <4>3
    <3>4. Promise!IsNext(q, b, j)'
      BY <1>6, <1>11, <3>2, <3>3
    <3> QED
      BY <2>1, <3>1, <3>4 DEF Promise!IsNext
  <2> QED
    BY <1>3, <2>1, <2>2 DEF HandOf, Promise!IsNext
<1>12. HeldInv'
  <2>1. \A q \in Servers : q # s =>
          \A k \in DOMAIN consumer'[s].batch, j \in DOMAIN consumer[q].batch :
            consumer'[s].batch[k] # consumer[q].batch[j]
    BY <1>7 DEF OrderInv, HeldInv, Apart
  <2> QED
    BY <1>7, <1>10, <1>11, <2>1, HandMoves DEF OrderInv
<1> QED
  BY <1>5, <1>12

LEMMA AckInOrder ==
  ASSUME OrderInv, NEW s \in Servers, Ack(s)
  PROVE  PassedInv' /\ HeldInv'
<1>1. UNCHANGED <<arrived, delivered, group, tried>>
  BY DEF Ack
<1>2. PassedInv'
  <2>1. IntakeTypeOK'
    BY ConsumerTyped DEF OrderInv
  <2> QED
    BY <1>1, <2>1, PassedStays DEF OrderInv, IntakeTypeOK
<1>3. HeldInv'
  <2>1. consumer[s].batch # <<>>
    BY DEF Ack, OrderInv, IntakeTypeOK
  <2>2. /\ consumer'[s].batch = Tail(consumer[s].batch)
        /\ \A q \in Servers : q # s => consumer'[q] = consumer[q]
    <3>1. consumer' = [consumer EXCEPT ![s] = Holding(Tail(consumer[s].batch))]
      BY DEF Ack
    <3>2. Holding(Tail(consumer[s].batch)).batch = Tail(consumer[s].batch)
      BY <2>1, HeadIs, HoldingIs DEF OrderInv
    <3> QED
      BY <3>1, <3>2 DEF OrderInv, IntakeTypeOK
  <2>3. /\ DOMAIN consumer'[s].batch = 1..Len(consumer[s].batch) - 1 /\ Len(consumer[s].batch) \in Nat
        /\ \A k \in DOMAIN consumer'[s].batch :
             k + 1 \in DOMAIN consumer[s].batch /\ consumer'[s].batch[k] = consumer[s].batch[k + 1]
    BY <2>1, <2>2, HeadIs, ConsumerIs DEF OrderInv
  <2>4. ASSUME NEW k \in DOMAIN consumer'[s].batch
        PROVE  /\ consumer'[s].batch[k][2] \in 1..delivered'[consumer'[s].batch[k][1]]
               /\ Promise!IsNext(s, consumer[s].batch[k][1], consumer[s].batch[k][2])'
    <3>1. PICK b, j : b = consumer'[s].batch[k][1] /\ j = consumer'[s].batch[k][2]
      OBVIOUS
    <3>2. k + 1 \in DOMAIN consumer[s].batch
          /\ b = consumer[s].batch[k + 1][1] /\ j = consumer[s].batch[k + 1][2]
      BY <2>3, <3>1
    <3>3. k + 1 # 1
      BY <2>3
    <3>4. j \in 1..delivered[b] /\ Promise!IsNext(s, b, j)
      BY <3>2, <3>3 DEF OrderInv, HeldInv, HandOf
    <3>5. Promise!IsNext(s, b, j)'
      BY <1>1, <3>4 DEF Promise!IsNext
    <3> QED
      BY <1>1, <3>1, <3>4, <3>5 DEF Promise!IsNext
  <2>5. ASSUME NEW j \in DOMAIN consumer'[s].batch, NEW k \in DOMAIN consumer'[s].batch,
               j < k, consumer'[s].batch[j][1] = consumer'[s].batch[k][1]
        PROVE  consumer'[s].batch[j][2] < consumer'[s].batch[k][2]
    <3>1. /\ j + 1 \in DOMAIN consumer[s].batch /\ consumer'[s].batch[j] = consumer[s].batch[j + 1]
          /\ k + 1 \in DOMAIN consumer[s].batch /\ consumer'[s].batch[k] = consumer[s].batch[k + 1]
      BY <2>3
    <3>2. j + 1 < k + 1
      BY <2>3, <2>5
    <3> QED
      BY <2>5, <3>1, <3>2 DEF OrderInv, HeldInv, HandOf
  <2>6. HandOf(s)'
    BY <2>4, <2>5 DEF HandOf
  <2>7. \A q \in Servers : q # s => HandOf(q)'
    BY <1>1, <2>2, HandStays DEF OrderInv, HeldInv
  <2>8. \A q \in Servers : q # s =>
          \A k \in DOMAIN consumer'[s].batch, j \in DOMAIN consumer[q].batch :
            consumer'[s].batch[k] # consumer[q].batch[j]
    BY <2>3 DEF OrderInv, HeldInv, Apart
  <2> QED
    BY <2>2, <2>6, <2>7, <2>8, HandMoves DEF OrderInv
<1> QED
  BY <1>2, <1>3

\* Steps of a consumer or of its server that leave it with nothing in hand.
LEMMA HandsDown ==
  ASSUME NEW s \in Servers,
         Scan(s) \/ ReadFails(s) \/ AckFails(s) \/ Crash(s) \/ (Bootstrap(s) /\ StartConsumer(s))
  PROVE  /\ UNCHANGED <<redisVars, tried>>
         /\ \E c \in Consumer : /\ c.batch = <<>> /\ c.step # "ack"
                                /\ consumer' = [consumer EXCEPT ![s] = c]
<1>1. UNCHANGED <<redisVars, tried>>
  BY DEF Scan, ReadFails, AckFails, Crash, Bootstrap
<1>2. CASE Scan(s)
  <2> DEFINE c == [Resting EXCEPT !.step = "scanned", !.keys = ActiveStreams]
  <2>1. c \in Consumer /\ c.batch = <<>> /\ c.step # "ack"
    BY StartingRecords DEF ActiveStreams, Consumer, Phases
  <2>2. consumer' = [consumer EXCEPT ![s] = c]
    BY <1>2 DEF Scan
  <2> HIDE DEF c
  <2> QED
    BY <1>1, <2>1, <2>2
<1>3. CASE ReadFails(s) \/ AckFails(s) \/ Crash(s) \/ (Bootstrap(s) /\ StartConsumer(s))
  <2>1. consumer' \in {[consumer EXCEPT ![s] = Resting], [consumer EXCEPT ![s] = Off]}
    BY <1>3 DEF ReadFails, AckFails, Crash, StartConsumer
  <2> QED
    BY <1>1, <2>1, StartingRecords
<1> QED
  BY <1>2, <1>3

\* Steps that touch neither Redis nor a consumer.
LEMMA Aside ==
  ASSUME \/ \E a \in Auctions : Close(a)
         \/ \E s \in Servers : Bootstrap(s) /\ ~StartConsumer(s)
         \/ UNCHANGED vars
  PROVE  UNCHANGED <<redisVars, tried, consumer>>
BY DEF Close, Bootstrap, vars

LEMMA OrderNext == OrderInv /\ [Next]_vars => OrderInv'
<1> SUFFICES ASSUME OrderInv, [Next]_vars PROVE PassedInv' /\ HeldInv'
  BY IntakeTyped DEF OrderInv
<1>1. IntakeTypeOK /\ IntakeTypeOK'
  BY IntakeTyped DEF OrderInv
<1>2. CASE \E u \in Users : Handle(u) \/ \E s \in Servers, a \in Auctions : Validate(s, u, a)
  BY <1>1, <1>2, RequestsInOrder
<1>3. ASSUME NEW s \in Servers,
             Scan(s) \/ ReadFails(s) \/ AckFails(s) \/ Crash(s) \/ (Bootstrap(s) /\ StartConsumer(s))
      PROVE  PassedInv' /\ HeldInv'
  <2>1. UNCHANGED <<redisVars, tried>>
    BY <1>3, HandsDown
  <2>2. PICK c \in Consumer : c.batch = <<>> /\ consumer' = [consumer EXCEPT ![s] = c]
    BY <1>3, HandsDown
  <2>3. HeldInv'
    BY <2>1, <2>2, HandEmptied DEF redisVars
  <2> QED
    BY <1>1, <2>1, <2>3, PassedStays DEF OrderInv, redisVars, IntakeTypeOK
<1>4. CASE \/ \E a \in Auctions : Close(a)
           \/ \E s \in Servers : Bootstrap(s) /\ ~StartConsumer(s)
           \/ UNCHANGED vars
  <2>1. UNCHANGED <<redisVars, tried, consumer>>
    BY <1>4, Aside
  <2> QED
    BY <1>1, <2>1, PassedStays, HeldStays DEF OrderInv, redisVars, IntakeTypeOK
<1> QED
  BY <1>2, <1>3, <1>4, ReadInOrder, TryInOrder, AckInOrder DEF Next, ConsumeLoop

LEMMA OrderInit == Init => OrderInv
<1> SUFFICES ASSUME Init PROVE PassedInv /\ HeldInv
  BY IntakeTyped DEF OrderInv
<1>1. PassedInv
  BY DEF Init, PassedInv
<1>2. \A s \in Servers : consumer[s].batch = <<>>
  BY StartingRecords DEF Init
<1>3. HeldInv
  BY <1>2 DEF HeldInv, HandOf, Apart
<1> QED
  BY <1>1, <1>3

\* What a step is to the promise: a bid arrives, a server tries one, or nothing.
LEMMA StepKeepsPromise ==
  ASSUME OrderInv, [Next]_vars
  PROVE  [Promise!Next]_(Promise!vars)
<1>1. ASSUME NEW u \in Users, Add(u) PROVE Promise!Next
  <2>1. request[u].auction \in Auctions
    BY <1>1 DEF Add, OrderInv, IntakeTypeOK
  <2>2. Promise!Arrive(request[u].auction)
    BY <1>1 DEF Add, Promise!Arrive
  <2> QED
    BY <2>1, <2>2 DEF Promise!Next
<1>2. ASSUME NEW s \in Servers, Try(s) PROVE Promise!Next
  <2>1. PICK a \in Auctions, i \in Nat : Tries(s, a, i)
    BY <1>2, TryIs
  <2>2. /\ i \in 1..delivered[a] /\ Promise!IsNext(s, a, i)
        /\ tried' = [tried EXCEPT ![a] = Append(tried[a], [by |-> s, bid |-> i])]
    BY <2>1 DEF Tries
  <2>3. i \in 1..arrived[a]
    BY <2>2 DEF OrderInv, PassedInv, IntakeTypeOK
  <2>4. arrived' = arrived
    BY <1>2 DEF Try, redisVars
  <2>5. Promise!Try(s, a)
    BY <2>2, <2>3, <2>4 DEF Promise!Try
  <2> QED
    BY <2>2, <2>5 DEF Promise!Next
<1>3. CASE \E u \in Users : \/ Measure(u) \/ EnsureGroup(u)
                            \/ \E s \in Servers, a \in Auctions : Validate(s, u, a)
  BY <1>3 DEF Measure, EnsureGroup, Validate, redisVars, Promise!vars
<1>4. CASE \E s \in Servers : Scan(s) \/ Read(s) \/ ReadFails(s) \/ Ack(s) \/ AckFails(s)
  BY <1>4 DEF Scan, Read, ReadFails, Ack, AckFails, redisVars, Promise!vars
<1>5. CASE (\E a \in Auctions : Close(a)) \/ (\E s \in Servers : Crash(s) \/ Bootstrap(s)) \/ UNCHANGED vars
  BY <1>5 DEF Close, Crash, Bootstrap, vars, redisVars, Promise!vars
<1> QED
  BY <1>1, <1>2, <1>3, <1>4, <1>5 DEF Next, ConsumeLoop, Handle

\* The consumers of the group (BidSequencer) implement InOrderOnce: however many servers
\* run, whatever crashes and whichever Redis commands fail, no bid is handed to placeBid
\* twice, and each server takes those of an auction in the order of their arrival.
THEOREM BidsAreTriedInOrder == Spec => BidsInOrderOnce
<1>1. Spec => []OrderInv
  BY OrderInit, OrderNext, PTL DEF Spec
<1>2. Init => Promise!Init
  BY DEF Init, Promise!Init
<1> QED
  BY <1>1, <1>2, StepKeepsPromise, PTL DEF Spec, BidsInOrderOnce, Promise!Spec

\* The bids of an auction that one server has tried, in the order of their arrival.
ServerOrder ==
  \A a \in Auctions : \A j, k \in DOMAIN tried[a] :
    j < k /\ tried[a][j].by = tried[a][k].by => tried[a][j].bid < tried[a][k].bid

LEMMA ServerOrderNext == OrderInv /\ ServerOrder /\ [Next]_vars => ServerOrder'
<1> SUFFICES ASSUME OrderInv, ServerOrder, [Next]_vars PROVE ServerOrder'
  OBVIOUS
<1>1. CASE \E s \in Servers : Try(s)
  <2>1. PICK s \in Servers : Try(s)
    BY <1>1
  <2>2. PICK a \in Auctions, i \in Nat : Tries(s, a, i)
    BY <2>1, TryIs
  <2>3. /\ Promise!IsNext(s, a, i)
        /\ \A b \in Auctions : b # a => tried'[b] = tried[b]
        /\ Len(tried[a]) \in Nat
        /\ DOMAIN tried[a] = 1..Len(tried[a]) /\ DOMAIN tried'[a] = 1..Len(tried[a]) + 1
        /\ \A m \in DOMAIN tried[a] : tried'[a][m] = tried[a][m]
        /\ tried'[a][Len(tried[a]) + 1] = [by |-> s, bid |-> i]
    BY <2>2 DEF Tries
  <2> SUFFICES ASSUME NEW b \in Auctions, NEW j \in DOMAIN tried'[b], NEW k \in DOMAIN tried'[b],
                      j < k, tried'[b][j].by = tried'[b][k].by
               PROVE  tried'[b][j].bid < tried'[b][k].bid
    BY DEF ServerOrder
  <2>4. CASE b # a
    BY <2>3, <2>4 DEF ServerOrder
  <2>5. CASE b = a /\ k \in DOMAIN tried[a]
    <3>1. j \in DOMAIN tried[a]
      BY <2>3, <2>5
    <3>2. tried'[b][j] = tried[b][j] /\ tried'[b][k] = tried[b][k]
      BY <2>3, <2>5, <3>1
    <3> QED
      BY <2>5, <3>1, <3>2 DEF ServerOrder
  <2>6. CASE b = a /\ k \notin DOMAIN tried[a]
    <3>1. k = Len(tried[a]) + 1 /\ j \in DOMAIN tried[a]
      BY <2>3, <2>6
    <3>2. tried'[a][k].by = s /\ tried'[a][k].bid = i /\ tried'[a][j] = tried[a][j]
      BY <2>3, <3>1
    <3> QED
      BY <2>3, <2>6, <3>1, <3>2 DEF Promise!IsNext
  <2> QED
    BY <2>4, <2>5, <2>6
<1>2. CASE tried' = tried
  BY <1>2 DEF ServerOrder
<1>3. (\E s \in Servers : Try(s)) \/ tried' = tried
  <2>1. CASE \E u \in Users : Handle(u) \/ \E s \in Servers, a \in Auctions : Validate(s, u, a)
    BY <2>1 DEF Handle, Measure, Add, EnsureGroup, Validate
  <2>2. ASSUME NEW s \in Servers, ConsumeLoop(s) \/ AckFails(s) \/ Crash(s) \/ Bootstrap(s)
        PROVE  Try(s) \/ tried' = tried
    BY <2>2 DEF ConsumeLoop, Scan, Read, ReadFails, Ack, AckFails, Crash, Bootstrap
  <2>3. CASE (\E a \in Auctions : Close(a)) \/ UNCHANGED vars
    BY <2>3 DEF Close, vars
  <2> QED
    BY <2>1, <2>2, <2>3 DEF Next
<1> QED
  BY <1>1, <1>2, <1>3

\* With a single server "serial ordering per auction" (bid.sequencer.ts) is true: the bids
\* of an auction are tried in the order of their arrival, over its crashes and restarts.
THEOREM OneServerKeepsOrder ==
  ASSUME NEW server, Servers = {server}
  PROVE  Spec => []TriedInArrivalOrder
<1> DEFINE Inv == OrderInv /\ ServerOrder
<1>1. Init => Inv
  BY OrderInit DEF Init, ServerOrder
<1>2. Inv /\ [Next]_vars => Inv'
  BY OrderNext, ServerOrderNext
<1>3. Inv => TriedInArrivalOrder
  <2> SUFFICES ASSUME Inv, NEW a \in Auctions, NEW j \in DOMAIN tried[a], NEW k \in DOMAIN tried[a], j < k
               PROVE  tried[a][j].bid < tried[a][k].bid
    BY DEF TriedInArrivalOrder
  <2>1. tried[a] \in Seq(Trial)
    BY DEF OrderInv, IntakeTypeOK
  <2>2. tried[a][j] \in Trial /\ tried[a][k] \in Trial
    BY <2>1, ElementOfSeq, LenProperties
  <2>3. tried[a][j].by = tried[a][k].by
    BY <2>2 DEF Trial
  <2> QED
    BY <2>3 DEF ServerOrder
<1> HIDE DEF Inv
<1> QED
  BY <1>1, <1>2, <1>3, PTL DEF Spec

-----------------------------------------------------------------------------
(* Nothing is acknowledged untried                                         *)

\* XADD never has to trim: the streams are longer than the backpressure lets them grow.
RoomInStreams == Backpressure - 1 + Cardinality(Users) + MaxRedisErrors <= StreamLength

KeptInv == \A a \in Auctions : stream[a] = 1..arrived[a]

\* What a consumer is about to acknowledge has been tried.
HeadTried ==
  \A s \in Servers : consumer[s].step = "ack" =>
    WasTried(consumer[s].batch[1][1], consumer[s].batch[1][2])

AnswerInv == OrderInv /\ BoundInv /\ KeptInv /\ HeadTried /\ AckedWasTried

LEMMA AddKeeps ==
  ASSUME RoomInStreams, IntakeTypeOK, BoundInv, KeptInv, NEW u \in Users, Add(u)
  PROVE  KeptInv'
<1>1. PICK a \in Auctions : a = request[u].auction
  BY DEF Add, IntakeTypeOK
<1>2. PICK i : i = arrived[a] + 1
  OBVIOUS
<1>3. arrived[a] \in Nat /\ i \in Nat \ {0} /\ stream[a] = 1..arrived[a] /\ stream[a] \cup {i} = 1..i
  BY <1>2 DEF IntakeTypeOK, KeptInv
<1>4. i <= StreamLength
  <2>1. Cardinality(stream[a]) = arrived[a]
    BY <1>3, FS_Interval
  <2>2. Cardinality(Measured(a)) # 0
    <3>1. u \in Measured(a)
      BY <1>1 DEF Add, Measured
    <3> QED
      BY <3>1, Counts, FS_EmptySet
  <2>3. Cardinality(stream[a]) + Cardinality(Measured(a)) <= Backpressure - 1 + Cardinality(Users) + redisErrors
    BY DEF BoundInv
  <2>4. /\ Cardinality(Measured(a)) \in Nat /\ Cardinality(Users) \in Nat
        /\ Backpressure \in Nat /\ StreamLength \in Nat
        /\ redisErrors \in Nat /\ MaxRedisErrors \in Nat /\ redisErrors <= MaxRedisErrors
    BY Counts, LimitsAssumption, FaultsAssumption DEF IntakeTypeOK
  <2> QED
    BY <1>2, <1>3, <2>1, <2>2, <2>3, <2>4 DEF RoomInStreams
<1>5. PICK kept \in Trimmed(stream[a] \cup {i}) : stream' = [stream EXCEPT ![a] = kept]
  BY <1>1, <1>2 DEF Add
<1>6. kept \in Trimmed(1..i)
  BY <1>3, <1>5, Zenon
<1>7. kept = 1..i
  BY <1>3, <1>4, <1>6, TrimmedNothing
<1>8. arrived' = [arrived EXCEPT ![a] = i]
  BY <1>1, <1>2 DEF Add
<1> QED
  BY <1>5, <1>7, <1>8 DEF KeptInv, IntakeTypeOK

\* Only Add changes a stream.
LEMMA KeptNext ==
  ASSUME RoomInStreams, IntakeTypeOK, BoundInv, KeptInv, [Next]_vars
  PROVE  KeptInv'
<1>1. ASSUME UNCHANGED <<stream, arrived>> PROVE KeptInv'
  BY <1>1 DEF KeptInv
<1>2. CASE \E u \in Users : \/ Measure(u) \/ EnsureGroup(u)
                            \/ \E s \in Servers, a \in Auctions : Validate(s, u, a)
  BY <1>1, <1>2 DEF Measure, EnsureGroup, Validate, redisVars
<1>3. ASSUME NEW s \in Servers, ConsumeLoop(s) \/ AckFails(s) \/ Crash(s) \/ Bootstrap(s)
      PROVE  KeptInv'
  <2>1. CASE Scan(s) \/ ReadFails(s) \/ AckFails(s) \/ Crash(s) \/ Bootstrap(s)
    BY <1>1, <2>1 DEF Scan, ReadFails, AckFails, Crash, Bootstrap, redisVars
  <2>2. CASE Read(s) \/ Ack(s)
    BY <1>1, <2>2 DEF Read, Ack
  <2>3. CASE Try(s)
    BY <1>1, <2>3 DEF Try, redisVars
  <2> QED
    BY <1>3, <2>1, <2>2, <2>3 DEF ConsumeLoop
<1>4. CASE (\E a \in Auctions : Close(a)) \/ UNCHANGED vars
  BY <1>1, <1>4 DEF Close, vars, redisVars
<1> QED
  BY <1>2, <1>3, <1>4, AddKeeps DEF Next, Handle

\* A read skips nothing: it takes the oldest entries that nobody has read.
LEMMA ReadTakesAll ==
  ASSUME OrderInv, KeptInv, NEW s \in Servers, Read(s), NEW a \in Auctions, a \in consumer[s].keys,
         NEW i \in Nat, delivered[a] < i, i <= delivered'[a]
  PROVE  i \in Unread(a)
<1> DEFINE new  == {j \in stream[a] : j > delivered[a]}
           Upto(m) == {j \in new : j <= m}
<1>1. PICK m : m = delivered'[a]
  OBVIOUS
<1>2. delivered[a] \in Nat /\ arrived[a] \in Nat /\ stream[a] = 1..arrived[a]
  BY DEF OrderInv, IntakeTypeOK, KeptInv
<1>3. m \in Unread(a)
  <2>1. delivered'[a] = delivered[a] \/ delivered'[a] \in Unread(a)
    BY ReadTyped DEF OrderInv, Passes
  <2> QED
    BY <1>1, <1>2, <2>1
<1>4. m \in new /\ Cardinality(Upto(m)) <= ReadCount
  BY <1>3 DEF Unread
<1>5. m \in Nat /\ i <= m /\ i \in new
  BY <1>1, <1>2, <1>4
<1>6. Upto(i) \in SUBSET Upto(m)
  BY <1>2, <1>5
<1>7. IsFiniteSet(Upto(m))
  <2>1. IsFiniteSet(1..arrived[a])
    BY <1>2, FS_Interval
  <2>2. Upto(m) \in SUBSET (1..arrived[a])
    BY <1>2
  <2> HIDE DEF Upto
  <2> QED
    BY <2>1, <2>2, FS_Subset
<1>8. Cardinality(Upto(i)) <= ReadCount
  <2> HIDE DEF Upto
  <2>1. IsFiniteSet(Upto(i)) /\ Cardinality(Upto(i)) <= Cardinality(Upto(m))
    BY <1>6, <1>7, FS_Subset
  <2>2. Cardinality(Upto(i)) \in Nat /\ Cardinality(Upto(m)) \in Nat /\ ReadCount \in Nat
    BY <1>7, <2>1, FS_CardinalityType, LimitsAssumption
  <2> QED
    BY <1>4, <2>1, <2>2
<1> QED
  BY <1>5, <1>8 DEF Unread

LEMMA AnswersStay ==
  ASSUME AckedWasTried, UNCHANGED <<delivered, pending, tried>>
  PROVE  AckedWasTried'
BY DEF AckedWasTried, WasTried

\* One consumer moves, and is not about to acknowledge; what was tried stays so.
LEMMA HeadsStay ==
  ASSUME HeadTried, NEW s \in Servers, consumer'[s].step # "ack",
         \A q \in Servers : q # s => consumer'[q] = consumer[q],
         \A a \in Auctions : \A i : WasTried(a, i) => WasTried(a, i)',
         \A q \in Servers : consumer[q].step = "ack" => consumer[q].batch[1][1] \in Auctions
  PROVE  HeadTried'
<1> SUFFICES ASSUME NEW q \in Servers, consumer'[q].step = "ack"
             PROVE  WasTried(consumer[q].batch[1][1], consumer[q].batch[1][2])'
  BY DEF HeadTried, WasTried
<1>1. q # s /\ consumer'[q] = consumer[q]
  OBVIOUS
<1>2. WasTried(consumer[q].batch[1][1], consumer[q].batch[1][2])
  BY <1>1 DEF HeadTried
<1>3. PICK a, i : a = consumer[q].batch[1][1] /\ i = consumer[q].batch[1][2]
  OBVIOUS
<1>4. a \in Auctions /\ WasTried(a, i)
  BY <1>1, <1>2, <1>3
<1>5. WasTried(a, i)'
  BY <1>4
<1> QED
  BY <1>1, <1>3, <1>5 DEF WasTried

\* What a consumer is about to acknowledge is a bid of an auction.
LEMMA HeadsKnown ==
  ASSUME IntakeTypeOK
  PROVE  \A q \in Servers : consumer[q].step = "ack" => consumer[q].batch[1][1] \in Auctions
BY HeadIs DEF IntakeTypeOK

LEMMA ReadAnswers ==
  ASSUME OrderInv, KeptInv, HeadTried, AckedWasTried, NEW s \in Servers, Read(s)
  PROVE  AckedWasTried' /\ HeadTried'
<1>1. HeadTried'
  <2>1. PICK batch \in SetToSeqs(Delivery(s)) : consumer' = [consumer EXCEPT ![s] = Holding(batch)]
    BY DEF Read
  <2>2. consumer'[s] = Holding(batch) /\ batch \in Seq(Entries)
    BY <2>1, BatchIs DEF OrderInv, IntakeTypeOK
  <2>3. consumer'[s].step # "ack"
    BY <2>2, HoldingIs
  <2>4. \A q \in Servers : q # s => consumer'[q] = consumer[q]
    BY <2>1 DEF OrderInv, IntakeTypeOK
  <2>5. \A a \in Auctions : \A i : WasTried(a, i) => WasTried(a, i)'
    BY DEF Read, WasTried
  <2> QED
    BY <2>3, <2>4, <2>5, HeadsStay, HeadsKnown DEF OrderInv
<1>2. ASSUME NEW a \in Auctions, NEW i \in 1..delivered'[a]
      PROVE  i \in pending'[a] \/ WasTried(a, i)'
  <2>1. /\ pending'[a] = IF a \in consumer[s].keys THEN pending[a] \cup Unread(a) ELSE pending[a]
        /\ a \notin consumer[s].keys => delivered'[a] = delivered[a]
        /\ tried' = tried
    BY DEF Read
  <2>2. delivered[a] \in Nat /\ delivered'[a] \in Nat
    BY ReadTyped DEF OrderInv, IntakeTypeOK
  <2>3. CASE i <= delivered[a]
    <3>1. i \in pending[a] \/ WasTried(a, i)
      BY <2>2, <2>3 DEF AckedWasTried
    <3> QED
      BY <2>1, <3>1 DEF WasTried
  <2>4. CASE delivered[a] < i
    <3>1. a \in consumer[s].keys /\ i \in Nat /\ i <= delivered'[a]
      BY <2>1, <2>2, <2>4
    <3>2. i \in Unread(a)
      BY <2>4, <3>1, ReadTakesAll
    <3> QED
      BY <2>1, <3>1, <3>2
  <2> QED
    BY <2>2, <2>3, <2>4
<1> QED
  BY <1>1, <1>2 DEF AckedWasTried

LEMMA TryAnswers ==
  ASSUME OrderInv, HeadTried, AckedWasTried, NEW s \in Servers, Try(s)
  PROVE  AckedWasTried' /\ HeadTried'
<1>1. PICK a \in Auctions, i \in Nat : Tries(s, a, i)
  BY TryIs
<1>2. /\ a = consumer[s].batch[1][1] /\ i = consumer[s].batch[1][2]
      /\ \A b \in Auctions : b # a => tried'[b] = tried[b]
      /\ Len(tried[a]) \in Nat
      /\ DOMAIN tried[a] = 1..Len(tried[a]) /\ DOMAIN tried'[a] = 1..Len(tried[a]) + 1
      /\ \A m \in DOMAIN tried[a] : tried'[a][m] = tried[a][m]
      /\ tried'[a][Len(tried[a]) + 1] = [by |-> s, bid |-> i]
  BY <1>1 DEF Tries
<1>3. ASSUME NEW b \in Auctions, NEW j, WasTried(b, j) PROVE WasTried(b, j)'
  <2>1. PICK k \in DOMAIN tried[b] : tried[b][k].bid = j
    BY <1>3 DEF WasTried
  <2>2. CASE b = a
    <3>1. k \in DOMAIN tried'[a] /\ tried'[a][k] = tried[a][k]
      BY <1>2, <2>1, <2>2
    <3> QED
      BY <2>1, <2>2, <3>1, Zenon DEF WasTried
  <2>3. CASE b # a
    BY <1>2, <2>1, <2>3 DEF WasTried
  <2> QED
    BY <2>2, <2>3
<1>4. AckedWasTried'
  <2>1. UNCHANGED <<delivered, pending>>
    BY DEF Try, redisVars
  <2> QED
    BY <1>3, <2>1 DEF AckedWasTried
<1>5. WasTried(a, i)'
  <2>1. Len(tried[a]) + 1 \in DOMAIN tried'[a] /\ tried'[a][Len(tried[a]) + 1].bid = i
    BY <1>2
  <2> QED
    BY <2>1 DEF WasTried
<1>6. HeadTried'
  <2> SUFFICES ASSUME NEW q \in Servers, consumer'[q].step = "ack"
               PROVE  WasTried(consumer[q].batch[1][1], consumer[q].batch[1][2])'
    BY DEF HeadTried, WasTried
  <2>1. consumer'[s].batch = consumer[s].batch /\ \A r \in Servers : r # s => consumer'[r] = consumer[r]
    BY DEF Try, OrderInv, IntakeTypeOK, Consumer
  <2>2. CASE q = s
    BY <1>2, <1>5, <2>1, <2>2 DEF WasTried
  <2>3. CASE q # s
    <3>1. PICK b, j : b = consumer[q].batch[1][1] /\ j = consumer[q].batch[1][2]
      OBVIOUS
    <3>2. consumer[q].step = "ack"
      BY <2>1, <2>3
    <3>3. b \in Auctions
      BY <3>1, <3>2, HeadsKnown DEF OrderInv
    <3>4. WasTried(b, j)
      BY <3>1, <3>2 DEF HeadTried
    <3>5. WasTried(b, j)'
      BY <1>3, <3>3, <3>4
    <3> QED
      BY <2>1, <2>3, <3>1, <3>5 DEF WasTried
  <2> QED
    BY <2>2, <2>3
<1> QED
  BY <1>4, <1>6

LEMMA AckAnswers ==
  ASSUME OrderInv, HeadTried, AckedWasTried, NEW s \in Servers, Ack(s)
  PROVE  AckedWasTried' /\ HeadTried'
<1>1. WasTried(consumer[s].batch[1][1], consumer[s].batch[1][2])
  BY DEF Ack, HeadTried
<1>2. UNCHANGED <<delivered, tried>>
  BY DEF Ack
<1>3. HeadTried'
  <2>1. consumer' = [consumer EXCEPT ![s] = Holding(Tail(consumer[s].batch))]
    BY DEF Ack
  <2>2. Holding(Tail(consumer[s].batch)).step # "ack"
    <3>1. consumer[s].batch # <<>>
      BY DEF Ack, OrderInv, IntakeTypeOK
    <3> QED
      BY <3>1, HeadIs, HoldingIs DEF OrderInv
  <2>3. /\ consumer'[s] = Holding(Tail(consumer[s].batch))
        /\ \A q \in Servers : q # s => consumer'[q] = consumer[q]
    BY <2>1 DEF OrderInv, IntakeTypeOK
  <2>4. \A a \in Auctions : \A i : WasTried(a, i) => WasTried(a, i)'
    BY <1>2 DEF WasTried
  <2> QED
    BY <2>2, <2>3, <2>4, HeadsStay, HeadsKnown DEF OrderInv
<1>4. ASSUME NEW a \in Auctions, NEW i \in 1..delivered'[a]
      PROVE  i \in pending'[a] \/ WasTried(a, i)'
  <2>1. i \in pending[a] \/ WasTried(a, i)
    BY <1>2 DEF AckedWasTried
  <2>2. WasTried(a, i)' <=> WasTried(a, i)
    BY <1>2 DEF WasTried
  <2>3. pending'[a] = pending[a] \ {consumer[s].batch[j][2] :
                                      j \in {k \in Acked(s) : consumer[s].batch[k][1] = a}}
    BY DEF Ack
  <2>4. i \in pending[a] /\ i \notin pending'[a] =>
          consumer[s].batch[1][1] = a /\ consumer[s].batch[1][2] = i
    BY <2>3 DEF Acked
  <2> QED
    BY <1>1, <2>1, <2>2, <2>4
<1> QED
  BY <1>3, <1>4 DEF AckedWasTried

LEMMA AnswerNext == RoomInStreams /\ AnswerInv /\ [Next]_vars => AnswerInv'
<1> SUFFICES ASSUME RoomInStreams, AnswerInv, [Next]_vars PROVE AnswerInv'
  OBVIOUS
<1>1. OrderInv' /\ BoundInv' /\ KeptInv' /\ IntakeTypeOK /\ IntakeTypeOK'
  BY OrderNext, BoundNext, KeptNext, IntakeTyped DEF AnswerInv, OrderInv
<1> SUFFICES AckedWasTried' /\ HeadTried'
  BY <1>1 DEF AnswerInv
<1>2. ASSUME UNCHANGED <<delivered, pending, tried, consumer>>
      PROVE  AckedWasTried' /\ HeadTried'
  BY <1>2, AnswersStay DEF AnswerInv, HeadTried, WasTried
<1>3. CASE \E u \in Users : Handle(u) \/ \E s \in Servers, a \in Auctions : Validate(s, u, a)
  <2>1. PICK u \in Users : Handle(u) \/ \E s \in Servers, a \in Auctions : Validate(s, u, a)
    BY <1>3
  <2>2. UNCHANGED <<delivered, pending, tried, consumer>>
    <3>1. CASE EnsureGroup(u)
      BY <1>1, <3>1, NewGroup DEF EnsureGroup, AnswerInv
    <3>2. CASE Add(u)
      BY <3>2 DEF Add
    <3>3. CASE Measure(u) \/ \E s \in Servers, a \in Auctions : Validate(s, u, a)
      BY <3>3 DEF Measure, Validate, redisVars
    <3> QED
      BY <2>1, <3>1, <3>2, <3>3 DEF Handle
  <2> QED
    BY <1>2, <2>2
<1>4. ASSUME NEW s \in Servers,
             Scan(s) \/ ReadFails(s) \/ AckFails(s) \/ Crash(s) \/ (Bootstrap(s) /\ StartConsumer(s))
      PROVE  AckedWasTried' /\ HeadTried'
  <2>1. UNCHANGED <<redisVars, tried>>
    BY <1>4, HandsDown
  <2>2. PICK c \in Consumer : c.step # "ack" /\ consumer' = [consumer EXCEPT ![s] = c]
    BY <1>4, HandsDown
  <2>3. consumer'[s].step # "ack" /\ \A q \in Servers : q # s => consumer'[q] = consumer[q]
    BY <1>1, <2>2 DEF IntakeTypeOK
  <2>4. \A a \in Auctions : \A i : WasTried(a, i) => WasTried(a, i)'
    BY <2>1 DEF WasTried
  <2>5. HeadTried'
    BY <1>1, <2>3, <2>4, HeadsStay, HeadsKnown DEF AnswerInv
  <2> QED
    BY <2>1, <2>5, AnswersStay DEF redisVars, AnswerInv
<1>5. CASE \/ \E a \in Auctions : Close(a)
           \/ \E s \in Servers : Bootstrap(s) /\ ~StartConsumer(s)
           \/ UNCHANGED vars
  <2>1. UNCHANGED <<redisVars, tried, consumer>>
    BY <1>5, Aside
  <2> QED
    BY <1>2, <2>1 DEF redisVars
<1> QED
  BY <1>3, <1>4, <1>5, ReadAnswers, TryAnswers, AckAnswers DEF Next, ConsumeLoop, AnswerInv

\* While the streams are long enough for what the backpressure lets in (1000 entries and
\* a threshold of 750 in the code), an entry that the group has passed is either pending
\* or has been handed to placeBid: no XACK, however it is delayed or fails, drops a bid.
THEOREM NothingAckedUntried ==
  ASSUME RoomInStreams
  PROVE  Spec => []AckedWasTried
<1>1. Init => AnswerInv
  <2> SUFFICES ASSUME Init PROVE AnswerInv
    OBVIOUS
  <2>1. OrderInv /\ BoundInv
    BY OrderInit, BoundInit
  <2>2. KeptInv /\ HeadTried /\ AckedWasTried
    BY StartingRecords DEF Init, KeptInv, HeadTried, AckedWasTried
  <2> QED
    BY <2>1, <2>2 DEF AnswerInv
<1>2. AnswerInv /\ [Next]_vars => AnswerInv'
  BY AnswerNext
<1>3. AnswerInv => AckedWasTried
  BY DEF AnswerInv
<1> QED
  BY <1>1, <1>2, <1>3, PTL DEF Spec
=============================================================================
