--------------------------- MODULE SafeguardProofs --------------------------
(***************************************************************************)
(* Theorems about four safeguards.  Suspension: a suspension takes hold    *)
(* within the lifetime of a cache entry and of one read, and an instance   *)
(* that has evicted the user decides by the row, for any number of         *)
(* instances, lifetimes and restarts.  FraudWindow: the graph holds the    *)
(* bids of the window and no others, for any bidders, auctions and length, *)
(* and response times lie within it.  FraudDesk: the ring of latencies     *)
(* holds the latest, for any size.                                         *)
(* RowLocks: transactions that lock all their rows in one ascending        *)
(* sequence never wait for one another in a circle, however many they are. *)
(***************************************************************************)
EXTENDS Suspension, Sequences, FiniteSetTheorems, NaturalsInduction, WellFoundedInduction, TLAPS

\* A read that is under way began no longer than MaxRead ago.
ReadsReturn == \A r \in reads : r.began <= now /\ now <= r.began + MaxRead

\* A read that missed the suspension in force began before it.
MissesAreOld ==
  suspended => \A r \in reads : r.step = "read" /\ ~r.value => r.began <= since

\* No entry lives longer than Ttl, and one that lets a suspended user in was filled by a
\* read that began before the suspension.
EntriesExpire == \A i \in Instances : cache[i].cached => cache[i].expiresAt <= now + Ttl
LeaksExpire ==
  suspended => \A i \in Instances :
    cache[i].cached /\ ~cache[i].suspended => cache[i].expiresAt <= since + MaxRead + Ttl

\* After an eviction that no older read outlives, the instance knows the row as it is.
Settled(i) ==
  evicted[i] /\ ~raced[i] =>
    /\ \A r \in reads : r.at = i /\ r.step = "read" => r.value = suspended
    /\ cache[i].cached => cache[i].suspended = suspended

Clock == ReadsReturn /\ MissesAreOld /\ EntriesExpire /\ LeaksExpire

IInv == SuspensionTypeOK /\ Clock /\ LockedOutInTime /\ \A i \in Instances : Settled(i)

-----------------------------------------------------------------------------
(* Type correctness                                                        *)

\* What a request that gets in adds to the record stays a time.
LEMMA AdmitTyped ==
  ASSUME SuspensionTypeOK, Admit \/ UNCHANGED latest
  PROVE  latest' \in 0..MaxTime
  BY TimesAssumption DEF SuspensionTypeOK, Admit, Larger

LEMMA RequestsTyped ==
  ASSUME SuspensionTypeOK, Authenticate
  PROVE  SuspensionTypeOK'
<1>1. CASE \E i \in Instances : Hit(i)
  BY <1>1, AdmitTyped DEF Hit, SuspensionTypeOK
<1>2. CASE \E i \in Instances : Miss(i)
  <2>1. PICK i \in Instances : Miss(i)
    BY <1>2
  <2>2. NoEntry \in Entry
    BY TimesAssumption DEF NoEntry, Entry
  <2>3. [at |-> i, step |-> "waiting", value |-> FALSE, began |-> now] \in Reading
    BY DEF Reading, SuspensionTypeOK
  <2> QED
    BY <2>1, <2>2, <2>3 DEF Miss, SuspensionTypeOK
<1>3. CASE \E r \in reads : ReadRow(r)
  <2>1. PICK r \in reads : ReadRow(r)
    BY <1>3
  <2>2. [r EXCEPT !.step = "read", !.value = suspended] \in Reading
    BY DEF Reading, SuspensionTypeOK
  <2> QED
    BY <2>1, <2>2 DEF ReadRow, SuspensionTypeOK
<1>4. CASE \E r \in reads : FinishRead(r)
  <2>1. PICK r \in reads : FinishRead(r)
    BY <1>4
  <2>2. r.at \in Instances /\ r.value \in BOOLEAN
    BY DEF Reading, SuspensionTypeOK
  <2>3. [cached |-> TRUE, suspended |-> r.value, expiresAt |-> now + Ttl] \in Entry
    BY <2>2, TimesAssumption DEF Entry, SuspensionTypeOK
  <2>4. latest' \in 0..MaxTime
    BY <2>1, AdmitTyped DEF FinishRead
  <2> QED
    BY <2>1, <2>2, <2>3, <2>4 DEF FinishRead, SuspensionTypeOK
<1> QED
  BY <1>1, <1>2, <1>3, <1>4 DEF Authenticate

\* Evicting leaves typed entries and flags.
LEMMA EvictingTyped ==
  ASSUME SuspensionTypeOK, NEW i \in Instances, Evicting(i)
  PROVE  /\ cache' \in [Instances -> Entry]
         /\ evicted' \in [Instances -> BOOLEAN]
         /\ raced' \in [Instances -> BOOLEAN]
<1>1. NoEntry \in Entry
  BY TimesAssumption DEF NoEntry, Entry
<1>2. (Stale(i) # {}) \in BOOLEAN
  OBVIOUS
<1> QED
  BY <1>1, <1>2 DEF SuspensionTypeOK, Evicting, Evict

LEMMA SuspendingTyped ==
  ASSUME SuspensionTypeOK, SuspendUser
  PROVE  SuspensionTypeOK'
<1>1. CASE \E i \in Instances, value \in BOOLEAN : StartFlip(i, value)
  <2>1. PICK i \in Instances, value \in BOOLEAN : StartFlip(i, value)
    BY <1>1
  <2>2. [at |-> i, value |-> value, step |-> "update"] \in Flip
    BY DEF Flip
  <2>3. flipped' \in 0..MaxFlips
    BY <2>1, LimitsAssumption DEF StartFlip, SuspensionTypeOK
  <2> QED
    BY <2>1, <2>2, <2>3 DEF StartFlip, SuspensionTypeOK
<1>2. CASE \E f \in flips : UpdateRow(f)
  <2>1. PICK f \in flips : UpdateRow(f)
    BY <1>2
  <2>2. [f EXCEPT !.step = "evict"] \in Flip /\ f.value \in BOOLEAN
    BY DEF Flip, SuspensionTypeOK
  <2>3. since' \in 0..now
    BY <2>1, <2>2 DEF UpdateRow, SuspensionTypeOK
  <2>4. evicted' \in [Instances -> BOOLEAN]
    BY <2>1 DEF UpdateRow, SuspensionTypeOK
  <2> QED
    BY <2>1, <2>2, <2>3, <2>4 DEF UpdateRow, SuspensionTypeOK
<1>3. CASE \E f \in flips : EvictHere(f)
  <2>1. PICK f \in flips : EvictHere(f)
    BY <1>3
  <2>2. [f EXCEPT !.step = "publish"] \in Flip /\ f.at \in Instances
    BY DEF Flip, SuspensionTypeOK
  <2> QED
    BY <2>1, <2>2, EvictingTyped DEF EvictHere, SuspensionTypeOK
<1>4. CASE \E f \in flips : Publish(f)
  BY <1>4 DEF Publish, SuspensionTypeOK
<1> QED
  BY <1>1, <1>2, <1>3, <1>4 DEF SuspendUser

LEMMA RestTyped ==
  ASSUME SuspensionTypeOK, (\E i \in Instances : Deliver(i) \/ Restart(i)) \/ Tick
  PROVE  SuspensionTypeOK'
<1>1. CASE \E i \in Instances : Deliver(i)
  BY <1>1, EvictingTyped DEF Deliver, SuspensionTypeOK
<1>2. CASE \E i \in Instances : Restart(i)
  <2>1. PICK i \in Instances : Restart(i)
    BY <1>2
  <2>2. NoEntry \in Entry
    BY TimesAssumption DEF NoEntry, Entry
  <2>3. crashes' \in 0..MaxCrashes
    BY <2>1, LimitsAssumption DEF Restart, SuspensionTypeOK
  <2>4. cache' \in [Instances -> Entry] /\ raced' \in [Instances -> BOOLEAN]
    BY <2>1, <2>2 DEF Restart, SuspensionTypeOK
  <2>5. subscribed' \subseteq Instances /\ mail' \subseteq Instances
        /\ reads' \subseteq Reading /\ flips' \subseteq Flip
    BY <2>1 DEF Restart, SuspensionTypeOK
  <2> QED
    BY <2>1, <2>3, <2>4, <2>5 DEF Restart, SuspensionTypeOK
<1>3. CASE Tick
  <2>1. now' \in 0..MaxTime /\ since \in 0..now'
    BY <1>3, TimesAssumption DEF Tick, SuspensionTypeOK
  <2> QED
    BY <1>3, <2>1 DEF Tick, SuspensionTypeOK
<1> QED
  BY <1>1, <1>2, <1>3

LEMMA StartsTyped == Init => SuspensionTypeOK
<1>1. NoEntry \in Entry
  BY TimesAssumption DEF NoEntry, Entry
<1>2. 0 \in 0..MaxTime /\ 0 \in 0..0 /\ 0 \in 0..MaxFlips /\ 0 \in 0..MaxCrashes
  BY TimesAssumption, LimitsAssumption
<1> QED
  BY <1>1, <1>2 DEF Init, SuspensionTypeOK

LEMMA StepsTyped ==
  ASSUME SuspensionTypeOK, [Next]_vars
  PROVE  SuspensionTypeOK'
<1>1. CASE UNCHANGED vars
  BY <1>1 DEF vars, SuspensionTypeOK
<1> QED
  BY <1>1, RequestsTyped, SuspendingTyped, RestTyped DEF Next

-----------------------------------------------------------------------------
(* The bound on the time                                                   *)

\* What the type invariant says of the numbers that the bound compares.
LEMMA Numbers ==
  ASSUME SuspensionTypeOK
  PROVE  /\ now \in Nat /\ since \in Nat /\ since <= now /\ latest \in Nat
         /\ Ttl \in Nat /\ MaxRead \in Nat
         /\ \A i \in Instances : cache[i].expiresAt \in Nat /\ cache[i].suspended \in BOOLEAN
                                 /\ cache[i].cached \in BOOLEAN
         /\ \A r \in reads : r.began \in Nat /\ r.at \in Instances /\ r.value \in BOOLEAN
  BY TimesAssumption DEF SuspensionTypeOK, Entry, Reading

\* A request that gets in no later than Ttl + MaxRead after the suspension.
LEMMA AdmittedInTime ==
  ASSUME SuspensionTypeOK, LockedOutInTime, Admit,
         suspended => now <= since + MaxRead + Ttl
  PROVE  LockedOutInTime'
<1>1. CASE suspended
  BY <1>1, Numbers DEF LockedOutInTime, Admit, Larger
<1>2. CASE ~suspended
  BY <1>2 DEF LockedOutInTime, Admit
<1> QED
  BY <1>1, <1>2

\* Entries and reads that are some of the old ones keep the bound.
LEMMA ClockKept ==
  ASSUME SuspensionTypeOK, Clock, UNCHANGED <<now, suspended, since>>, reads' \subseteq reads,
         \A i \in Instances : cache'[i] = cache[i] \/ cache'[i] = NoEntry
  PROVE  Clock'
<1>1. ReadsReturn' /\ MissesAreOld'
  BY DEF Clock, ReadsReturn, MissesAreOld
<1>2. \A i \in Instances : cache'[i].cached => cache'[i] = cache[i]
  BY DEF NoEntry
<1>3. EntriesExpire' /\ LeaksExpire'
  BY <1>2 DEF Clock, EntriesExpire, LeaksExpire
<1> QED
  BY <1>1, <1>3 DEF Clock

LEMMA RequestsInTime ==
  ASSUME SuspensionTypeOK, Clock, LockedOutInTime, Authenticate
  PROVE  Clock' /\ LockedOutInTime'
<1>1. ASSUME NEW i \in Instances, Hit(i)
      PROVE  Clock' /\ LockedOutInTime'
  <2>1. Clock'
    BY <1>1, ClockKept DEF Hit
  <2>2. CASE cache[i].suspended
    BY <1>1, <2>1, <2>2 DEF Hit, LockedOutInTime
  <2>3. CASE ~cache[i].suspended
    <3>1. suspended => now <= since + MaxRead + Ttl
      BY <1>1, <2>3, Numbers DEF Hit, Valid, Clock, LeaksExpire
    <3> QED
      BY <1>1, <2>1, <2>3, <3>1, AdmittedInTime DEF Hit
  <2> QED
    BY <2>1, <2>2, <2>3
<1>2. ASSUME NEW i \in Instances, Miss(i)
      PROVE  Clock' /\ LockedOutInTime'
  <2> DEFINE new == [at |-> i, step |-> "waiting", value |-> FALSE, began |-> now]
  <2>1. reads' = reads \cup {new} /\ UNCHANGED <<now, suspended, since, latest>>
    BY <1>2 DEF Miss
  <2>2. new.step = "waiting" /\ new.began = now
    OBVIOUS
  <2> HIDE DEF new
  <2>3. ReadsReturn'
    BY <2>1, <2>2, Numbers DEF Clock, ReadsReturn
  <2>4. MissesAreOld'
    BY <2>1, <2>2 DEF Clock, MissesAreOld
  <2>5. \A j \in Instances : cache'[j].cached => cache'[j] = cache[j]
    BY <1>2 DEF Miss, NoEntry, SuspensionTypeOK
  <2>6. EntriesExpire' /\ LeaksExpire'
    BY <2>1, <2>5 DEF Clock, EntriesExpire, LeaksExpire
  <2> QED
    BY <2>1, <2>3, <2>4, <2>6 DEF Clock, LockedOutInTime
<1>3. ASSUME NEW r \in reads, ReadRow(r)
      PROVE  Clock' /\ LockedOutInTime'
  <2> DEFINE new == [r EXCEPT !.step = "read", !.value = suspended]
  <2>1. /\ reads' = (reads \ {r}) \cup {new}
        /\ UNCHANGED <<now, suspended, since, latest, cache>>
    BY <1>3 DEF ReadRow
  <2>2. new.began = r.began /\ new.value = suspended
    BY DEF SuspensionTypeOK, Reading
  <2> HIDE DEF new
  <2>3. ReadsReturn'
    BY <2>1, <2>2 DEF Clock, ReadsReturn
  <2>4. MissesAreOld'
    BY <2>1, <2>2 DEF Clock, MissesAreOld
  <2> QED
    BY <2>1, <2>3, <2>4 DEF Clock, LockedOutInTime, EntriesExpire, LeaksExpire
<1>4. ASSUME NEW r \in reads, FinishRead(r)
      PROVE  Clock' /\ LockedOutInTime'
  <2>1. reads' \subseteq reads /\ UNCHANGED <<now, suspended, since>>
    BY <1>4 DEF FinishRead
  <2>2. r.at \in Instances /\ r.began <= now /\ now <= r.began + MaxRead /\ r.began \in Nat
    BY Numbers DEF Clock, ReadsReturn
  <2>3. /\ cache'[r.at] = [cached |-> TRUE, suspended |-> r.value, expiresAt |-> now + Ttl]
        /\ \A j \in Instances \ {r.at} : cache'[j] = cache[j]
    BY <1>4, <2>2 DEF FinishRead, SuspensionTypeOK
  <2>4. suspended /\ ~r.value => now <= since + MaxRead
    BY <1>4, <2>2, Numbers DEF Clock, MissesAreOld, FinishRead
  <2>5. ReadsReturn' /\ MissesAreOld'
    BY <2>1 DEF Clock, ReadsReturn, MissesAreOld
  <2>6. EntriesExpire'
    BY <2>1, <2>2, <2>3, Numbers DEF Clock, EntriesExpire
  <2>7. LeaksExpire'
    BY <2>1, <2>2, <2>3, <2>4, Numbers DEF Clock, LeaksExpire
  <2>8. LockedOutInTime'
    <3>1. CASE r.value
      BY <1>4, <3>1 DEF FinishRead, LockedOutInTime
    <3>2. CASE ~r.value
      <4>1. suspended => now <= since + MaxRead + Ttl
        BY <2>4, <3>2, Numbers
      <4> QED
        BY <1>4, <3>2, <4>1, AdmittedInTime DEF FinishRead
    <3> QED
      BY <3>1, <3>2
  <2> QED
    BY <2>5, <2>6, <2>7, <2>8 DEF Clock
<1> QED
  BY <1>1, <1>2, <1>3, <1>4 DEF Authenticate

LEMMA SuspendingInTime ==
  ASSUME SuspensionTypeOK, Clock, LockedOutInTime, SuspendUser
  PROVE  Clock' /\ LockedOutInTime'
<1>1. CASE \E i \in Instances, value \in BOOLEAN : StartFlip(i, value)
  BY <1>1, ClockKept DEF StartFlip, LockedOutInTime
<1>2. CASE \E f \in flips : UpdateRow(f)
  <2>1. PICK f \in flips : UpdateRow(f)
    BY <1>2
  <2>2. UNCHANGED <<now, cache, reads, latest>>
    BY <2>1 DEF UpdateRow
  <2>3. suspended' => (since' = now \/ (suspended /\ since' = since))
    BY <2>1 DEF UpdateRow
  <2>4. MissesAreOld'
    BY <2>2, <2>3 DEF Clock, ReadsReturn, MissesAreOld
  <2>5. LeaksExpire'
    BY <2>2, <2>3, Numbers DEF Clock, EntriesExpire, LeaksExpire
  <2> QED
    BY <2>2, <2>4, <2>5 DEF Clock, ReadsReturn, EntriesExpire, LockedOutInTime
<1>3. CASE \E f \in flips : EvictHere(f)
  BY <1>3, ClockKept DEF EvictHere, Evicting, Evict, LockedOutInTime, SuspensionTypeOK
<1>4. CASE \E f \in flips : Publish(f)
  BY <1>4, ClockKept DEF Publish, LockedOutInTime
<1> QED
  BY <1>1, <1>2, <1>3, <1>4 DEF SuspendUser

LEMMA RestInTime ==
  ASSUME SuspensionTypeOK, Clock, LockedOutInTime,
         (\E i \in Instances : Deliver(i) \/ Restart(i)) \/ Tick
  PROVE  Clock' /\ LockedOutInTime'
<1>1. CASE \E i \in Instances : Deliver(i)
  BY <1>1, ClockKept DEF Deliver, Evicting, Evict, LockedOutInTime, SuspensionTypeOK
<1>2. CASE \E i \in Instances : Restart(i)
  BY <1>2, ClockKept DEF Restart, LockedOutInTime, SuspensionTypeOK
<1>3. CASE Tick
  <2>1. now' = now + 1 /\ UNCHANGED <<suspended, since, cache, reads, latest>>
    BY <1>3 DEF Tick
  <2>2. ReadsReturn'
    BY <1>3, <2>1, Numbers DEF Tick, Clock, ReadsReturn
  <2>3. EntriesExpire'
    BY <2>1, Numbers DEF Clock, EntriesExpire
  <2> QED
    BY <2>1, <2>2, <2>3 DEF Clock, MissesAreOld, LeaksExpire, LockedOutInTime
<1> QED
  BY <1>1, <1>2, <1>3

-----------------------------------------------------------------------------
(* What an eviction settles                                                *)

\* An instance whose reads, entry and flags are left alone stays settled.
LEMMA SettledKept ==
  ASSUME NEW i \in Instances, Settled(i), UNCHANGED suspended, reads' \subseteq reads,
         cache'[i] = cache[i], evicted'[i] => evicted[i], raced'[i] = raced[i]
  PROVE  Settled(i)'
  BY DEF Settled

LEMMA RequestsSettled ==
  ASSUME SuspensionTypeOK, NEW i \in Instances, Settled(i), Authenticate
  PROVE  Settled(i)'
<1>1. CASE \E j \in Instances : Hit(j)
  BY <1>1, SettledKept DEF Hit
<1>2. CASE \E j \in Instances : Miss(j)
  <2>1. PICK j \in Instances : Miss(j)
    BY <1>2
  <2> DEFINE new == [at |-> j, step |-> "waiting", value |-> FALSE, began |-> now]
  <2>2. reads' = reads \cup {new} /\ UNCHANGED <<suspended, evicted, raced>>
    BY <2>1 DEF Miss
  <2>3. new.step # "read"
    OBVIOUS
  <2>4. cache'[i].cached => cache'[i] = cache[i]
    BY <2>1 DEF Miss, NoEntry, SuspensionTypeOK
  <2> HIDE DEF new
  <2> QED
    BY <2>2, <2>3, <2>4 DEF Settled
<1>3. CASE \E r \in reads : ReadRow(r)
  <2>1. PICK r \in reads : ReadRow(r)
    BY <1>3
  <2> DEFINE new == [r EXCEPT !.step = "read", !.value = suspended]
  <2>2. reads' = (reads \ {r}) \cup {new} /\ UNCHANGED <<suspended, evicted, raced, cache>>
    BY <2>1 DEF ReadRow
  <2>3. new.value = suspended
    BY DEF SuspensionTypeOK, Reading
  <2> HIDE DEF new
  <2> QED
    BY <2>2, <2>3 DEF Settled
<1>4. CASE \E r \in reads : FinishRead(r)
  <2>1. PICK r \in reads : FinishRead(r)
    BY <1>4
  <2>2. reads' \subseteq reads /\ UNCHANGED <<suspended, evicted, raced>> /\ r.step = "read"
    BY <2>1 DEF FinishRead
  <2>3. CASE r.at = i
    <3>1. cache'[i].suspended = r.value
      BY <2>1, <2>3 DEF FinishRead, SuspensionTypeOK
    <3> QED
      BY <2>2, <2>3, <3>1 DEF Settled
  <2>4. CASE r.at # i
    <3>1. cache'[i] = cache[i]
      BY <2>1, <2>4 DEF FinishRead, SuspensionTypeOK
    <3> QED
      BY <2>2, <3>1 DEF Settled
  <2> QED
    BY <2>3, <2>4
<1> QED
  BY <1>1, <1>2, <1>3, <1>4 DEF Authenticate

\* Evicting settles its instance and leaves the others alone.
LEMMA EvictingSettles ==
  ASSUME SuspensionTypeOK, NEW i \in Instances, Settled(i), NEW j \in Instances, Evicting(j),
         UNCHANGED <<suspended, reads>>
  PROVE  Settled(i)'
<1>1. CASE i = j
  <2>1. ~cache'[i].cached /\ raced'[i] = (Stale(i) # {})
    BY <1>1 DEF Evicting, Evict, NoEntry, SuspensionTypeOK
  <2> QED
    BY <2>1 DEF Settled, Stale
<1>2. CASE i # j
  BY <1>2, SettledKept DEF Evicting, SuspensionTypeOK
<1> QED
  BY <1>1, <1>2

LEMMA SuspendingSettled ==
  ASSUME SuspensionTypeOK, NEW i \in Instances, Settled(i), SuspendUser
  PROVE  Settled(i)'
<1>1. CASE \E j \in Instances, value \in BOOLEAN : StartFlip(j, value)
  BY <1>1, SettledKept DEF StartFlip
<1>2. CASE \E f \in flips : UpdateRow(f)
  <2>1. PICK f \in flips : UpdateRow(f)
    BY <1>2
  <2>2. CASE f.value = suspended
    BY <2>1, <2>2 DEF UpdateRow, Settled
  <2>3. CASE f.value # suspended
    BY <2>1, <2>3 DEF UpdateRow, Settled
  <2> QED
    BY <2>2, <2>3
<1>3. CASE \E f \in flips : EvictHere(f)
  <2>1. PICK f \in flips : EvictHere(f)
    BY <1>3
  <2>2. f.at \in Instances
    BY DEF SuspensionTypeOK, Flip
  <2> QED
    BY <2>1, <2>2, EvictingSettles DEF EvictHere
<1>4. CASE \E f \in flips : Publish(f)
  BY <1>4, SettledKept DEF Publish
<1> QED
  BY <1>1, <1>2, <1>3, <1>4 DEF SuspendUser

LEMMA RestSettled ==
  ASSUME SuspensionTypeOK, NEW i \in Instances, Settled(i),
         (\E j \in Instances : Deliver(j) \/ Restart(j)) \/ Tick
  PROVE  Settled(i)'
<1>1. CASE \E j \in Instances : Deliver(j)
  BY <1>1, EvictingSettles DEF Deliver
<1>2. CASE \E j \in Instances : Restart(j)
  <2>1. PICK j \in Instances : Restart(j)
    BY <1>2
  <2>2. CASE i = j
    BY <2>1, <2>2 DEF Restart, Settled, NoEntry, SuspensionTypeOK
  <2>3. CASE i # j
    BY <2>1, <2>3, SettledKept DEF Restart, SuspensionTypeOK
  <2> QED
    BY <2>2, <2>3
<1>3. CASE Tick
  BY <1>3, SettledKept DEF Tick
<1> QED
  BY <1>1, <1>2, <1>3

-----------------------------------------------------------------------------
LEMMA Starts == Init => IInv
<1>1. Init => Clock /\ LockedOutInTime /\ \A i \in Instances : Settled(i)
  BY TimesAssumption DEF Init, Clock, ReadsReturn, MissesAreOld, EntriesExpire, LeaksExpire,
     LockedOutInTime, Settled, NoEntry
<1> QED
  BY <1>1, StartsTyped DEF IInv

LEMMA Steps == IInv /\ [Next]_vars => IInv'
<1> SUFFICES ASSUME IInv, [Next]_vars
             PROVE  IInv'
  OBVIOUS
<1>1. SuspensionTypeOK'
  BY StepsTyped DEF IInv
<1>2. CASE UNCHANGED vars
  <2>1. Clock' /\ LockedOutInTime'
    BY <1>2 DEF IInv, vars, Clock, ReadsReturn, MissesAreOld, EntriesExpire, LeaksExpire,
       LockedOutInTime
  <2>2. \A i \in Instances : Settled(i)'
    BY <1>2 DEF IInv, vars, Settled
  <2> QED
    BY <1>1, <2>1, <2>2 DEF IInv
<1>3. CASE Next
  <2>1. Clock' /\ LockedOutInTime'
    BY <1>3, RequestsInTime, SuspendingInTime, RestInTime DEF Next, IInv
  <2>2. \A i \in Instances : Settled(i)'
    BY <1>3, RequestsSettled, SuspendingSettled, RestSettled DEF Next, IInv
  <2> QED
    BY <1>1, <2>1, <2>2 DEF IInv
<1> QED
  BY <1>2, <1>3

\* The cache entries, reads, suspensions and messages are what the code makes them.
THEOREM SuspensionTyped == Spec => []SuspensionTypeOK
<1>1. IInv => SuspensionTypeOK
  BY DEF IInv
<1> QED
  BY <1>1, Starts, Steps, PTL DEF Spec

\* However many instances there are and whatever is lost, no request of a suspended user
\* gets in later than Ttl + MaxRead after the suspension (auth.middleware.ts:21-24).
THEOREM SuspensionsTakeHold == Spec => []LockedOutInTime
<1>1. IInv => LockedOutInTime
  BY DEF IInv
<1> QED
  BY <1>1, Starts, Steps, PTL DEF Spec

\* An eviction that no older read outlives settles the matter for its instance
\* (index.ts:110-115, admin.service.ts:84-108).
THEOREM EvictionsSettle == Spec => []EvictionSettles
<1>1. IInv => EvictionSettles
  BY DEF IInv, Settled, EvictionSettles, Valid
<1> QED
  BY <1>1, Starts, Steps, PTL DEF Spec

-----------------------------------------------------------------------------
(* The window of the fraud detector: FraudWindow                           *)

CONSTANTS Bidders, Auctions, Seller, Window, FirstBid, LastTime, MaxBids
VARIABLES clock, bids, detectors, auctionBids, bidderHistory, features, arrived, newest

BidGraph == INSTANCE FraudWindow WITH now <- clock, MaxTime <- LastTime

\* Events arrive in the order of their times, none after now.
InOrder ==
  /\ IsFiniteSet(arrived)
  /\ \A e \in arrived : e.ts <= newest
  /\ newest <= clock

WindowInv == BidGraph!WindowTypeOK /\ InOrder /\ BidGraph!WindowExact

\* The events that belong to a key and are not older than the window before ts.
AuctionOf == [e \in BidGraph!Event |-> e.auction]
BidderOf  == [e \in BidGraph!Event |-> e.bidder]
Slice(events, owner, key, ts) == {e \in events : owner[e] = key /\ e.ts >= ts - Window}

\* The constructor of the graph leaves both maps empty.
LEMMA StartsExact == BidGraph!Init => WindowInv
BY FS_EmptySet DEF BidGraph!Init, WindowInv, BidGraph!WindowTypeOK, InOrder,
   BidGraph!WindowExact, BidGraph!NoEvents, BidGraph!Within

\* What add leaves in a map that held the window (fraud.graph.ts:28-41, 106-121).
LEMMA AddKeepsWindow ==
  ASSUME Window \in Nat, arrived \subseteq BidGraph!Event, newest \in Nat,
         \A e \in arrived : e.ts <= newest,
         NEW map, NEW owner, NEW event \in BidGraph!Event, newest <= event.ts,
         map = [k \in DOMAIN map |-> Slice(arrived, owner, k, newest)]
  PROVE  BidGraph!AddTo(map, owner[event], event)
           = [k \in DOMAIN map |-> Slice(arrived \cup {event}, owner, k, event.ts)]
<1>1. \A e \in BidGraph!Event : e.ts \in Nat
  BY DEF BidGraph!Event
<1>2. ASSUME NEW k \in DOMAIN map
      PROVE  BidGraph!Recent(map[k], event.ts) \cup (IF k = owner[event] THEN {event} ELSE {})
               = Slice(arrived \cup {event}, owner, k, event.ts)
  <2>1. map[k] = Slice(arrived, owner, k, newest)
    OBVIOUS
  <2>2. BidGraph!Recent(map[k], event.ts) = Slice(arrived, owner, k, event.ts)
    BY <1>1, <2>1 DEF BidGraph!Recent, Slice
  <2>3. event.ts >= event.ts - Window
    BY <1>1
  <2> QED
    BY <2>2, <2>3 DEF Slice
<1> QED
  BY <1>2 DEF BidGraph!AddTo

\* Everything but onBid and a restart leaves the graph alone.
LEMMA OthersKeepWindow ==
  ASSUME WindowInv,
         UNCHANGED <<auctionBids, bidderHistory, arrived, newest>>,
         clock' \in Nat, clock <= clock', bids' \in Nat, detectors' \subseteq BidGraph!Detector
  PROVE  WindowInv'
BY DEF WindowInv, BidGraph!WindowTypeOK, InOrder, BidGraph!WindowExact, BidGraph!Within

\* onBid: the event is the newest of all, and both maps are the window it ends.
LEMMA OnBidKeepsWindow ==
  ASSUME WindowInv, Window \in Nat, NEW d \in detectors, BidGraph!OnBid(d)
  PROVE  WindowInv'
<1> DEFINE event == [n |-> Cardinality(arrived) + 1, bid |-> d.bid, auction |-> d.auction,
                     bidder |-> d.bidder, ts |-> clock]
<1>1. event \in BidGraph!Event /\ event.ts = clock /\ clock \in Nat
  BY FS_CardinalityType DEF WindowInv, BidGraph!WindowTypeOK, InOrder, BidGraph!Event,
     BidGraph!Detector
<1>2. /\ arrived' = arrived \cup {event}
      /\ newest' = clock
      /\ auctionBids' = BidGraph!AddTo(auctionBids, AuctionOf[event], event)
      /\ bidderHistory' = BidGraph!AddTo(bidderHistory, BidderOf[event], event)
  <2>1. BidGraph!Cardinality(arrived) = Cardinality(arrived)
    BY DEF BidGraph!Cardinality, Cardinality
  <2> QED
    BY <1>1, <2>1 DEF BidGraph!OnBid, AuctionOf, BidderOf
<1> HIDE DEF event
<1>3. /\ newest <= event.ts
      /\ newest \in Nat
      /\ \A e \in arrived : e.ts <= newest
      /\ arrived \in SUBSET BidGraph!Event
  BY <1>1 DEF WindowInv, InOrder, BidGraph!WindowTypeOK
<1>4. auctionBids' = [a \in Auctions |-> Slice(arrived \cup {event}, AuctionOf, a, event.ts)]
  <2>1. DOMAIN auctionBids = Auctions
    BY DEF WindowInv, BidGraph!WindowTypeOK
  <2>2. auctionBids = [a \in DOMAIN auctionBids |-> Slice(arrived, AuctionOf, a, newest)]
    BY <1>3, <2>1 DEF WindowInv, BidGraph!WindowTypeOK, BidGraph!WindowExact, BidGraph!Within,
       Slice, AuctionOf
  <2> QED
    BY <1>1, <1>2, <1>3, <2>1, <2>2, AddKeepsWindow
<1>5. bidderHistory' = [u \in Bidders |-> Slice(arrived \cup {event}, BidderOf, u, event.ts)]
  <2>1. DOMAIN bidderHistory = Bidders
    BY DEF WindowInv, BidGraph!WindowTypeOK
  <2>2. bidderHistory = [u \in DOMAIN bidderHistory |-> Slice(arrived, BidderOf, u, newest)]
    BY <1>3, <2>1 DEF WindowInv, BidGraph!WindowTypeOK, BidGraph!WindowExact, BidGraph!Within,
       Slice, BidderOf
  <2>3. BidGraph!AddTo(bidderHistory, BidderOf[event], event)
          = [u \in DOMAIN bidderHistory |-> Slice(arrived \cup {event}, BidderOf, u, event.ts)]
    BY <1>1, <1>3, <2>2, AddKeepsWindow
  <2> QED
    BY <1>2, <2>1, <2>3
<1>6. BidGraph!WindowTypeOK'
  BY <1>1, <1>2, <1>3, <1>4, <1>5 DEF BidGraph!OnBid, WindowInv, BidGraph!WindowTypeOK, Slice
<1>7. InOrder'
  <2>1. IsFiniteSet(arrived')
    BY <1>2, FS_AddElement DEF WindowInv, InOrder
  <2>2. \A e \in arrived' : e.ts <= newest'
    BY <1>1, <1>2, <1>3 DEF BidGraph!Event
  <2>3. newest' <= clock'
    BY <1>1 DEF BidGraph!OnBid
  <2> QED
    BY <2>1, <2>2, <2>3 DEF InOrder
<1>8. BidGraph!WindowExact'
  <2>1. \A e \in arrived \cup {event} : AuctionOf[e] = e.auction /\ BidderOf[e] = e.bidder
    BY <1>1, <1>3 DEF AuctionOf, BidderOf
  <2>2. \A a \in Auctions : auctionBids'[a] = {e \in arrived' : e.auction = a
        /\ BidGraph!Within(e)'}
    BY <1>1, <1>2, <1>3, <1>4, <2>1 DEF Slice, BidGraph!Within
  <2>3. \A u \in Bidders : bidderHistory'[u] = {e \in arrived' : e.bidder = u
        /\ BidGraph!Within(e)'}
    BY <1>1, <1>2, <1>3, <1>5, <2>1 DEF Slice, BidGraph!Within
  <2> QED
    BY <2>2, <2>3 DEF BidGraph!WindowExact
<1> QED
  BY <1>6, <1>7, <1>8 DEF WindowInv

\* Each step of the process.
LEMMA StepsKeepWindow ==
  ASSUME WindowInv, Window \in Nat, [BidGraph!Next]_(BidGraph!vars)
  PROVE  WindowInv'
<1> USE DEF WindowInv
<1>1. ASSUME NEW u \in Bidders, NEW a \in Auctions, BidGraph!PlaceBid(u, a)
      PROVE  WindowInv'
  <2>1. detectors' \subseteq BidGraph!Detector /\ bids' \in Nat /\ clock' \in Nat
        /\ clock <= clock'
    BY <1>1 DEF BidGraph!PlaceBid, BidGraph!WindowTypeOK, BidGraph!Detector
  <2> QED
    BY <1>1, <2>1, OthersKeepWindow DEF BidGraph!PlaceBid
<1>2. ASSUME NEW d \in detectors, BidGraph!OnBid(d)
      PROVE  WindowInv'
  BY <1>2, OnBidKeepsWindow
<1>3. ASSUME NEW d \in detectors, BidGraph!ReadFails(d)
      PROVE  WindowInv'
  BY <1>3, OthersKeepWindow DEF BidGraph!ReadFails, BidGraph!WindowTypeOK
<1>4. CASE BidGraph!Tick
  BY <1>4, OthersKeepWindow DEF BidGraph!Tick, BidGraph!WindowTypeOK
<1>5. CASE BidGraph!Restart
  BY <1>5, FS_EmptySet DEF BidGraph!Restart, BidGraph!NoEvents, BidGraph!WindowTypeOK, InOrder,
     BidGraph!WindowExact, BidGraph!Within
<1>6. CASE UNCHANGED BidGraph!vars
  BY <1>6, OthersKeepWindow DEF BidGraph!vars, BidGraph!WindowTypeOK
<1> QED
  BY <1>1, <1>2, <1>3, <1>4, <1>5, <1>6 DEF BidGraph!Next

\* The graph always holds exactly the bids of the window, and both of its maps the same
\* ones (fraud.graph.ts:4-14), whatever detectors overtake, fail or die.
THEOREM WindowAlwaysExact ==
  ASSUME Window \in Nat
  PROVE  BidGraph!Spec => []BidGraph!WindowExact
<1>1. BidGraph!Init => WindowInv
  BY StartsExact
<1>2. WindowInv /\ [BidGraph!Next]_(BidGraph!vars) => WindowInv'
  BY StepsKeepWindow
<1>3. WindowInv => BidGraph!WindowExact
  BY DEF WindowInv
<1> QED
  BY <1>1, <1>2, <1>3, PTL DEF BidGraph!Spec

-----------------------------------------------------------------------------
(* The order of the row locks: RowLocks                                    *)

CONSTANTS Users, Txs
VARIABLES tx, held

Locks == INSTANCE RowLocks


Transaction == [now: SUBSET Locks!Rows, later: SUBSET Locks!Rows]

LocksTyped == tx \in [Txs -> Transaction] /\ held \in [Txs -> SUBSET Locks!Rows]

\* Rows of a transaction differ in rank: at most one is an auction.
Distinct(rows) == \A r, q \in rows : Locks!Rank(r) = Locks!Rank(q) => r = q

\* What t holds belongs to its sequence and comes before what it has yet to lock.
InSequence(t) ==
  /\ Distinct(tx[t].now)
  /\ held[t] \subseteq tx[t].now
  /\ \A h \in held[t], r \in Locks!Todo(t) : Locks!Rank(h) < Locks!Rank(r)

LockInv == LocksTyped /\ \A t \in Txs : tx[t].later = {} => InSequence(t)

-----------------------------------------------------------------------------
\* A set of natural numbers that is not empty has a least member.
LEMMA LeastNumber ==
  ASSUME NEW S, S \subseteq Nat, S # {}
  PROVE  \E x \in S : \A y \in S : x <= y
<1>1. PICK x \in S : \A y \in S : ~ (<<y, x>> \in OpToRel(<, Nat))
  BY NatLessThanWellFounded, WFMin
<1>2. \A y \in S : ~ (y < x)
  BY <1>1 DEF OpToRel
<1> QED
  BY <1>2

\* The rank of a row is a natural number; rows of equal rank are one row or auctions.
LEMMA RowRanks ==
  ASSUME Users \subseteq Nat
  PROVE  /\ \A r \in Locks!Rows : Locks!Rank(r) \in Nat
         /\ \A a \in Auctions : Locks!Rank(Locks!AuctionRow(a)) = 0
         /\ \A u \in Users : Locks!Rank(Locks!WalletRow(u)) = u + 1
<1>1. \A a \in Auctions : Locks!Rank(Locks!AuctionRow(a)) = 0
  BY DEF Locks!Rank, Locks!AuctionRow
<1>2. \A u \in Users : Locks!Rank(Locks!WalletRow(u)) = u + 1
  BY DEF Locks!Rank, Locks!WalletRow
<1>3. ASSUME NEW r \in Locks!Rows
      PROVE  Locks!Rank(r) \in Nat
  <2>1. CASE \E a \in Auctions : r = Locks!AuctionRow(a)
    BY <1>1, <2>1
  <2>2. CASE \E u \in Users : r = Locks!WalletRow(u)
    <3>1. PICK u \in Users : r = Locks!WalletRow(u)
      BY <2>2
    <3>2. u \in Nat /\ Locks!Rank(r) = u + 1
      BY <1>2, <3>1
    <3> QED
      BY <3>2
  <2> QED
    BY <2>1, <2>2 DEF Locks!Rows
<1> QED
  BY <1>1, <1>2, <1>3

\* One auction and any wallets have distinct ranks.
LEMMA OneAuctionIsDistinct ==
  ASSUME Users \subseteq Nat, NEW a \in Auctions, NEW who \in SUBSET Users
  PROVE  /\ Distinct({Locks!AuctionRow(a)} \cup Locks!WalletsOf(who))
         /\ {Locks!AuctionRow(a)} \cup Locks!WalletsOf(who) \subseteq Locks!Rows
<1>1. {Locks!AuctionRow(a)} \cup Locks!WalletsOf(who) \subseteq Locks!Rows
  BY DEF Locks!Rows, Locks!WalletsOf
<1>2. ASSUME NEW r \in {Locks!AuctionRow(a)} \cup Locks!WalletsOf(who),
             NEW q \in {Locks!AuctionRow(a)} \cup Locks!WalletsOf(who),
               Locks!Rank(r) = Locks!Rank(q)
      PROVE  r = q
  <2>1. CASE r = Locks!AuctionRow(a) /\ q = Locks!AuctionRow(a)
    BY <2>1
  <2>2. ASSUME NEW u \in who
        PROVE  u \in Nat /\ Locks!Rank(Locks!WalletRow(u)) = u + 1
          /\ Locks!Rank(Locks!AuctionRow(a)) = 0
    BY RowRanks
  <2>3. CASE \E u \in who : r = Locks!WalletRow(u) /\ q = Locks!AuctionRow(a)
    BY <1>2, <2>2, <2>3
  <2>4. CASE \E u \in who : q = Locks!WalletRow(u) /\ r = Locks!AuctionRow(a)
    BY <1>2, <2>2, <2>4
  <2>5. CASE \E u, v \in who : r = Locks!WalletRow(u) /\ q = Locks!WalletRow(v)
    <3>1. PICK u \in who, v \in who : r = Locks!WalletRow(u) /\ q = Locks!WalletRow(v)
      BY <2>5
    <3>2. u = v
      BY <1>2, <2>2, <3>1
    <3> QED
      BY <3>1, <3>2
  <2> QED
    BY <2>1, <2>3, <2>4, <2>5 DEF Locks!WalletsOf
<1> QED
  BY <1>1, <1>2 DEF Distinct

\* Every transaction is typed, and one without a second stage has distinct rows.
LEMMA TransactionShapes ==
  ASSUME Users \subseteq Nat, NEW p \in Locks!Transactions
  PROVE  p \in Transaction /\ (p.later = {} => Distinct(p.now))
<1> DEFINE Shaped(rows) == rows \subseteq Locks!Rows /\ Distinct(rows)
<1>1. ASSUME NEW rows, Shaped(rows), p = Locks!Ordered(rows)
      PROVE  p \in Transaction /\ (p.later = {} => Distinct(p.now))
  BY <1>1 DEF Locks!Ordered, Locks!Staged, Transaction
<1>2. ASSUME NEW a \in Auctions, NEW who \in SUBSET Users
      PROVE  Shaped({Locks!AuctionRow(a)} \cup Locks!WalletsOf(who))
  BY OneAuctionIsDistinct
<1>3. CASE p \in {Locks!PlaceBid(a, b, q) : a \in Auctions, b \in Users, q \in Users}
  <2>1. PICK a \in Auctions, b \in Users, q \in Users : p = Locks!PlaceBid(a, b, q)
    BY <1>3
  <2>2. Shaped({Locks!AuctionRow(a)} \cup Locks!WalletsOf({b, q}))
    BY <1>2
  <2> HIDE DEF Shaped
  <2> QED
    BY <1>1, <2>1, <2>2 DEF Locks!PlaceBid
<1>4. CASE p \in {Locks!AcceptPrice(a, b, s) : a \in Auctions, b \in Users, s \in Users}
  <2>1. PICK a \in Auctions, b \in Users, s \in Users : p = Locks!AcceptPrice(a, b, s)
    BY <1>4
  <2>2. p = [now |-> {Locks!AuctionRow(a), Locks!WalletRow(b)},
        later |-> {Locks!WalletRow(u) : u \in {b, s}}]
    BY <2>1 DEF Locks!AcceptPrice, Locks!Staged, Locks!WalletsOf
  <2>3. Locks!WalletRow(b) \in p.later
    BY <2>2
  <2>4. p \in Transaction
    BY <2>2 DEF Transaction, Locks!Rows
  <2> QED
    BY <2>3, <2>4
<1>5. CASE p \in {Locks!Settlement(a, q, s) : a \in Auctions, q \in Users, s \in Users}
  <2>1. PICK a \in Auctions, q \in Users, s \in Users : p = Locks!Settlement(a, q, s)
    BY <1>5
  <2>2. Shaped({Locks!AuctionRow(a)} \cup Locks!WalletsOf({q, s}))
    BY <1>2
  <2> HIDE DEF Shaped
  <2> QED
    BY <1>1, <2>1, <2>2 DEF Locks!Settlement
<1>6. CASE p \in {Locks!WithBidders(a, who) : a \in Auctions, who \in SUBSET Users}
  <2>1. PICK a \in Auctions, who \in SUBSET Users : p = Locks!WithBidders(a, who)
    BY <1>6
  <2>2. Shaped({Locks!AuctionRow(a)} \cup Locks!WalletsOf(who))
    BY <1>2
  <2> HIDE DEF Shaped
  <2> QED
    BY <1>1, <2>1, <2>2 DEF Locks!WithBidders
<1>7. CASE p \in {Locks!AuctionOnly(a) : a \in Auctions}
  <2>1. PICK a \in Auctions : p = Locks!AuctionOnly(a)
    BY <1>7
  <2>2. Shaped({Locks!AuctionRow(a)} \cup Locks!WalletsOf({}))
    BY <1>2
  <2>3. Shaped({Locks!AuctionRow(a)})
    BY <2>2 DEF Distinct
  <2> HIDE DEF Shaped
  <2> QED
    BY <1>1, <2>1, <2>3 DEF Locks!AuctionOnly
<1>8. CASE p \in {Locks!WalletsOnly(who) : who \in SUBSET Users \ {{}}}
  <2>1. PICK who \in SUBSET Users \ {{}} : p = Locks!WalletsOnly(who)
    BY <1>8
  <2>2. Shaped(Locks!WalletsOf(who))
    <3>1. Locks!WalletsOf(who) \subseteq Locks!Rows
      BY DEF Locks!WalletsOf, Locks!Rows
    <3>2. ASSUME NEW r \in Locks!WalletsOf(who), NEW q \in Locks!WalletsOf(who),
                 Locks!Rank(r) = Locks!Rank(q)
          PROVE  r = q
      <4>1. PICK u \in who, v \in who : r = Locks!WalletRow(u) /\ q = Locks!WalletRow(v)
        BY DEF Locks!WalletsOf
      <4>2. u \in Nat /\ v \in Nat /\ Locks!Rank(r) = u + 1 /\ Locks!Rank(q) = v + 1
        BY <4>1, RowRanks
      <4>3. u + 1 = v + 1
        BY <3>2, <4>2
      <4>4. u = v
        BY <4>2, <4>3
      <4> QED
        BY <4>1, <4>4
    <3> QED
      BY <3>1, <3>2 DEF Distinct
  <2> HIDE DEF Shaped
  <2> QED
    BY <1>1, <2>1, <2>2 DEF Locks!WalletsOnly
<1> HIDE DEF Shaped
<1> QED
  BY <1>3, <1>4, <1>5, <1>6, <1>7, <1>8 DEF Locks!Transactions

-----------------------------------------------------------------------------
\* The strengthening holds at first.
LEMMA StartsInSequence == Locks!Init => LockInv
  BY DEF Locks!Init, LockInv, LocksTyped, InSequence, Locks!Todo, Locks!NoTx, Locks!Ordered,
         Locks!Staged, Transaction, Distinct

\* Beginning a transaction: it holds nothing yet.
LEMMA BeginKeeps ==
  ASSUME Users \subseteq Nat, LockInv, NEW t \in Txs, NEW p \in Locks!Transactions,
    Locks!Begin(t, p)
  PROVE  LockInv'
<1>1. p \in Transaction /\ (p.later = {} => Distinct(p.now))
  BY TransactionShapes
<1>2. LocksTyped'
  BY <1>1 DEF LockInv, LocksTyped, Locks!Begin
<1>3. ASSUME NEW u \in Txs, (tx[u].later = {})'
      PROVE  InSequence(u)'
  <2>1. CASE u = t
    <3>1. tx[u] = Locks!NoTx /\ tx'[u] = p /\ held'[u] = held[u]
      BY <2>1 DEF Locks!Begin, LockInv, LocksTyped
    <3>2. held[u] = {}
      BY <3>1 DEF LockInv, InSequence, Locks!NoTx, Locks!Ordered, Locks!Staged
    <3>3. Distinct(p.now)
      BY <1>1, <1>3, <3>1
    <3> QED
      BY <3>1, <3>2, <3>3 DEF InSequence, Distinct
  <2>2. CASE u # t
    <3>1. tx'[u] = tx[u] /\ held'[u] = held[u]
      BY <2>2 DEF Locks!Begin, LockInv, LocksTyped
    <3> QED
      BY <1>3, <3>1 DEF LockInv, InSequence, Locks!Todo, Distinct
  <2> QED
    BY <2>1, <2>2
<1> QED
  BY <1>2, <1>3 DEF LockInv

\* Locking the next row: it is the least of those that are left.
LEMMA LockKeeps ==
  ASSUME Users \subseteq Nat, LockInv, NEW t \in Txs, NEW row \in Locks!Rows, Locks!Lock(t, row)
  PROVE  LockInv'
<1>1. LocksTyped'
  BY DEF LockInv, LocksTyped, Locks!Lock
<1>2. ASSUME NEW u \in Txs, (tx[u].later = {})'
      PROVE  InSequence(u)'
  <2>1. tx'[u] = tx[u] /\ InSequence(u)
    BY <1>2 DEF Locks!Lock, LockInv
  <2>2. CASE u = t
    <3>1. held'[u] = held[u] \cup {row}
      BY <2>2 DEF Locks!Lock, LockInv, LocksTyped
    <3>2. row \in Locks!Todo(u)
          /\ \A other \in Locks!Todo(u) : Locks!Rank(row) <= Locks!Rank(other)
      BY <2>2 DEF Locks!Lock, Locks!Wants
    <3>3. ASSUME NEW h \in held'[u], NEW r \in Locks!Todo(u)'
          PROVE  Locks!Rank(h) < Locks!Rank(r)
      <4>1. r \in Locks!Todo(u) /\ r # row
        BY <2>1, <3>1 DEF Locks!Todo
      <4>2. Locks!Rank(row) \in Nat /\ Locks!Rank(r) \in Nat
        BY <4>1, RowRanks DEF Locks!Todo, LockInv, LocksTyped, Transaction
      <4>3. Locks!Rank(row) # Locks!Rank(r)
        BY <2>1, <3>2, <4>1 DEF InSequence, Distinct, Locks!Todo
      <4>4. CASE h = row
        BY <3>2, <4>1, <4>2, <4>3, <4>4
      <4>5. CASE h \in held[u]
        BY <2>1, <4>1, <4>5 DEF InSequence
      <4> QED
        BY <3>1, <4>4, <4>5
    <3>4. held'[u] \subseteq tx[u].now
      BY <2>1, <3>1, <3>2 DEF InSequence, Locks!Todo
    <3> QED
      BY <2>1, <3>3, <3>4 DEF InSequence, Distinct
  <2>3. CASE u # t
    <3>1. held'[u] = held[u]
      BY <2>3 DEF Locks!Lock, LockInv, LocksTyped
    <3> QED
      BY <2>1, <3>1 DEF InSequence, Locks!Todo, Distinct
  <2> QED
    BY <2>2, <2>3
<1> QED
  BY <1>1, <1>2 DEF LockInv

\* The second stage is one of a transaction that has one.
LEMMA SecondStageKeeps ==
  ASSUME LockInv, NEW t \in Txs, Locks!SecondStage(t)
  PROVE  LockInv'
<1>1. tx[t] \in Transaction
  BY DEF LockInv, LocksTyped
<1>2. tx'[t].later = tx[t].later /\ tx'[t] \in Transaction
  BY <1>1 DEF Locks!SecondStage, LockInv, LocksTyped, Transaction
<1>3. \A u \in Txs \ {t} : tx'[u] = tx[u]
  BY DEF Locks!SecondStage, LockInv, LocksTyped
<1>4. LocksTyped'
  BY <1>2, <1>3 DEF Locks!SecondStage, LockInv, LocksTyped
<1>5. ASSUME NEW u \in Txs, (tx[u].later = {})'
      PROVE  InSequence(u)'
  <2>1. u # t
    BY <1>2, <1>5 DEF Locks!SecondStage
  <2>2. tx'[u] = tx[u] /\ held'[u] = held[u]
    BY <1>3, <2>1 DEF Locks!SecondStage
  <2> QED
    BY <1>5, <2>2 DEF LockInv, InSequence, Locks!Todo, Distinct
<1> QED
  BY <1>4, <1>5 DEF LockInv

\* Ending releases everything.
LEMMA EndKeeps ==
  ASSUME LockInv, NEW t \in Txs, Locks!End(t)
  PROVE  LockInv'
<1>1. Locks!NoTx \in Transaction /\ Locks!NoTx.now = {}
  BY DEF Locks!NoTx, Locks!Ordered, Locks!Staged, Transaction
<1>2. LocksTyped'
  BY <1>1 DEF LockInv, LocksTyped, Locks!End
<1>3. ASSUME NEW u \in Txs, (tx[u].later = {})'
      PROVE  InSequence(u)'
  <2>1. CASE u = t
    BY <1>1, <2>1 DEF Locks!End, LockInv, LocksTyped, InSequence, Locks!Todo, Distinct
  <2>2. CASE u # t
    <3>1. tx'[u] = tx[u] /\ held'[u] = held[u]
      BY <2>2 DEF Locks!End, LockInv, LocksTyped
    <3> QED
      BY <1>3, <3>1 DEF LockInv, InSequence, Locks!Todo, Distinct
  <2> QED
    BY <2>1, <2>2
<1> QED
  BY <1>2, <1>3 DEF LockInv

\* Every step keeps the strengthening.
LEMMA StepsInSequence ==
  ASSUME Users \subseteq Nat, LockInv, [Locks!Next]_(Locks!vars)
  PROVE  LockInv'
<1>1. CASE UNCHANGED Locks!vars
  BY <1>1 DEF Locks!vars, LockInv, LocksTyped, InSequence, Locks!Todo, Distinct
<1>2. CASE Locks!Next
  BY <1>2, BeginKeeps, LockKeeps, SecondStageKeeps, EndKeeps DEF Locks!Next
<1> QED
  BY <1>1, <1>2

\* Among transactions in sequence, one that waits for a row of the least rank cannot be
\* waited for: what it holds ranks lower.
LEMMA NoCycleInSequence ==
  ASSUME Users \subseteq Nat, LockInv, NEW cycle \in SUBSET Txs, Locks!WaitCycle(cycle)
  PROVE  \E t \in cycle : tx[t].later # {}
<1> SUFFICES ASSUME \A t \in cycle : tx[t].later = {}
             PROVE  FALSE
  OBVIOUS
<1> DEFINE Wanted == {Locks!Rank(r) : r \in {q \in Locks!Rows : \E t \in cycle : Locks!Wants(t,
    q)}}
<1>1. \A r \in Locks!Rows : Locks!Rank(r) \in Nat
  BY RowRanks
<1>2. Wanted \subseteq Nat
  BY <1>1
<1>3. Wanted # {}
  BY DEF Locks!WaitCycle, Locks!WaitsFor
<1> HIDE DEF Wanted
<1>4. PICK x \in Wanted : \A y \in Wanted : x <= y
  BY <1>2, <1>3, LeastNumber
<1> USE DEF Wanted
<1>5. PICK r \in Locks!Rows, t \in cycle : Locks!Wants(t, r) /\ x = Locks!Rank(r)
  BY <1>4
<1>6. PICK u \in cycle : Locks!WaitsFor(u, t)
  BY <1>5 DEF Locks!WaitCycle
<1>7. PICK q \in Locks!Rows : Locks!Wants(u, q) /\ q \in held[t]
  BY <1>6 DEF Locks!WaitsFor
<1>8. Locks!Rank(q) \in Wanted
  BY <1>7
<1>9. Locks!Rank(q) < Locks!Rank(r)
  BY <1>5, <1>7 DEF LockInv, InSequence, Locks!Wants
<1> QED
  BY <1>1, <1>4, <1>5, <1>7, <1>8, <1>9

\* Whatever the users, auctions and connections, transactions wait for one another in a
\* circle only when one of them has accepted the price of a Dutch auction
\* (bid.service.ts:28-93, escrow.service.ts:49-54).
THEOREM OrderedLocksNeverCycle ==
  ASSUME Users \subseteq Nat
  PROVE  Locks!Spec => []Locks!CyclesNeedAnAcceptance
<1>1. Locks!Init => LockInv
  BY StartsInSequence
<1>2. LockInv /\ [Locks!Next]_(Locks!vars) => LockInv'
  BY StepsInSequence
<1>3. LockInv => Locks!CyclesNeedAnAcceptance
  BY NoCycleInSequence DEF Locks!CyclesNeedAnAcceptance
<1> QED
  BY <1>1, <1>2, <1>3, PTL DEF Locks!Spec

-----------------------------------------------------------------------------
(* The response times that the detector computes: FraudWindow              *)

\* Events are numbered as they arrive.
Numbered == \A e \in arrived : e.n <= Cardinality(arrived)

\* There is a last one of some events.
LEMMA LastAmong ==
  ASSUME NEW n \in Nat, NEW events \in SUBSET BidGraph!Event, events # {},
         \A e \in events : e.n <= n
  PROVE  BidGraph!Last(events) \in events
<1> DEFINE Left == {n - e.n : e \in events}
<1>1. \A e \in events : e.n \in Nat
  BY DEF BidGraph!Event
<1>2. Left \subseteq Nat /\ Left # {}
  BY <1>1
<1>3. PICK x \in Left : \A y \in Left : x <= y
  <2> HIDE DEF Left
  <2> QED BY <1>2, LeastNumber
<1>4. PICK e \in events : x = n - e.n
  BY <1>3
<1>5. ASSUME NEW f \in events PROVE f.n <= e.n
  <2>1. n - e.n <= n - f.n
    BY <1>3, <1>4
  <2> QED BY <1>1, <2>1
<1> QED BY <1>5 DEF BidGraph!Last

LEMMA OnBidResponds ==
  ASSUME WindowInv, Numbered, Window \in Nat, NEW d \in detectors, BidGraph!OnBid(d)
  PROVE  Numbered' /\ BidGraph!ResponseInWindow'
<1> DEFINE event  == [n |-> Cardinality(arrived) + 1, bid |-> d.bid, auction |-> d.auction,
                      bidder |-> d.bidder, ts |-> clock]
           others == {e \in auctionBids'[d.auction] : e.bidder # event.bidder}
<1>1. WindowInv'
  BY OnBidKeepsWindow
<1>2. /\ arrived' = arrived \cup {event} /\ newest' = clock
      /\ features' = BidGraph!Features(event, auctionBids'[d.auction], bidderHistory'[d.bidder])
  <2>1. BidGraph!Cardinality(arrived) = Cardinality(arrived)
    BY DEF BidGraph!Cardinality, Cardinality
  <2> QED BY <2>1 DEF BidGraph!OnBid
<1>3. /\ clock \in Nat /\ event.ts = clock /\ event.n = Cardinality(arrived) + 1
      /\ Cardinality(arrived) \in Nat /\ IsFiniteSet(arrived)
      /\ \A e \in arrived : e.n \in Nat
  BY FS_CardinalityType DEF WindowInv, InOrder, BidGraph!WindowTypeOK, BidGraph!Event
<1>4. features'.response = IF others = {} THEN FirstBid ELSE event.ts - BidGraph!Last(others).ts
  <2> HIDE DEF event
  <2> QED BY <1>2 DEF BidGraph!Features
<1> HIDE DEF event
<1>5. Numbered'
  <2>1. event \notin arrived
    BY <1>3 DEF Numbered
  <2>2. Cardinality(arrived') = Cardinality(arrived) + 1
    BY <1>2, <1>3, <2>1, FS_AddElement
  <2> QED BY <1>2, <1>3, <2>2 DEF Numbered
<1>6. d.auction \in Auctions
  BY DEF WindowInv, BidGraph!WindowTypeOK, BidGraph!Detector
<1>7. /\ others \in SUBSET BidGraph!Event /\ others \subseteq arrived'
      /\ \A e \in others : e.ts \in Nat /\ e.ts >= clock - Window /\ e.ts <= clock
  BY <1>1, <1>2, <1>6 DEF WindowInv, InOrder, BidGraph!WindowTypeOK, BidGraph!WindowExact,
     BidGraph!Within, BidGraph!Event
<1> HIDE DEF others
<1>8. others # {} => BidGraph!Last(others) \in others
  <2>1. \A e \in others : e.n <= Cardinality(arrived')
    BY <1>5, <1>7 DEF Numbered
  <2>2. Cardinality(arrived') \in Nat
    BY <1>1, FS_CardinalityType DEF WindowInv, InOrder
  <2> QED BY <1>7, <2>1, <2>2, LastAmong
<1>9. features'.response \in 0 .. Window \cup {FirstBid}
  <2>1. CASE others = {}
    BY <1>4, <2>1
  <2>2. CASE others # {}
    <3> DEFINE then == BidGraph!Last(others).ts
    <3>1. then \in Nat /\ then >= clock - Window /\ then <= clock
      BY <1>7, <1>8, <2>2
    <3> HIDE DEF then
    <3>2. clock - then \in 0 .. Window
      BY <1>3, <3>1
    <3> QED BY <1>3, <1>4, <2>2, <3>2 DEF then
  <2> QED BY <2>1, <2>2
<1> QED BY <1>5, <1>9 DEF BidGraph!ResponseInWindow

\* No response time is negative or longer than the window, although detectors overtake one
\* another (fraud.features.ts:25-32): the map of an auction ends with the newest event.
THEOREM ResponsesInWindow ==
  ASSUME Window \in Nat
  PROVE  BidGraph!Spec => []BidGraph!ResponseInWindow
<1> DEFINE ResponseInv == WindowInv /\ Numbered /\ BidGraph!ResponseInWindow
<1>1. BidGraph!Init => ResponseInv
  <2>1. BidGraph!Init => WindowInv
    BY StartsExact
  <2> QED BY <2>1 DEF BidGraph!Init, BidGraph!NoFeatures, BidGraph!ResponseInWindow, Numbered
<1>2. ResponseInv /\ [BidGraph!Next]_(BidGraph!vars) => ResponseInv'
  <2> SUFFICES ASSUME ResponseInv, [BidGraph!Next]_(BidGraph!vars)
               PROVE  ResponseInv'
    OBVIOUS
  <2>1. WindowInv'
    BY StepsKeepWindow
  <2>2. CASE \E d \in detectors : BidGraph!OnBid(d)
    BY <2>1, <2>2, OnBidResponds
  <2>3. CASE BidGraph!Restart
    BY <2>1, <2>3 DEF BidGraph!Restart, BidGraph!NoFeatures, BidGraph!ResponseInWindow, Numbered
  <2>4. CASE UNCHANGED <<features, arrived>>
    BY <2>1, <2>4 DEF BidGraph!ResponseInWindow, Numbered
  <2> QED
    BY <2>2, <2>3, <2>4 DEF BidGraph!Next, BidGraph!PlaceBid, BidGraph!ReadFails, BidGraph!Tick,
       BidGraph!vars
<1>3. ResponseInv => BidGraph!ResponseInWindow
  OBVIOUS
<1> QED
  BY <1>1, <1>2, <1>3, PTL DEF BidGraph!Spec

-----------------------------------------------------------------------------
(* The latencies that the fraud page shows: FraudDesk                      *)

CONSTANTS Latencies, RESERVOIR_SIZE, LIVE_CAP, Limit, MaxClicks, MaxFaults
VARIABLES ring, scored, raised, storing, rows, barred, connected, wire, live, online, data,
          fetch, sent, clicks, faults

Desk == INSTANCE FraudDesk WITH suspended <- barred

\* Which of n measurements is in place j of a ring that is full: the places before idx
\* were filled last.
HeldAt(idx, n, j) == (IF j < idx THEN n - idx ELSE n - RESERVOIR_SIZE - idx) + j + 1

\* Requests of the buttons.
Known(q) == "kind" \in DOMAIN q /\ q.kind \in {"dismiss", "suspend", "reset"}

RingTyped ==
  /\ scored \in Seq(Latencies)
  /\ DOMAIN ring.buf = 0 .. RESERVOIR_SIZE - 1
  /\ ring.idx \in 0 .. RESERVOIR_SIZE - 1
  /\ ring.full \in BOOLEAN
  /\ ring.total = Len(scored)
  /\ \A q \in sent : Known(q)

\* The ring is filled from place 0 on, and then round and round.
RingInv ==
  /\ RingTyped
  /\ ~ring.full => /\ Len(scored) = ring.idx
                   /\ \A j \in 0 .. ring.idx - 1 : ring.buf[j] = scored[j + 1]
  /\ ring.full => /\ Len(scored) >= RESERVOIR_SIZE
                  /\ \A j \in 0 .. RESERVOIR_SIZE - 1 :
                       ring.buf[j] = scored[HeldAt(ring.idx, Len(scored), j)]

LEMMA NextPlace ==
  ASSUME NEW size \in Nat \ {0}, NEW i \in 0 .. size - 1
  PROVE  (i + 1) % size = IF i + 1 = size THEN 0 ELSE i + 1
OBVIOUS

\* add: one more measurement.
LEMMA AddingKeepsRing ==
  ASSUME RESERVOIR_SIZE \in Nat \ {0}, RingInv, NEW ms \in Latencies,
         ring' = Desk!Added(ring, ms), scored' = Append(scored, ms), sent' = sent
  PROVE  RingInv'
<1> DEFINE R    == RESERVOIR_SIZE
           n    == Len(scored)
           i    == ring.idx
           next == IF i + 1 = R THEN 0 ELSE i + 1
<1>1. /\ n \in Nat /\ scored' \in Seq(Latencies) /\ Len(scored') = n + 1
      /\ scored'[n + 1] = ms /\ \A k \in 1 .. n : scored'[k] = scored[k]
  BY DEF RingInv, RingTyped
<1>2. i \in 0 .. R - 1 /\ DOMAIN ring.buf = 0 .. R - 1 /\ ring.full \in BOOLEAN
      /\ ring.total = n
  BY DEF RingInv, RingTyped
<1>3. (i + 1) % R = next
  BY <1>2, NextPlace
<1>4. ring' = [buf |-> [ring.buf EXCEPT ![i] = ms], idx |-> next,
               full |-> ring.full \/ next = 0, total |-> n + 1]
  BY <1>2, <1>3, Zenon DEF Desk!Added
<1>5. ring'.idx = next /\ ring'.total = n + 1 /\ ring'.buf = [ring.buf EXCEPT ![i] = ms]
  BY <1>4
<1>6. ring'.full = (ring.full \/ next = 0)
  <2> HIDE DEF next, n, i
  <2> DEFINE b == [ring.buf EXCEPT ![i] = ms]
             p == ring.full \/ next = 0
             t == n + 1
  <2>1. ring' = [buf |-> b, idx |-> next, full |-> p, total |-> t]
    BY <1>4, Zenon
  <2> HIDE DEF b, p, t
  <2>2. ring'.full = p
    BY <2>1
  <2> QED BY <2>2, Zenon DEF p
<1>7. next \in 0 .. R - 1 /\ (next = 0 <=> i + 1 = R)
  BY <1>2
<1>8. /\ DOMAIN ring'.buf = 0 .. R - 1
      /\ ring'.buf[i] = ms
      /\ \A j \in 0 .. R - 1 : j # i => ring'.buf[j] = ring.buf[j]
  BY <1>2, <1>5
<1>9. RingTyped'
  <2>1. ring'.full \in BOOLEAN
    BY <1>6, Zenon
  <2>2. \A q \in sent' : Known(q)
    BY DEF RingInv, RingTyped
  <2>3. ring'.idx \in 0 .. R - 1
    <3> HIDE DEF next
    <3> QED BY <1>5, <1>7
  <2>4. ring'.total = Len(scored')
    BY <1>1, <1>5
  <2> QED BY <1>1, <1>8, <2>1, <2>2, <2>3, <2>4, Zenon DEF RingTyped
<1> HIDE DEF next
<1>10. CASE ~ring.full
  <2>1. n = i /\ \A j \in 0 .. i - 1 : ring.buf[j] = scored[j + 1]
    BY <1>10 DEF RingInv
  <2>2. \A j \in 0 .. i : ring'.buf[j] = scored'[j + 1]
    <3> SUFFICES ASSUME NEW j \in 0 .. i PROVE ring'.buf[j] = scored'[j + 1]
      OBVIOUS
    <3>1. CASE j = i
      BY <1>1, <1>8, <2>1, <3>1
    <3>2. CASE j # i
      BY <1>1, <1>2, <1>8, <2>1, <3>2
    <3> QED BY <3>1, <3>2
  <2>3. CASE i + 1 = R
    <3>1. next = 0
      BY <1>7, <2>3
    <3>2. ring'.full
      BY <1>6, <3>1, Zenon
    <3>3. ring'.idx = 0 /\ Len(scored') = R
      BY <1>1, <1>5, <2>1, <2>3, <3>1
    <3>4. ASSUME NEW j \in 0 .. R - 1
          PROVE  ring'.buf[j] = scored'[HeldAt(ring'.idx, Len(scored'), j)]
      <4>1. HeldAt(0, R, j) = j + 1
        BY DEF HeldAt
      <4>2. j \in 0 .. i
        BY <1>2, <2>3
      <4>3. HeldAt(ring'.idx, Len(scored'), j) = j + 1
        BY <3>3, <4>1, Zenon
      <4> QED BY <2>2, <4>2, <4>3
    <3>5. Len(scored') >= R
      BY <3>3
    <3> QED BY <1>9, <3>2, <3>4, <3>5 DEF RingInv
  <2>4. CASE i + 1 # R
    <3>1. ring'.idx = i + 1 /\ Len(scored') = ring'.idx
      BY <1>1, <1>5, <2>1, <2>4 DEF next
    <3>3. next # 0
      BY <1>7, <2>4
    <3>4. ~ring'.full
      BY <1>6, <1>10, <3>3, Zenon
    <3>2. \A j \in 0 .. ring'.idx - 1 : ring'.buf[j] = scored'[j + 1]
      BY <1>2, <2>2, <3>1
    <3> QED BY <1>9, <3>1, <3>2, <3>4 DEF RingInv
  <2> QED BY <2>3, <2>4
<1>11. CASE ring.full
  <2>1. n >= R /\ \A j \in 0 .. R - 1 : ring.buf[j] = scored[HeldAt(i, n, j)]
    BY <1>11 DEF RingInv
  <2>2. ring'.full
    BY <1>6, <1>11, Zenon
  <2>5. Len(scored') >= R
    BY <1>1, <2>1
  <2>3. ASSUME NEW j \in 0 .. R - 1
        PROVE  ring'.buf[j] = scored'[HeldAt(next, n + 1, j)]
    <3>1. /\ j = i => HeldAt(next, n + 1, j) = n + 1
          /\ j # i => HeldAt(next, n + 1, j) = HeldAt(i, n, j)
          /\ HeldAt(i, n, j) \in 1 .. n
      <4>1. next = IF i + 1 = R THEN 0 ELSE i + 1
        BY DEF next
      <4>2. i \in 0 .. R - 1 /\ n \in Nat /\ n >= R /\ R \in Nat \ {0}
        BY <1>1, <1>2, <2>1
      <4> HIDE DEF i, n
      <4> QED BY <4>1, <4>2 DEF HeldAt
    <3>2. CASE j = i
      BY <1>1, <1>8, <3>1, <3>2
    <3>3. CASE j # i
      BY <1>1, <1>8, <2>1, <3>1, <3>3
    <3> QED BY <3>2, <3>3
  <2>4. \A j \in 0 .. R - 1 : ring'.buf[j] = scored'[HeldAt(ring'.idx, Len(scored'), j)]
    BY <1>1, <1>5, <2>3
  <2> QED BY <1>9, <2>2, <2>4, <2>5 DEF RingInv
<1> QED BY <1>10, <1>11

\* A new ring, of a process that starts or after the button of the page.
LEMMA EmptyRingSound ==
  ASSUME RESERVOIR_SIZE \in Nat \ {0}, ring' = Desk!EmptyRing, scored' = <<>>,
         \A q \in sent' : Known(q)
  PROVE  RingInv'
BY DEF Desk!EmptyRing, RingInv, RingTyped

LEMMA RingKept ==
  ASSUME RESERVOIR_SIZE \in Nat \ {0}, RingInv, [Desk!Next]_(Desk!vars)
  PROVE  RingInv'
<1>1. ASSUME UNCHANGED <<ring, scored>>, \A q \in sent' : Known(q) PROVE RingInv'
  BY <1>1 DEF RingInv, RingTyped
<1>2. \A q \in sent : Known(q)
  BY DEF RingInv, RingTyped
<1>3. CASE Desk!FlagRaised
  <2>1. PICK b \in Bidders, ms \in Latencies, flagged \in BOOLEAN : Desk!OnBid(b, ms, flagged)
    BY <1>3 DEF Desk!FlagRaised
  <2>2. ring' = Desk!Added(ring, ms) /\ scored' = Append(scored, ms) /\ sent' = sent
    BY <2>1 DEF Desk!OnBid, Desk!page
  <2> QED BY <2>2, AddingKeepsRing
<1>4. CASE Desk!FlagsStored
  BY <1>1, <1>2, <1>4 DEF Desk!FlagsStored, Desk!Store, Desk!StoreFails, Desk!page
<1>5. CASE Desk!Restart
  BY <1>5, EmptyRingSound DEF Desk!Restart
<1>6. CASE \/ \E f \in DOMAIN raised : Desk!DismissElsewhere(f)
           \/ Desk!Deliver \/ Desk!Disconnect \/ Desk!Reconnect
  BY <1>1, <1>2, <1>6 DEF Desk!DismissElsewhere, Desk!Deliver, Desk!Disconnect,
     Desk!Reconnect, Desk!engine, Desk!page
<1>7. CASE \E button \in Desk!Offered : Desk!Press(button)
  <2>1. PICK button \in Desk!Offered : Desk!Press(button)
    BY <1>7
  <2>2. button.kind \in {"dismiss", "suspend", "reset"}
    BY DEF Desk!Offered
  <2>3. Known([kind |-> button.kind, of |-> button.of, done |-> FALSE])
    BY <2>2 DEF Known
  <2> QED BY <1>1, <1>2, <2>1, <2>3 DEF Desk!Press, Desk!engine
<1>8. CASE \E q \in Desk!Queries : Desk!Query(q) \/ Desk!QueryFails(q)
  BY <1>1, <1>2, <1>8 DEF Desk!Query, Desk!QueryFails, Desk!Poll, Desk!Answer, Desk!Read,
     Desk!engine
<1>9. CASE Desk!Buttons
  <2>1. PICK r \in sent : Desk!Serve(r) \/ Desk!Done(r) \/ Desk!Lose(r)
    BY <1>9 DEF Desk!Buttons
  <2>2. CASE Desk!Serve(r)
    <3>1. sent' = (sent \ {r}) \cup {[r EXCEPT !.done = TRUE]}
      BY <2>2 DEF Desk!Serve
    <3>2. Known([r EXCEPT !.done = TRUE])
      BY <1>2 DEF Known
    <3>3. \A q \in sent' : Known(q)
      BY <1>2, <3>1, <3>2
    <3>4. r.kind \in {"dismiss", "suspend", "reset"}
      BY <1>2 DEF Known
    <3>5. CASE r.kind = "reset"
      BY <2>2, <3>3, <3>5, EmptyRingSound DEF Desk!Serve
    <3>6. CASE r.kind \in {"dismiss", "suspend"}
      BY <1>1, <2>2, <3>3, <3>6 DEF Desk!Serve
    <3> QED BY <3>4, <3>5, <3>6
  <2>3. CASE Desk!Done(r) \/ Desk!Lose(r)
    BY <1>1, <1>2, <2>3 DEF Desk!Done, Desk!Lose, Desk!engine
  <2> QED BY <2>1, <2>2, <2>3
<1>10. CASE UNCHANGED Desk!vars
  BY <1>1, <1>2, <1>10 DEF Desk!vars, Desk!engine, Desk!page
<1> QED BY <1>3, <1>4, <1>5, <1>6, <1>7, <1>8, <1>9, <1>10 DEF Desk!Next

\* The places of a full ring and the latest measurements correspond.
LEMMA Placing ==
  ASSUME RESERVOIR_SIZE \in Nat \ {0}, NEW n \in Nat,
         NEW x \in 0 .. RESERVOIR_SIZE - 1, NEW i \in 0 .. RESERVOIR_SIZE - 1
  PROVE  LET k == IF i < x THEN RESERVOIR_SIZE - x + i + 1 ELSE i + 1 - x
         IN  k \in 1 .. RESERVOIR_SIZE /\ HeldAt(x, n, i) = n - RESERVOIR_SIZE + k
BY DEF HeldAt

LEMMA Placed ==
  ASSUME RESERVOIR_SIZE \in Nat \ {0}, NEW n \in Nat,
         NEW x \in 0 .. RESERVOIR_SIZE - 1, NEW k \in 1 .. RESERVOIR_SIZE
  PROVE  LET i == IF k > RESERVOIR_SIZE - x THEN k - 1 - RESERVOIR_SIZE + x ELSE k - 1 + x
         IN  i \in 0 .. RESERVOIR_SIZE - 1 /\ HeldAt(x, n, i) = n - RESERVOIR_SIZE + k
BY DEF HeldAt

\* What is read from the ring are the latest measurements.
LEMMA RingReads ==
  ASSUME RESERVOIR_SIZE \in Nat \ {0}, RingInv
  PROVE  Desk!RingHoldsLatest
<1> DEFINE R      == RESERVOIR_SIZE
           n      == Len(scored)
           size   == IF ring.full THEN R ELSE ring.idx
           first  == IF n > R THEN n - R + 1 ELSE 1
           recent == SubSeq(scored, first, n)
<1>1. /\ n \in Nat /\ ring.idx \in 0 .. R - 1 /\ scored \in Seq(Latencies)
      /\ ring.total = n /\ R \in Nat \ {0}
  BY DEF RingInv, RingTyped
<1>2. /\ ~ring.full => n = ring.idx /\ \A j \in 0 .. n - 1 : ring.buf[j] = scored[j + 1]
      /\ ring.full => /\ n >= R
                      /\ \A j \in 0 .. R - 1 : ring.buf[j] = scored[HeldAt(ring.idx, n, j)]
  BY DEF RingInv
<1>3. size \in 0 .. n /\ first = n - size + 1
  BY <1>1, <1>2
<1>4. Len(recent) = size /\ \A k \in 1 .. size : recent[k] = scored[n - size + k]
  <2> HIDE DEF first, size, n
  <2>1. first \in 1 .. n + 1 /\ first - 1 = n - size
    BY <1>1, <1>3
  <2>2. /\ Len(recent) = n - first + 1
        /\ \A k \in 1 .. n - first + 1 : recent[k] = scored[first + k - 1]
    BY <1>1, <2>1 DEF n
  <2> HIDE DEF recent
  <2>3. n - first + 1 = size
    BY <1>1, <1>3
  <2>4. \A k \in 1 .. size : first + k - 1 = n - size + k
    BY <1>1, <1>3
  <2> QED BY <2>2, <2>3, <2>4
<1>5. DOMAIN recent = 1 .. size
  <2>1. first \in 1 .. n + 1
    BY <1>1, <1>3
  <2> HIDE DEF first
  <2>2. recent \in Seq(Latencies)
    BY <1>1, <2>1
  <2> HIDE DEF recent, size
  <2> QED BY <1>4, <2>2
<1> HIDE DEF recent
<1>6. {ring.buf[i] : i \in 0 .. size - 1} = {recent[k] : k \in 1 .. size}
  <2>1. ASSUME NEW i \in 0 .. size - 1
        PROVE  \E k \in 1 .. size : ring.buf[i] = recent[k]
    <3>1. CASE ring.full
      <4> DEFINE k == IF i < ring.idx THEN R - ring.idx + i + 1 ELSE i + 1 - ring.idx
      <4>1. i \in 0 .. R - 1 /\ size = R
        BY <3>1
      <4>2. k \in 1 .. R /\ HeldAt(ring.idx, n, i) = n - R + k
        <5> HIDE DEF size
        <5> QED BY <1>1, <4>1, Placing
      <4> HIDE DEF k
      <4>3. ring.buf[i] = recent[k]
        BY <1>2, <1>4, <3>1, <4>1, <4>2
      <4> QED BY <4>1, <4>2, <4>3
    <3>2. CASE ~ring.full
      <4>1. /\ size = n /\ ring.buf[i] = scored[i + 1]
            /\ i + 1 \in 1 .. size /\ n - size + (i + 1) = i + 1
        BY <1>1, <1>2, <3>2
      <4> HIDE DEF size, n
      <4>2. recent[i + 1] = scored[i + 1]
        BY <1>4, <4>1
      <4> QED BY <4>1, <4>2
    <3> QED BY <3>1, <3>2
  <2>2. ASSUME NEW k \in 1 .. size
        PROVE  \E i \in 0 .. size - 1 : recent[k] = ring.buf[i]
    <3>1. CASE ring.full
      <4> DEFINE i == IF k > R - ring.idx THEN k - 1 - R + ring.idx ELSE k - 1 + ring.idx
      <4>1. k \in 1 .. R /\ size = R
        BY <3>1
      <4>2. i \in 0 .. R - 1 /\ HeldAt(ring.idx, n, i) = n - R + k
        <5> HIDE DEF size
        <5> QED BY <1>1, <4>1, Placed
      <4> HIDE DEF i
      <4>3. ring.buf[i] = recent[k]
        BY <1>2, <1>4, <3>1, <4>1, <4>2
      <4> QED BY <4>1, <4>2, <4>3
    <3>2. CASE ~ring.full
      <4>1. size = n /\ k - 1 \in 0 .. n - 1 /\ (k - 1) + 1 = k /\ n - size + k = k
        BY <1>1, <1>2, <3>2
      <4>2. ring.buf[k - 1] = scored[k]
        BY <1>2, <3>2, <4>1
      <4> HIDE DEF size, n
      <4>3. recent[k] = scored[k]
        BY <1>4, <4>1
      <4> QED BY <4>1, <4>2, <4>3
    <3> QED BY <3>1, <3>2
  <2> HIDE DEF size
  <2> QED BY <2>1, <2>2
<1>7. Desk!ToSet(recent) = {recent[k] : k \in 1 .. size}
  BY <1>5, Zenon DEF Desk!ToSet
<1>8. Desk!Snapshot(ring) = [samples |-> ring.total, size |-> size,
                             max |-> Desk!Max({0} \cup {ring.buf[i] : i \in 0 .. size - 1})]
  BY Zenon DEF Desk!Snapshot
<1>9. (Desk!Snapshot(ring) = [samples |-> n, size |-> Len(recent),
                              max |-> Desk!Max({0} \cup Desk!ToSet(recent))])
        => Desk!RingHoldsLatest
  BY Zenon DEF Desk!RingHoldsLatest, recent
<1> HIDE DEF size, n
<1> QED BY <1>1, <1>4, <1>6, <1>7, <1>8, <1>9, Zenon

\* Whatever its size, the ring of the engine holds the latest latencies and no others, while
\* it is filled, when it wraps and after a reset or a restart (fraud.engine.ts:34-64).
THEOREM RingAlwaysLatest ==
  ASSUME RESERVOIR_SIZE \in Nat \ {0}
  PROVE  Desk!Spec => []Desk!RingHoldsLatest
<1>1. Desk!Init => RingInv
  BY DEF Desk!Init, Desk!EmptyRing, RingInv, RingTyped
<1>2. RingInv /\ [Desk!Next]_(Desk!vars) => RingInv'
  BY RingKept
<1>3. RingInv => Desk!RingHoldsLatest
  BY RingReads
<1> QED
  BY <1>1, <1>2, <1>3, PTL DEF Desk!Spec
=============================================================================
