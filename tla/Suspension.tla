----------------------------- MODULE Suspension -----------------------------
(***************************************************************************)
(* Locking a user out: suspendUser, the in-memory user cache of every      *)
(* instance of the server, its invalidation over Redis pub/sub, and the    *)
(* requests of the user that authenticate meanwhile.                       *)
(*                                                                         *)
(* The one user here is no admin and holds a valid token. Time is counted  *)
(* in units of TTL / Ttl; a database read or an update returns within      *)
(* MaxRead units. Redis delivers an invalidation at some time or never.    *)
(***************************************************************************)
EXTENDS Integers, FiniteSets, TLC

CONSTANTS
  Instances,
  Ttl,          \* USER_CACHE_TTL_MS
  MaxRead,      \* the longest a read of the user's row takes
  MaxTime,      \* bound: time
  MaxFlips,     \* bound: suspensions and reinstatements
  MaxCrashes    \* bound: restarts of an instance

ASSUME TimesAssumption == /\ Ttl \in Nat \ {0}
                          /\ MaxRead \in Nat
                          /\ MaxTime \in Nat
ASSUME LimitsAssumption == MaxFlips \in Nat /\ MaxCrashes \in Nat

VARIABLES
  now,
  suspended,    \* users.isSuspended
  since,        \* history: when the suspension in force was written
  cache,        \* userCache of each instance: the entry of the user
  reads,        \* authentications that wait for the database
  flips,        \* calls of suspendUser under way
  mail,         \* invalidations published and not delivered yet, per instance
  subscribed,   \* has the instance subscribed to 'user:invalidate'?
  evicted,      \* history: has the instance evicted since the last write?
  raced,        \* history: was a stale read under way when it did?
  latest,       \* history: the longest after a suspension that a request got in
  flipped, crashes

\* The instances are alike: a symmetry of the safety properties.
InstanceSymmetry == Permutations(Instances)

vars == <<now, suspended, since, cache, reads, flips, mail, subscribed, evicted, raced,
          latest, flipped, crashes>>

NoEntry == [cached |-> FALSE, suspended |-> FALSE, expiresAt |-> 0]
Entry   == [cached: BOOLEAN, suspended: BOOLEAN, expiresAt: 0..(MaxTime + Ttl)]
\* "waiting" for the database; it has "read" the row.
Reading == [at: Instances, step: {"waiting", "read"}, value: BOOLEAN, began: 0..MaxTime]
Flip    == [at: Instances, value: BOOLEAN, step: {"update", "evict", "publish"}]

Larger(a, b) == IF a >= b THEN a ELSE b

\* A request gets past authenticate.
Admit == latest' = IF suspended THEN Larger(latest, now - since) ELSE latest

Stale(i) == {r \in reads : r.at = i /\ r.step = "read" /\ r.value # suspended}

-----------------------------------------------------------------------------
(* authenticate                                                            *)

\* Mutation: an entry never expires.
ValidForever(e) == e.cached

\* cacheGet: an entry counts until its expiry has passed.
Valid(e) == e.cached /\ e.expiresAt >= now

Hit(i) ==
  /\ Valid(cache[i])
  /\ IF cache[i].suspended THEN UNCHANGED latest ELSE Admit
  /\ UNCHANGED <<now, suspended, since, cache, reads, flips, mail, subscribed, evicted, raced,
                 flipped, crashes>>

\* A miss drops the expired entry and asks the database.
Miss(i) ==
  /\ ~Valid(cache[i])
  /\ {r \in reads : r.at = i} = {}
  /\ cache' = [cache EXCEPT ![i] = NoEntry]
  /\ reads' = reads \cup {[at |-> i, step |-> "waiting", value |-> FALSE, began |-> now]}
  /\ UNCHANGED <<now, suspended, since, flips, mail, subscribed, evicted, raced, latest,
                 flipped, crashes>>

ReadRow(r) ==
  /\ r.step = "waiting"
  /\ reads' = (reads \ {r}) \cup {[r EXCEPT !.step = "read", !.value = suspended]}
  /\ UNCHANGED <<now, suspended, since, cache, flips, mail, subscribed, evicted, raced, latest,
                 flipped, crashes>>

\* cacheSet with a full lifetime, then the decision on the same row.
FinishRead(r) ==
  /\ r.step = "read"
  /\ reads' = reads \ {r}
  /\ cache' = [cache EXCEPT ![r.at] =
                 [cached |-> TRUE, suspended |-> r.value, expiresAt |-> now + Ttl]]
  /\ IF r.value THEN UNCHANGED latest ELSE Admit
  /\ UNCHANGED <<now, suspended, since, flips, mail, subscribed, evicted, raced, flipped, crashes>>

-----------------------------------------------------------------------------
(* suspendUser and the subscribers                                         *)

\* An admin asks instance i to suspend the user or to lift the suspension.
StartFlip(i, value) ==
  /\ flipped < MaxFlips
  /\ flipped' = flipped + 1
  /\ flips' = flips \cup {[at |-> i, value |-> value, step |-> "update"]}
  /\ UNCHANGED <<now, suspended, since, cache, reads, mail, subscribed, evicted, raced, latest,
                 crashes>>

UpdateRow(f) ==
  /\ f.step = "update"
  /\ flips' = (flips \ {f}) \cup {[f EXCEPT !.step = "evict"]}
  /\ suspended' = f.value
  /\ since'   = IF f.value = suspended THEN since ELSE IF f.value THEN now ELSE 0
  /\ evicted' = IF f.value = suspended THEN evicted ELSE [i \in Instances |-> FALSE]
  /\ UNCHANGED <<now, cache, reads, mail, subscribed, raced, latest, flipped, crashes>>

\* Mutation: the entry stays.
EvictNothing(i) == cache[i]

\* invalidateUser
Evict(i) == NoEntry

Evicting(i) ==
  /\ cache'   = [cache EXCEPT ![i] = Evict(i)]
  /\ evicted' = [evicted EXCEPT ![i] = TRUE]
  /\ raced'   = [raced EXCEPT ![i] = Stale(i) # {}]

EvictHere(f) ==
  /\ f.step = "evict"
  /\ flips' = (flips \ {f}) \cup {[f EXCEPT !.step = "publish"]}
  /\ Evicting(f.at)
  /\ UNCHANGED <<now, suspended, since, reads, mail, subscribed, latest, flipped, crashes>>

\* Every subscriber gets the message; nobody waits for it.
Publish(f) ==
  /\ f.step = "publish"
  /\ flips' = flips \ {f}
  /\ \E reached \in {subscribed, {}} : mail' = mail \cup reached
  /\ UNCHANGED <<now, suspended, since, cache, reads, subscribed, evicted, raced, latest,
                 flipped, crashes>>

Deliver(i) ==
  /\ i \in mail
  /\ mail' = mail \ {i}
  /\ Evicting(i)
  /\ UNCHANGED <<now, suspended, since, reads, flips, subscribed, latest, flipped, crashes>>

-----------------------------------------------------------------------------
(* Instances, time                                                         *)

\* bootstrap subscribes unless Redis does not answer its ping in time.
Restart(i) ==
  /\ crashes < MaxCrashes
  /\ crashes' = crashes + 1
  /\ cache'   = [cache EXCEPT ![i] = NoEntry]
  /\ reads'   = {r \in reads : r.at # i}
  /\ flips'   = {f \in flips : f.at # i}
  /\ mail'    = mail \ {i}
  /\ raced'   = [raced EXCEPT ![i] = FALSE]
  /\ \E answers \in BOOLEAN :
       subscribed' = IF answers THEN subscribed \cup {i} ELSE subscribed \ {i}
  /\ UNCHANGED <<now, suspended, since, evicted, latest, flipped>>

Tick ==
  /\ now < MaxTime
  /\ \A r \in reads : now < r.began + MaxRead
  /\ now' = now + 1
  /\ UNCHANGED <<suspended, since, cache, reads, flips, mail, subscribed, evicted, raced, latest,
                 flipped, crashes>>

Init ==
  /\ now = 0
  /\ suspended = FALSE
  /\ since = 0
  /\ cache = [i \in Instances |-> NoEntry]
  /\ reads = {}
  /\ flips = {}
  /\ mail = {}
  /\ subscribed \in SUBSET Instances
  /\ evicted = [i \in Instances |-> FALSE]
  /\ raced = [i \in Instances |-> FALSE]
  /\ latest = 0
  /\ flipped = 0
  /\ crashes = 0

Authenticate ==
  \/ \E i \in Instances : Hit(i) \/ Miss(i)
  \/ \E r \in reads : ReadRow(r) \/ FinishRead(r)

SuspendUser ==
  \/ \E i \in Instances, value \in BOOLEAN : StartFlip(i, value)
  \/ \E f \in flips : UpdateRow(f) \/ EvictHere(f) \/ Publish(f)

Next ==
  \/ Authenticate
  \/ SuspendUser
  \/ \E i \in Instances : Deliver(i) \/ Restart(i)
  \/ Tick

Spec == Init /\ [][Next]_vars

-----------------------------------------------------------------------------
(* Properties                                                              *)

SuspensionTypeOK ==
  /\ now \in 0..MaxTime
  /\ suspended \in BOOLEAN
  /\ since \in 0..now
  /\ cache \in [Instances -> Entry]
  /\ reads \subseteq Reading
  /\ flips \subseteq Flip
  /\ mail \subseteq Instances
  /\ subscribed \subseteq Instances
  /\ evicted \in [Instances -> BOOLEAN]
  /\ raced \in [Instances -> BOOLEAN]
  /\ latest \in 0..MaxTime
  /\ flipped \in 0..MaxFlips
  /\ crashes \in 0..MaxCrashes

\* A suspended user is let in for no longer than the lifetime of a cache entry
\* and of the read that filled it (auth.middleware.ts:21-24), although messages
\* are lost, instances never subscribed, and a read that began before the
\* suspension fills the cache after the eviction.
LockedOutInTime == latest <= Ttl + MaxRead

\* An instance that has evicted the user since the last write of the row, with no
\* older read under way, decides by the row as it is (index.ts:110-115): a second
\* admin, a late message or a restart never brings the old answer back.
EvictionSettles ==
  \A i \in Instances :
    (evicted[i] /\ ~raced[i] /\ Valid(cache[i])) => cache[i].suspended = suspended

\* "A suspended account stops authenticating everywhere at once" (index.ts:114-115): once
\* every instance has its message, no cache lets the user in. A read from before the
\* suspension fills one afterwards.
EverywhereAtOnce ==
  (suspended /\ flips = {} /\ \A i \in Instances : evicted[i]) =>
    \A i \in Instances : ~(Valid(cache[i]) /\ ~cache[i].suspended)
=============================================================================
