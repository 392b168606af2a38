------------------------------ MODULE Presence ------------------------------
(***************************************************************************)
(* "N watching": the gateways count the sockets in the room of an auction  *)
(* a moment after one has come or gone, and tell them all.  A gateway is a *)
(* process of the back end; with the Redis adapter several of them share   *)
(* the rooms, and each answers for its own sockets.                        *)
(*                                                                         *)
(* One auction.  A viewer reaches one gateway, and has a new socket after  *)
(* each lost connection; the gateway learns late of a socket that is gone. *)
(***************************************************************************)
EXTENDS Integers, Sequences, FiniteSets, SequencesExt

CONSTANTS
  Gateways,
  Reaches,     \* Reaches[v]: the gateway of viewer v; its domain are the viewers
  PRESENCE_DEBOUNCE,
  MaxVisits,   \* bounds the visits of the page
  MaxFaults    \* bounds lost connections and failing counts

Viewers == DOMAIN Reaches
Nobody  == -1  \* what a page shows before the first count

VARIABLES
  on,          \* the viewers with the page open
  connected,   \* the viewers whose connection is up
  epoch,       \* which of its sockets a viewer has, or will have next
  room,        \* the sockets in the room, those not yet known to be gone included
  timer,       \* presenceTimers: what is left of the timer of each gateway, 0 without one, 1 when due
  quiet,       \* history: how long each gateway has seen nobody come or go
  counting,    \* the counts each gateway has started, with the answers so far
  wire,        \* the counts under way to each viewer
  shown,       \* viewers of the page
  visits, faults

vars == <<on, connected, epoch, room, timer, quiet, counting, wire, shown, visits, faults>>

Socket(v)   == <<v, epoch[v]>>
Local(g)    == Cardinality({s \in room : Reaches[s[1]] = g})
Receives(v) == connected[v] /\ Socket(v) \in room

-----------------------------------------------------------------------------
(* The gateways                                                            *)

\* A timer that runs is left alone.
schedulePresenceEmit(g) ==
  /\ timer' = [timer EXCEPT ![g] = IF @ = 0 THEN PRESENCE_DEBOUNCE + 1 ELSE @]
  /\ quiet' = [quiet EXCEPT ![g] = 0]

\* fetchSockets asks every gateway for its sockets.
Fire(g) ==
  /\ timer[g] = 1
  /\ timer' = [timer EXCEPT ![g] = 0]
  /\ counting' = [counting EXCEPT ![g] = Append(@, [h \in Gateways |-> Nobody])]
  /\ UNCHANGED <<on, connected, epoch, room, quiet, wire, shown, visits, faults>>

\* Questions of one gateway are answered in their order.
Count(g, h) ==
  \E i \in DOMAIN counting[g] :
    /\ counting[g][i][h] = Nobody
    /\ \A j \in 1 .. i - 1 : counting[g][j][h] # Nobody
    /\ counting' = [counting EXCEPT ![g][i][h] = Local(h)]
    /\ UNCHANGED <<on, connected, epoch, room, timer, quiet, wire, shown, visits, faults>>

Sum(answers) == SumFunction(answers)

Emit(g) ==
  /\ counting[g] # <<>> /\ \A h \in Gateways : Head(counting[g])[h] # Nobody
  /\ counting' = [counting EXCEPT ![g] = Tail(@)]
  /\ wire' = [v \in Viewers |-> IF Receives(v) THEN Append(wire[v], Sum(Head(counting[g]))) ELSE wire[v]]
  /\ UNCHANGED <<on, connected, epoch, room, timer, quiet, shown, visits, faults>>

Fault == faults < MaxFaults /\ faults' = faults + 1

\* Another gateway does not answer: nothing is emitted, nothing is tried again.
CountFails(g) ==
  /\ Fault
  /\ counting[g] # <<>> /\ \E h \in Gateways \ {g} : Head(counting[g])[h] = Nobody
  /\ counting' = [counting EXCEPT ![g] = Tail(@)]
  /\ UNCHANGED <<on, connected, epoch, room, timer, quiet, wire, shown, visits>>

\* A socket that its viewer has given up.
Gone(s) == s # Socket(s[1]) \/ ~connected[s[1]]

\* disconnecting.
Forget(s) ==
  /\ s \in room /\ Gone(s)
  /\ room' = room \ {s}
  /\ schedulePresenceEmit(Reaches[s[1]])
  /\ UNCHANGED <<on, connected, epoch, counting, wire, shown, visits, faults>>

-----------------------------------------------------------------------------
(* The pages                                                               *)

\* auction:join, sent while the connection is up.
Join(v) ==
  /\ room' = room \cup {Socket(v)}
  /\ schedulePresenceEmit(Reaches[v])

Open(v) ==
  /\ visits < MaxVisits /\ visits' = visits + 1
  /\ v \notin on /\ connected[v]
  /\ on' = on \cup {v}
  /\ shown' = [shown EXCEPT ![v] = Nobody]
  /\ Join(v)
  /\ UNCHANGED <<connected, epoch, counting, wire, faults>>

\* auction:leave; without a connection it waits for the next socket, which is not in the room.
Close(v) ==
  /\ v \in on
  /\ on' = on \ {v}
  /\ wire' = [wire EXCEPT ![v] = <<>>]
  /\ IF Receives(v)
     THEN room' = room \ {Socket(v)} /\ schedulePresenceEmit(Reaches[v])
     ELSE UNCHANGED <<room, timer, quiet>>
  /\ UNCHANGED <<connected, epoch, counting, shown, visits, faults>>

Disconnect(v) ==
  /\ Fault /\ connected[v]
  /\ connected' = [connected EXCEPT ![v] = FALSE]
  /\ wire' = [wire EXCEPT ![v] = <<>>]
  /\ UNCHANGED <<on, epoch, room, timer, quiet, counting, shown, visits>>

\* Another socket, which joins the room if the page is still open.
Reconnect(v) ==
  /\ ~connected[v]
  /\ connected' = [connected EXCEPT ![v] = TRUE]
  /\ epoch' = [epoch EXCEPT ![v] = @ + 1]
  /\ IF v \in on
     THEN room' = room \cup {<<v, epoch[v] + 1>>} /\ schedulePresenceEmit(Reaches[v])
     ELSE /\ schedulePresenceEmit(Reaches[v]) \/ UNCHANGED <<timer, quiet>>  \* a leave that waited
          /\ UNCHANGED room
  /\ UNCHANGED <<on, counting, wire, shown, visits, faults>>

Show(v) ==
  /\ wire[v] # <<>>
  /\ wire' = [wire EXCEPT ![v] = Tail(@)]
  /\ shown' = [shown EXCEPT ![v] = Head(wire[v])]
  /\ UNCHANGED <<on, connected, epoch, room, timer, quiet, counting, visits, faults>>

\* "N watching" beside the badge, for a count above zero.
Pill(v) == v \in on /\ shown[v] > 0

-----------------------------------------------------------------------------
Init ==
  /\ on = {} /\ connected = [v \in Viewers |-> TRUE] /\ epoch = [v \in Viewers |-> 0]
  /\ room = {}
  /\ timer = [g \in Gateways |-> 0] /\ quiet = [g \in Gateways |-> PRESENCE_DEBOUNCE]
  /\ counting = [g \in Gateways |-> <<>>]
  /\ wire = [v \in Viewers |-> <<>>] /\ shown = [v \in Viewers |-> Nobody]
  /\ visits = 0 /\ faults = 0

\* A timer may fire late, never early.
Pass ==
  /\ \E g \in Gateways : timer[g] > 1 \/ quiet[g] < PRESENCE_DEBOUNCE
  /\ timer' = [g \in Gateways |-> IF timer[g] > 1 THEN timer[g] - 1 ELSE timer[g]]
  /\ quiet' = [g \in Gateways |-> IF quiet[g] < PRESENCE_DEBOUNCE THEN quiet[g] + 1 ELSE quiet[g]]
  /\ UNCHANGED <<on, connected, epoch, room, counting, wire, shown, visits, faults>>

Gateway(g) == Fire(g) \/ Emit(g) \/ \E h \in Gateways : Count(g, h)

Next ==
  \/ \E g \in Gateways : Gateway(g) \/ CountFails(g)
  \/ \E s \in room : Forget(s)
  \/ \E v \in Viewers : Open(v) \/ Close(v) \/ Disconnect(v) \/ Reconnect(v) \/ Show(v)
  \/ Pass

Fairness ==
  /\ \A g \in Gateways : WF_vars(Gateway(g))
  /\ WF_vars(\E s \in room : Forget(s))
  /\ \A v \in Viewers : WF_vars(Reconnect(v)) /\ WF_vars(Show(v))
  /\ WF_vars(Pass)

Spec == Init /\ [][Next]_vars /\ Fairness

-----------------------------------------------------------------------------
(* Properties                                                              *)

TypeOK ==
  /\ on \subseteq Viewers /\ connected \in [Viewers -> BOOLEAN]
  /\ \A s \in room : s[1] \in Viewers /\ s[2] \in 0 .. epoch[s[1]]
  /\ timer \in [Gateways -> 0 .. PRESENCE_DEBOUNCE + 1]
  /\ \A v \in Viewers : shown[v] \in Nobody .. Cardinality(Viewers) * (MaxFaults + 1)

\* When nobody comes or goes any more, every open page shows how many are open, whatever
\* connections were lost: a socket that is replaced counts twice until its gateway forgets it.
ViewersSettle == <>[](\A v \in on : shown[v] = Cardinality(on))

\* What the page of v will show once all that is counted has arrived.
Told(v) == IF wire[v] = <<>> THEN shown[v] ELSE Last(wire[v])
Word(v) ==
  LET counts == counting[Reaches[v]] IN IF counts = <<>> THEN Told(v) ELSE Sum(Last(counts))

\* With one gateway, a page is about to show how many are open, unless somebody has still to
\* reconnect or to be forgotten, or another count is due: no join or leave, in whatever burst
\* or during whatever count, goes without a count after it.
RightOrDue ==
  \A v \in on :
    \/ \E w \in on : ~connected[w]
    \/ \E s \in room : Gone(s)
    \/ timer[Reaches[v]] # 0
    \/ \E i \in DOMAIN counting[Reaches[v]] : Nobody \in Range(counting[Reaches[v]][i])
    \/ Word(v) = Cardinality(on)

-----------------------------------------------------------------------------
(* What the documentation says                                             *)

\* "If another join/leave event arrives within those 250ms, we reset the timer": a count starts
\* only when nobody has come or gone for that long.
CountsInQuiet ==
  [][\A g \in Gateways : timer[g] = 1 /\ timer'[g] = 0 => quiet[g] = PRESENCE_DEBOUNCE]_vars
=============================================================================
