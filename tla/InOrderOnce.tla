---------------------------- MODULE InOrderOnce ----------------------------
(***************************************************************************)
(* What the bid sequencers promise the auctions they serve: no bid that    *)
(* was put in a stream is tried twice, whichever server it goes to, and    *)
(* each server tries the bids of an auction in the order in which they     *)
(* arrived.  With a single server that is the order of arrival; with       *)
(* several, one may overtake the other.  It is not promised that every bid *)
(* is tried.                                                               *)
(***************************************************************************)
EXTENDS Naturals, Sequences

CONSTANTS Auctions, Servers

VARIABLES
  arrived,   \* how many bids the stream of each auction has received
  tried      \* the bids handed to placeBid: by whom, and the arrival number

vars == <<arrived, tried>>

\* Nobody has tried bid i of a, and s none that came after it.
IsNext(s, a, i) ==
  \A k \in DOMAIN tried[a] :
    /\ tried[a][k].bid # i
    /\ tried[a][k].by = s => tried[a][k].bid < i

Init ==
  /\ arrived = [a \in Auctions |-> 0]
  /\ tried   = [a \in Auctions |-> <<>>]

Arrive(a) ==
  /\ arrived' = [arrived EXCEPT ![a] = @ + 1]
  /\ UNCHANGED tried

Try(s, a) ==
  /\ \E i \in 1..arrived[a] :
       /\ IsNext(s, a, i)
       /\ tried' = [tried EXCEPT ![a] = Append(@, [by |-> s, bid |-> i])]
  /\ UNCHANGED arrived

Next == \E a \in Auctions : Arrive(a) \/ \E s \in Servers : Try(s, a)

Spec == Init /\ [][Next]_vars
=============================================================================
