---------------------------- MODULE MCTimetable ----------------------------
(***************************************************************************)
(* Instances of the timetable for TLC.                                     *)
(***************************************************************************)
EXTENDS TimetableProperties

CONSTANTS ann, bob

Rising(start, end, snipe) ==
  [type |-> "ENGLISH", price |-> 1, reserve |-> 0, step |-> 1, interval |-> 1,
   start |-> start, end |-> end, snipe |-> snipe]
Falling(price, reserve, step, interval, start, end) ==
  [type |-> "DUTCH", price |-> price, reserve |-> reserve, step |-> step,
   interval |-> interval, start |-> start, end |-> end, snipe |-> 0]
\* Beginning at once or later, with a given or a computed end, with a reserve on
\* and off the grid of the steps, an end that passes before it is scheduled.
Schedules ==
  {Rising(0, 4, 0), Rising(2, 5, 2), Rising(0, 2, 0),
   Falling(4, 2, 1, 1, 0, 0), Falling(5, 2, 2, 2, 2, 0), Falling(3, 0, 2, 2, 0, 4)}

\* bob cannot pay the highest prices; his target is the higher one.
Purses == [u \in Bidders |-> IF u = ann THEN 5 ELSE 3]
AskFor == [u \in Bidders |-> IF u = ann THEN {2} ELSE {3}]
=============================================================================
