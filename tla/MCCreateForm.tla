---------------------------- MODULE MCCreateForm ----------------------------
(***************************************************************************)
(* What the seller of the form types, for TLC.                             *)
(***************************************************************************)
EXTENDS CreateForm

Named == {<<"title", 3>>, <<"startingPrice", 5>>}
\* An English auction with and without a description.
English == Named \cup {<<"description", 10>>, <<"endTime", 3>>, <<"startTime", 2>>}
\* The window cleared, the type changed.
Cleared  == Named \cup {<<"description", 10>>, <<"imageUrl", 0>>, <<"endTime", 9>>, <<"antiSnipingMins", Blank>>}
Switched == {<<"type", "DUTCH">>, <<"type", "ENGLISH">>, <<"title", 3>>, <<"startingPrice", 5>>, <<"description", 10>>}
\* Dutch auctions, with a reserve below and above the price.
Dutch ==
  Named \cup {<<"description", 10>>, <<"type", "DUTCH">>, <<"type", "ENGLISH">>, <<"reservePrice", 0>>,
              <<"reservePrice", 2>>, <<"reservePrice", 7>>, <<"dutchPriceStep", 2>>, <<"dutchInterval", 60>>}
=============================================================================
