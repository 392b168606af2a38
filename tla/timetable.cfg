SPECIFICATION FairSpec
CONSTANTS
  ann = ann
  bob = bob
  Listings <- Schedules
  Bidders = {ann, bob}
  NoBidder = NoBidder
  Purse <- Purses
  Targets <- AskFor
  MaxPrice = 4
  Horizon = 6
  MaxFaults = 1
INVARIANTS
  ClosesWithinWindow
  PriceKeepsPace
  NeverClosedEarly
  SoldWithinAStep
PROPERTIES
  EveryAuctionCloses
CHECK_DEADLOCK FALSE
