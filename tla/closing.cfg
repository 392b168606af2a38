SPECIFICATION FairSpec
CONSTANTS
  seller = seller
  ann = ann
  bob = bob
  Users = {seller, ann, bob}
  NoUser = NoUser
  Auctions = {"x", "y"}
  Catalogs <- Pair
  BidAmounts = {2, 3}
  Transfers = {}
  Opening <- Funds
  Moderations = {}
  OneScheduler = TRUE
  MaxBids = 2
  MaxDeposited <- NoDeposits
  FaultKinds = {"stall"}
  MaxFaults = 1
INVARIANTS
  NothingForgotten
PROPERTIES
  WinnerPays
  LosersReleased
CHECK_DEADLOCK FALSE
