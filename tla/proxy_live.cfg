SPECIFICATION FairProxySpec
CONSTANTS
  seller = seller
  ann = ann
  bob = bob
  cat = cat
  Users = {seller, ann, bob}
  NoUser = NoUser
  Auctions = {"x"}
  Catalogs <- Grid
  BidAmounts = {4, 5}
  Transfers = {6}
  Opening <- Funds
  Moderations = {}
  OneScheduler = TRUE
  MaxBids = 1
  MaxDeposited <- NoDeposits
  FaultKinds = {}
  MaxFaults = 0
  Limits = {6, 9}
  MaxLadder = 100000
  MaxJobs = 1
  MaxAborts = 1
PROPERTIES
  LadderEnds
  SoldOnceWithLadders
CHECK_DEADLOCK FALSE
