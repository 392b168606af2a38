SPECIFICATION ProxySpec
CONSTANTS
  seller = seller
  ann = ann
  bob = bob
  cat = cat
  Users = {seller, ann, bob, cat}
  NoUser = NoUser
  Auctions = {"x"}
  Catalogs <- Grid
  BidAmounts = {4}
  Transfers = {6}
  Opening <- Funds
  Moderations = {}
  OneScheduler = TRUE
  MaxBids = 1
  MaxDeposited <- NoDeposits
  FaultKinds = {}
  MaxFaults = 0
  Limits = {6, 9}
  MaxLadder = 100000
  MaxJobs = 1
  MaxAborts = 0
SYMMETRY ThreeBidders
INVARIANTS
  LaddersKeepTheBooks
  RungsWithinLimits
  LogFidelity
  ClearsAtSecondPrice
CHECK_DEADLOCK FALSE
