SPECIFICATION Spec
CONSTANTS
  seller = seller
  ann = ann
  bob = bob
  Users = {seller, ann, bob}
  NoUser = NoUser
  Auctions = {"x", "y"}
  Catalogs <- Pairs
  BidAmounts = {2, 3}
  Transfers = {2}
  Opening <- Funds
  Moderations = {}
  OneScheduler = TRUE
  MaxBids = 2
  MaxDeposited <- NoDeposits
  FaultKinds = {"crash", "stall", "abort"}
  MaxFaults = 1
SYMMETRY Bidders
INVARIANTS
  BestBidWins
  PaidAsShown
  HeldBacksBids
PROPERTIES
  OutcomeFinal
  SoldOnce
CHECK_DEADLOCK FALSE
