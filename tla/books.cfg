SPECIFICATION Spec
CONSTANTS
  seller = seller
  ann = ann
  bob = bob
  Users = {seller, ann, bob}
  NoUser = NoUser
  Auctions = {"x"}
  Catalogs <- EachType
  BidAmounts = {3, 5, 6}
  Transfers = {3}
  Opening <- DeepFunds
  Moderations = {"cancel", "activate"}
  OneScheduler = FALSE
  MaxBids = 2
  MaxDeposited <- SellerDeposits
  FaultKinds = {"abort"}
  MaxFaults = 1
SYMMETRY Bidders
INVARIANTS
  TypeOK
  LedgerExplainsWallets
  HoldsCovered
  MoneyConserved
  EnglishBidsClimb
CHECK_DEADLOCK FALSE
