SPECIFICATION Spec
CONSTANTS
  ann = ann
  bob = bob
  x = x
  y = y
  Bidders = {ann, bob}
  Auctions = {x, y}
  Seller <- Sellers
  Window = 2
  FirstBid = 8
  MaxTime = 4
  MaxBids = 4
INVARIANTS
  WindowTypeOK
  WindowExact
  ResponseInWindow
CHECK_DEADLOCK FALSE
