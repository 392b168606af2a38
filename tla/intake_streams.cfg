SPECIFICATION FairSpec
CONSTANTS
  Servers = {s1}
  NoServer = NoServer
  Users = {ann, bob}
  Auctions = {x, y}
  NoAuction = NoAuction
  Backpressure = 1
  StreamLength = 4
  ReadCount = 2
  MaxCrashes = 1
  MaxRedisErrors = 1
INVARIANTS
  StreamBounded
  AckedWasTried
PROPERTIES
  BidsInOrderOnce
  BacklogCleared
CHECK_DEADLOCK FALSE
