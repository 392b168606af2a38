SPECIFICATION Spec
CONSTANTS
  Users = {1, 2, 3}
  Auctions = {a, b}
  Txs = {t, u}
INVARIANTS
  CyclesNeedAnAcceptance
CHECK_DEADLOCK FALSE
