SPECIFICATION Spec
CONSTANTS
  Bidders = {ann, bob}
  Amounts = {2, 3}
  Nothing = Nothing
  MaxCommits = 3
  MaxLosses = 1
SYMMETRY BidderSymmetry
INVARIANTS
  ChosenBlind
  RevealedWasCommitted
  CanStillReveal
CHECK_DEADLOCK FALSE
