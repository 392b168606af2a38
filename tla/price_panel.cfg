SPECIFICATION Spec
CONSTANTS
  Types = {"ENGLISH", "DUTCH", "SEALED_BID"}
  Amounts = {5, 7, 9}
  Start = 4
  Inc = 2
  Top = 9
  MaxTyped = 2
  MaxSent = 3
  Losses = TRUE
INVARIANTS
  HeldOnce
  NoDeadButton
CHECK_DEADLOCK FALSE
