SPECIFICATION Spec
CONSTANTS
  Tabs = {t1}
  Users = {ann, bob}
  Admins = {bob}
  NoUser = NoUser
  MaxLogins = 2
  MaxCalls = 2
  Unreliable = TRUE
INVARIANTS
  SessionWhole
  ActsAsShown
CHECK_DEADLOCK FALSE
