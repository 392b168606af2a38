SPECIFICATION Spec
CONSTANTS
  Tabs = {t1, t2}
  Users = {ann, bob}
  Admins = {bob}
  NoUser = NoUser
  MaxLogins = 2
  MaxCalls = 2
  Unreliable = FALSE
INVARIANTS
  ActsAsShown
CHECK_DEADLOCK FALSE
