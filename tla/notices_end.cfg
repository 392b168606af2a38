CONSTANTS
  Sealed = FALSE
  EndTime = 4
  Snipe = 2
  Stack = 1
  Life = 3
  Fade = 1
  Period = 30
  BannerLife = 4
  Slow = 30
  Fast = 30
  Minute = 4
  Window = 2
  Kinds = {"bid", "snipe"}
  Pointer = FALSE
  MaxTime = 5
  MaxEvents = 3
  MaxDrops = 0
SPECIFICATION
  NoticesSpec
INVARIANTS
  EndAsAnnounced
CHECK_DEADLOCK FALSE
