CONSTANTS
  Sealed = FALSE
  EndTime = 20
  Snipe = 0
  Stack = 2
  Life = 3
  Fade = 1
  Period = 2
  BannerLife = 4
  Slow = 30
  Fast = 30
  Minute = 4
  Window = 2
  Kinds = {"bid"}
  Pointer = TRUE
  MaxTime = 9
  MaxEvents = 3
  MaxDrops = 0
SPECIFICATION
  NoticesSpec
INVARIANTS
  ToastsLeave
CHECK_DEADLOCK FALSE
