CONSTANTS
  Sealed = FALSE
  EndTime = 4
  Snipe = 2
  Stack = 2
  Life = 1
  Fade = 1
  Period = 1
  BannerLife = 2
  Slow = 3
  Fast = 1
  Minute = 2
  Window = 1
  Kinds = {"bid", "snipe", "ladder", "end", "load"}
  Pointer = TRUE
  MaxTime = 5
  MaxEvents = 2
  MaxDrops = 1
SPECIFICATION
  NoticesSpec
INVARIANTS
  ToastsLeave
  EndAsAnnounced
CHECK_DEADLOCK FALSE
