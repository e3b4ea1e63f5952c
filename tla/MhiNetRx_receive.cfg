SPECIFICATION FairSpec

CONSTANTS
  N = 3
  PoolMax = 1
  Weight = 2
  Frames = 3
  Fails = 2
  Crashes = 1
  Early = FALSE
  Short = FALSE

INVARIANT WellFormed
INVARIANT NothingLeft
PROPERTY Delivered
PROPERTY Replenished

\* All frames are delivered, or the device is gone.
CHECK_DEADLOCK FALSE
