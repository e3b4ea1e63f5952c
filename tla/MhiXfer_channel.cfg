SPECIFICATION FairSpec

CONSTANTS
  Kinds = {TRUE, FALSE}
  N = 3
  Uplink = TRUE
  Burst = TRUE
  Submits = 4
  Lows = 2
  Cycles = 2
  Crashes = 2
  BufCrashes = 0

INVARIANT WellFormed
INVARIANT Announced
INVARIANT PendingExact
PROPERTY QueueSpec
PROPERTY NoWriteAfterFree
PROPERTY AllReturned

\* Everything is queued and returned, or the channel is gone.
CHECK_DEADLOCK FALSE
