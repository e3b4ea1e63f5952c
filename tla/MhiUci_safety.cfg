SPECIFICATION FairSpec

CONSTANTS
  Users = {u1, u2}
  NoOne = NoOne
  N = 2
  Kinds = {TRUE, FALSE}
  Packets = 3
  Opens = 3
  Lates = 1
  Crashes = 1
  Odds = 1

INVARIANT WellFormed
INVARIANT DeviceInUse
INVARIANT ChannelsAgree
PROPERTY PipeSpec
PROPERTY QueuedIntoRings
PROPERTY NoRestart
PROPERTY NobodyStuck

\* Nobody opens the device any more, or it is gone.
CHECK_DEADLOCK FALSE
