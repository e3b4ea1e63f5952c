SPECIFICATION FairSpec

CONSTANTS
  N = 5
  Low = 3
  High = 3
  V = 2
  Packets = 5
  Acks = 1
  Restarts = 1

INVARIANT NeverFull
PROPERTY EverySent

\* All packets are sent.
CHECK_DEADLOCK FALSE
