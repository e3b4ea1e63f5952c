SPECIFICATION FairSpec

CONSTANTS
  Chans = {c1, c2}
  Settings = {{}, {"DTR"}}
  Signals = {{"CD"}, {}}
  Stray = stray
  Ring = 2
  Bufs = 1
  Calls = 2
  Reports = 1
  Short = 1
  Fails = 1
  Late = 1
  Removals = 1

INVARIANT WellFormed
INVARIANT WordAgrees
PROPERTY Returns

\* The calls are made and the reports delivered.
CHECK_DEADLOCK FALSE
