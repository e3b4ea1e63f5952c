\* A patient and an impatient reader, fewer objects than events.
SPECIFICATION FairSpec

CONSTANTS
  Files = {f1, f2}
  Impatient = {f2}
  Sources = {s1, s2}
  EVENT_MAX = 1
  Events = 2
  Opens = 3
  NoMems = 1
  Faults = 1

INVARIANT WellFormed
PROPERTY LogSpec
PROPERTY NobodyStuck

\* The files are closed, the directory is gone and no event comes.
CHECK_DEADLOCK FALSE
