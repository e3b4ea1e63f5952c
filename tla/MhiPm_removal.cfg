\* A modem that does not crash, from every boot stage; removal past the first.
\* The modem may finally rest, suspended or removed: stopping is no error.
SPECIFICATION FairSpec
CONSTANTS
  FirstEE = {"PTHRU", "SBL", "AMSS"}
  ResetEE = {"AMSS", "EDL"}
  SysErrs = 0
  EarlyCrash = FALSE
  Idles = 1
  Suspends = 1
  Lates = 1
  Removable = {"SBL", "AMSS"}
INVARIANT CtxtInUse
PROPERTY StaysDown
PROPERTY ComesUp
CHECK_DEADLOCK FALSE
