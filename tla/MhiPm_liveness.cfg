\* One crash, before or after power-up, one suspend, removal at any time.
\* The modem may finally rest, suspended or removed: stopping is no error.
SPECIFICATION FairSpec
CONSTANTS
  FirstEE = {"AMSS"}
  ResetEE = {"AMSS", "EDL"}
  SysErrs = 1
  EarlyCrash = TRUE
  Idles = 0
  Suspends = 1
  Lates = 0
  Removable = {"EDL", "SBL", "AMSS", "RDDM"}
PROPERTY CrashHandled
PROPERTY NobodyStuck
CHECK_DEADLOCK FALSE
