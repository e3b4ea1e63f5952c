\* One crash, one M2, one suspend, one late answer, from every boot stage.
\* The modem may finally rest, suspended or removed: stopping is no error.
SPECIFICATION Spec
CONSTANTS
  FirstEE = {"PTHRU", "EDL", "SBL", "AMSS"}
  ResetEE = {"AMSS", "EDL"}
  SysErrs = 1
  EarlyCrash = FALSE
  Idles = 1
  Suspends = 1
  Lates = 1
  Removable = {}
INVARIANT WellFormed
INVARIANT M3Agreed
INVARIANT RingsResetWhileQuiet
PROPERTY ResetKept
PROPERTY LadderSpec
CHECK_DEADLOCK FALSE
