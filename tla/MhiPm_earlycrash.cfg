\* Violated by the code: the modem fails while a READY transition is queued.
SPECIFICATION Spec
CONSTANTS
  FirstEE = {"AMSS"}
  ResetEE = {"AMSS", "EDL"}
  SysErrs = 1
  EarlyCrash = TRUE
  Idles = 0
  Suspends = 0
  Lates = 0
  Removable = {}
INVARIANT RingsResetWhileQuiet
CHECK_DEADLOCK FALSE
