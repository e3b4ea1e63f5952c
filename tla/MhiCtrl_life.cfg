SPECIFICATION Spec

CONSTANTS
  Users = {u1, u2}
  Events = 2
  Failing = {"cntrl", "chan", "event", "cmd", "dev", "bus", "regs", "vectors", "grant", "irqs", "ctxt", "seg", "lines", "offsets", "dma"}
  Retries = 1

INVARIANT Undone
INVARIANT Loaded

\* The device is gone, or probe has failed for good.
CHECK_DEADLOCK FALSE
