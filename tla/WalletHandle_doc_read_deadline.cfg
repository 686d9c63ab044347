SPECIFICATION BusySpec
CONSTANTS
  Callers = {c1}
  CallKinds = {"read", "history"}
  WriterFirst = {FALSE}
  EngineRaises = {FALSE}
  MaxJobs = 2
  MaxCalls = 1
  MaxReadings = 0
  Worker = Worker
  Probe = Probe
  Unload = Unload
PROPERTIES
  ReadsHaveDeadline
CHECK_DEADLOCK FALSE
