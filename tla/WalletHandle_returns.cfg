SPECIFICATION LivelySpec
CONSTANTS
  Callers = {c1, c2}
  CallKinds = {"read", "reveal", "history", "edit"}
  WriterFirst = {FALSE, TRUE}
  EngineRaises = {TRUE}
  MaxJobs = 1
  MaxCalls = 2
  MaxReadings = 1
  Worker = Worker
  Probe = Probe
  Unload = Unload
PROPERTIES
  EveryCallReturns
  UnloadEnds
CHECK_DEADLOCK FALSE
