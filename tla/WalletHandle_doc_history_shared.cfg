SPECIFICATION Spec
CONSTANTS
  Callers = {c1, c2}
  CallKinds = {"history"}
  WriterFirst = {FALSE, TRUE}
  EngineRaises = {FALSE}
  MaxJobs = 1
  MaxCalls = 2
  MaxReadings = 0
  Worker = Worker
  Probe = Probe
  Unload = Unload
INVARIANTS
  HistoryStable
CHECK_DEADLOCK FALSE
