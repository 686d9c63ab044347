SPECIFICATION Spec
CONSTANTS
  Callers = {c1, c2}
  CallKinds = {"read", "reveal", "history", "edit"}
  WriterFirst = {FALSE, TRUE}
  EngineRaises = {FALSE, TRUE}
  MaxJobs = 3
  MaxCalls = 2
  MaxReadings = 2
  Worker = Worker
  Probe = Probe
  Unload = Unload
INVARIANTS
  TypeOK
  NoUseAfterClose
  ReadingOfOpenWallet
  ConnectedWhereDialled
  RevealOfOwnWallet
PROPERTIES
  ReadsAnswerThroughSwitch
SYMMETRY Alike
CHECK_DEADLOCK FALSE
