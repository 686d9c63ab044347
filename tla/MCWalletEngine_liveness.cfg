SPECIFICATION AnsweringSpec
CONSTANTS
  onion = onion
  onion2 = onion2
  direct = direct
  NoUrl = NoUrl
  Urls = {onion, onion2, direct}
  Networks = {"mainnet", "stagenet"}
  MaxJobs = 2
  MaxTx = 0
  MaxHeight = 1
  MaxReloads = 1
  GiveUp = 1
  AskEvery = 1
  FaultSets <- EventFaults
  Answers <- CatchUpModes
  Kinds <- OpenClose
INVARIANTS
  TypeOK
  LocksMirrorWallet
PROPERTIES
  CatchUpGivesWay
  ReachesTor
  ShutdownCompletes
  StaleLockReleased
  CatchUpAbandonedOnlyWhenSilent
