SPECIFICATION Spec
CONSTANTS
  onion = onion
  onion2 = onion2
  direct = direct
  NoUrl = NoUrl
  Urls = {onion, onion2, direct}
  Networks = {"mainnet"}
  MaxJobs = 4
  MaxTx = 2
  MaxHeight = 0
  MaxReloads = 0
  GiveUp = 1
  AskEvery = 1
  FaultSets <- EngineFaults
  Answers <- AllModes
  Kinds <- JobKinds
INVARIANTS
  NothingInTheClear
  SendsOnlyOverTor
  PendingTxOfOpenWallet
  ReportedSentOnce
  StatusMatchesWallet
  FailedOpenIsNoneOrWhole
  EngineMatchesWallet
PROPERTIES
  KeepsSession
