SPECIFICATION Spec
CONSTANTS
  onion = onion
  onion2 = onion2
  direct = direct
  NoUrl = NoUrl
  Urls = {onion, onion2, direct}
  Networks = {"mainnet"}
  MaxJobs = 3
  MaxTx = 0
  MaxHeight = 1
  MaxReloads = 0
  GiveUp = 1
  AskEvery = 1
  FaultSets <- InitFaults
  Answers <- Onions
  Kinds <- OpenClose
PROPERTIES
  RouteOnlyTowardTor
