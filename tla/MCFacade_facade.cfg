SPECIFICATION FacadeSpec
CONSTANTS
  Names = {"a", "b", "x"}
  BadNames = {"x"}
  Networks = {"mainnet", "regtest", "testnet"}
  OpenKinds = {"open_wallet", "create_wallet", "restore_from_seed"}
  MaxJobs = 4
  MaxChanges = 2
  MaxRestarts = 1
  Base = 3
  Radix = 8
  EncSizes <- MCEncSizes
  MinChars = 5
  CheckBytes = 1
  KeyBytes = 1
  IdBytes = 1
  VarintBytes = 3
  Word = 32
  AddressPrefixes <- MCPrefixes
  Digest <- MCDigest
  HexDigits = {0, 1}
  TxidChars = 2
  Comma = Comma
  Colon = Colon
  Slash = Slash
  Opening = Opening
  Closing = Closing
  Dot = Dot
  Letter = Letter
  Characters <- MCCharacters
  MaxText = 10
  MaxMarked = 8
  Scheme <- MCScheme
  Hosts <- MCHosts
  Port <- MCPort
INVARIANTS
  TypeOK FilesOfOpenWallets ClosedIsKept ReportedIsKept LostOnlyInCrash
  DecodesAsWritten ValidIsAddress DestinationsByNettype TxidsAsJoined SocketsOfTheNode
PROPERTIES NeverOverwritten
CHECK_DEADLOCK FALSE
