SPECIFICATION FairSpec
CONSTANTS
  Domains <- MCDomains
  Names <- TwoNames
  SigningKeys = {"k1", "k2"}
  DummyKey = DummyKey
  NoKey = NoKey
  IPv4Addrs = {"v4a", "v4b"}
  IPv6Addrs = {}
  CertPaths = {"a.crt", "b.crt"}
  NoFile = NoFile
  KeyDirs <- RotatedDirs
  MaxRotations = 1
  Second = 1
  MaxAge = 1
  Tolerance = 0
  ForeignKeys = {}
  NoObject = NoObject
  Malformed = Malformed
  NoRecord = NoRecord
  InitialBuckets <- BadNeighbours
  ZoneDomains <- MCDomains
  PageSize = 1
  MaxNow = 0
  MaxFaults = 1
  Machines <- OneMachine
  Clients <- TwoClients
  MachineOf <- BothOnOne
  ClientName <- SameName
  ClientKey <- BothUseFirstKey
  InsecureClients = {}
  DryRunClients = {}
  Skew <- NoSkewOne
  NoAddr = NoAddr
  NoRequest = NoRequest
  MaxMoves = 1
  Servers = {"s1"}
  DryModes = {FALSE}
  SkipModes = {FALSE}
PROPERTIES
  RunsEnd
  ServedRecordsConverge
  RevocationTakesEffect
  RevokedStayOut
