SPECIFICATION FairSpec
CONSTANTS
  Domains <- MCDomains
  Names <- OneName
  SigningKeys = {"k1", "k2"}
  DummyKey = DummyKey
  NoKey = NoKey
  IPv4Addrs = {"v4a", "v4b"}
  IPv6Addrs = {}
  CertPaths = {"a.crt", "b.crt"}
  NoFile = NoFile
  KeyDirs <- OneCert
  MaxRotations = 0
  Second = 1
  MaxAge = 0
  Tolerance = 0
  ForeignKeys <- Notes
  NoObject = NoObject
  Malformed = Malformed
  NoRecord = NoRecord
  InitialBuckets <- Usurped
  ZoneDomains <- MCDomains
  PageSize = 1
  MaxNow = 0
  MaxFaults = 1
  Machines <- OneMachine
  Clients <- OneClient
  MachineOf <- OnOne
  ClientName <- NameOfOne
  ClientKey <- KeyOfOne
  InsecureClients = {}
  DryRunClients = {}
  Skew <- NoSkewOne
  NoAddr = NoAddr
  NoRequest = NoRequest
  MaxMoves = 1
  Servers = {"s1", "s2"}
  DryModes = {FALSE}
  SkipModes = {FALSE}
PROPERTIES
  ImplementsService
  RunsAdvance
  ServedRecordsConverge
