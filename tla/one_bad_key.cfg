SPECIFICATION Spec
CONSTANTS
  Domains <- MCDomains
  Names <- OneName
  SigningKeys = {"k1", "k2"}
  DummyKey = DummyKey
  NoKey = NoKey
  IPv4Addrs = {"v4"}
  IPv6Addrs = {}
  CertPaths = {"a.crt", "b.crt"}
  NoFile = NoFile
  KeyDirs <- OversizedToo
  MaxRotations = 0
  Second = 1
  MaxAge = 1
  Tolerance = 0
  ForeignKeys <- Notes
  NoObject = NoObject
  Malformed = Malformed
  NoRecord = NoRecord
  InitialBuckets <- CleanOrOld
  ZoneDomains <- MCDomains
  PageSize = 2
  MaxNow = 1
  MaxFaults = 1
  Machines <- OneMachine
  Clients <- OneClient
  MachineOf <- OnOne
  ClientName <- NameOfOne
  ClientKey <- KeyOfOne
  InsecureClients = {}
  DryRunClients = {}
  Skew <- NoSkewOne
  NoAddr = NoAddr
  NoRequest = NoRequest
  MaxMoves = 0
  Servers = {"s1"}
  DryModes = {FALSE}
  SkipModes = {FALSE}
PROPERTIES
  OneBadKeyIsIsolated
