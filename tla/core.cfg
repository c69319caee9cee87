SPECIFICATION Spec
CONSTANTS
  Domains <- MCDomains
  Names <- TwoNames
  SigningKeys = {"k1", "k2"}
  DummyKey = DummyKey
  NoKey = NoKey
  IPv4Addrs = {"v4"}
  IPv6Addrs = {"v6"}
  CertPaths = {"a.crt", "b.crt"}
  NoFile = NoFile
  KeyDirs <- TwoCerts
  MaxRotations = 0
  Second = 1
  MaxAge = 0
  Tolerance = 0
  ForeignKeys <- Notes
  NoObject = NoObject
  Malformed = Malformed
  NoRecord = NoRecord
  InitialBuckets <- CleanOrOld
  ZoneDomains <- MCDomains
  PageSize = 2
  MaxNow = 1
  MaxFaults = 1
  Machines <- TwoMachines
  Clients <- TwoClients
  MachineOf <- OnEach
  ClientName <- NameOfEach
  ClientKey <- BothUseFirstKey
  InsecureClients = {}
  DryRunClients = {}
  Skew <- NoSkewTwo
  NoAddr = NoAddr
  NoRequest = NoRequest
  MaxMoves = 1
  Servers = {"s1"}
  DryModes = {FALSE}
  SkipModes = {FALSE}
INVARIANTS
  TypeOK
  OnlyOwnersMoveRecords
  PublishedBeforeDeleted
  ForeignFilesSurvive
PROPERTIES
  RecordsNeverGoBack
