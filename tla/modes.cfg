SPECIFICATION Spec
CONSTANTS
  Domains <- MCDomains
  Names <- DotNames
  SigningKeys = {"k1", "k2"}
  DummyKey = DummyKey
  NoKey = NoKey
  IPv4Addrs = {"v4"}
  IPv6Addrs = {}
  CertPaths = {"a.crt", "b.crt"}
  NoFile = NoFile
  KeyDirs <- TwinDirs
  MaxRotations = 0
  Second = 2
  MaxAge = 0
  Tolerance = 2
  ForeignKeys = {}
  NoObject = NoObject
  Malformed = Malformed
  NoRecord = NoRecord
  InitialBuckets <- CleanOrOld
  ZoneDomains <- MCDomains
  PageSize = 2
  MaxNow = 5
  MaxFaults = 0
  Machines <- TwoMachines
  Clients <- TwoClients
  MachineOf <- OnEach
  ClientName <- NameOfDottedTwin
  ClientKey <- KeyOfEach
  InsecureClients = {"c1"}
  DryRunClients = {}
  Skew <- SecondIsSlow
  NoAddr = NoAddr
  NoRequest = NoRequest
  MaxMoves = 0
  Servers = {"s1"}
  DryModes = {TRUE, FALSE}
  SkipModes = {TRUE, FALSE}
INVARIANTS
  VerifiedByOwner
  BadRequestsAreIsolated
PROPERTIES
  DryRunsLeaveNoTrace
  AgeWindow
  StrictRunsPublishOwned
  ImplementsService
