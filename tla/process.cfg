SPECIFICATION Spec
CONSTANTS
  Setups <- MCSetups
  Passwds <- MCPasswds
  AwsKeys <- MCAwsKeys
  NameChars <- MCNameChars
  UserNames = {"dyndynser", "nobody"}
  Ids = {0, 5, 7, 9}
  MaxName = 4
  MaxLabel = 3
  FILE_SIZE_MAX_BYTES = 3
  Day = 2
  MaxDelay = 1
  Timeout = 1
  MaxClock = 3
  None = None
  Rejected = Rejected
  NoUser = NoUser
  LookupError = LookupError
INVARIANTS
  TypeOK
  DomainsAreHostNames
  BuffersAreBounded
  RootIsGone
  MustBeRootIsTrue
  
  SuccessIsEarned
  RequestsAuthenticate
  ChangesArriveIntact
