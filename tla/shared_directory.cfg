SPECIFICATION Spec
CONSTANTS
  TokenOrder <- MCTokenOrder
  Dirs <- MCDirs
  Stems = {"alpha", "zeta"}
  OtherFiles <- MCOtherFiles
  PageSize = 1
  NoToken = NoToken
INVARIANTS
  SharedDirectoryIsServed
