SPECIFICATION Spec
CONSTANTS
  f1 = f1
  f2 = f2
  Files <- TwoFiles
  ServerNames <- TheServers
  Modes <- SomeModes
  mountpoint = "/ruciofs"
  rucio_cache_path = "/ruciofs-cache"
  Scopes <- TheScopes
  FileDids <- TheFiles
  Contents <- TheContents
  MacNames <- Mac
  MaxDepth = 5
CHECK_DEADLOCK FALSE
INVARIANTS ListedAreValidated RegisteredHaveCertificate DepthIsRight PathNamesItsDid FilesAppearUnlessShared ListedAreServed
