SPECIFICATION Spec
CONSTANTS
  login = login
  d1 = d1
  Servers <- OneServer
  Calls <- TwoUsers
  Downloads <- D
  temp_config_folder <- Folders
  MaxEdition = 1
  Stdins <- Terminals
  Stdouts <- OpenOutput
  PtyBuffer = 1
  MaxOutput = 2
  MaxTyped = 1
INVARIANTS TypeOK CopiesAreComplete OwnTokenReceived AllRelayed
PROPERTIES OutputReachesCaller LoginEnds
