SPECIFICATION Spec
CONSTANTS
  d1 = d1
  d2 = d2
  l1 = l1
  Servers <- ThreeServers
  Calls <- SomeCalls
  Downloads <- D
  Logins <- L
  temp_config_folder <- Folders
  MaxEdition = 2
INVARIANT ClientHasSettings
