SPECIFICATION Spec
CONSTANTS
  c1 = c1
  c2 = c2
  a1 = a1
  Server = server
  Clients <- OneClient
  AddressOf <- Shared
  Blockable <- NoAddress
  ClientPriorities <- System
  ServerPriorities <- Bounded
  HighTries = 2
  MediumTries = 2
  LowTries = 2
  Window = 1
  IdSpace = 3
  MaxId = 2
  History = 1
  MaxRestarts = 0
  Duplication = TRUE
  Timeout = 1
  BlockQuiet = 1
PROPERTIES
  NoResendAfterTimeout
