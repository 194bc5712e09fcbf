SPECIFICATION Spec
CONSTANTS
  c1 = c1
  c2 = c2
  a1 = a1
  Server = server
  Clients <- OneClient
  AddressOf <- Shared
  Blockable <- NoAddress
  ClientPriorities <- System
  ServerPriorities <- Silent
  HighTries = 1
  MediumTries = 1
  LowTries = 1
  Window = 2
  IdSpace = 4
  MaxId = 3
  History = 4
  MaxRestarts = 0
  Duplication = TRUE
  Timeout = 1
  BlockQuiet = 1
INVARIANTS
  NoNearDuplicate
  SessionsAgree
