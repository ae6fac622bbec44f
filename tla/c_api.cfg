SPECIFICATION CSpec
CONSTANTS
  MaxPages = 2
  Fitted = {"winbond", "micron"}
INVARIANTS
  CTypeOK
  InitRecovers
  DeletedQuietly
PROPERTIES
  ContractKept
