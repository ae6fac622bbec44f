SPECIFICATION Spec
CONSTANTS
  MaxPages = 2
  Fitted = {"winbond", "micron"}
INVARIANTS
  TypeOK
  NoForeignTransfer
  BusyOrAsleepIsQuad
  NothingRunsTwice
  SessionAgrees
  OkMeansDone
  InitRecovers
PROPERTIES
  CallAdvances
