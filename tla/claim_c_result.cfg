SPECIFICATION CSpec
CONSTANTS
  MaxPages = 1
  Fitted = {"winbond"}
INVARIANT
  ResultHasItsName
