SPECIFICATION Spec
CONSTANTS
  MaxPages = 1
  Fitted = {"winbond"}
INVARIANT
  ReadOkMeansFilled
