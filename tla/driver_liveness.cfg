SPECIFICATION Spec
CONSTANTS
  MaxPages = 2
  Fitted = {"winbond", "micron"}
PROPERTIES
  EveryCallReturns
