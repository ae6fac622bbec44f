SPECIFICATION Spec
CONSTANTS
  MicronDummies = {1, 8, 14}
  WinbondDummies = {2, 4, 6, 8}
  FirstBytes = {0, 32, 239, 255}
  SecondBytes = {0, 96, 112, 186, 187, 255}
  ThirdBytes = {0, 22, 23, 24, 255}
INVARIANTS
  TypeOK
  FoundIsListed
  LatenciesAgree
  AddressableExactly
