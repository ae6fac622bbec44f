SPECIFICATION Spec
CONSTANTS
  PageSize = 4
  LineSize = 4
  RamSize = 12
  Sram1Base = 4
  FlashSize = 12
  Overhang = 4
INVARIANTS
  TypeOK
  WritesItsRange
  ReadSeesChip
  StoresKept
