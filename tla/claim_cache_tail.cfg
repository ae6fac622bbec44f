SPECIFICATION AlignedSpec
CONSTANTS
  PageSize = 4
  LineSize = 4
  RamSize = 12
  Sram1Base = 4
  FlashSize = 8
  Overhang = 8
INVARIANT
  SourceDataWritten
