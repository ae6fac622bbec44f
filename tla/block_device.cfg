SPECIFICATION Spec
CONSTANTS
  NumBlocks = 2
  ChunksPerBlock = 2
  ChunkSize = 1
  Bytes = {{}, {1}}
  Failing = {"initialize", "uninitialize", "read", "erase", "write"}
INVARIANTS
  TypeOK
PROPERTIES
  IsBlockStore
  WriteAdvances
  WriteReturns
