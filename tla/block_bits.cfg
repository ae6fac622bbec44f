SPECIFICATION Spec
CONSTANTS
  NumBlocks = 1
  ChunksPerBlock = 1
  ChunkSize = 3
  Bytes = {{}, {1}, {1, 2}}
  Failing = {"initialize", "uninitialize", "read", "erase", "write"}
PROPERTIES
  IsBlockStore
