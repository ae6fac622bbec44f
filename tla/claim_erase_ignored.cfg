SPECIFICATION Spec
CONSTANTS
  NumBlocks = 2
  ChunksPerBlock = 1
  ChunkSize = 1
  Bytes = {{}, {1}}
  Failing = {"erase"}
PROPERTIES
  WrittenMeansStored
