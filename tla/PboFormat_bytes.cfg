SPECIFICATION Spec
CONSTANTS
  BufferSize = 5
  MinPack = 2
  MaxChunk = 3
  ChunkBlocks = 2
  LowRange = 3
  HighRange = 2
  Names <- MCNames
  Contents <- MCContents
  Foreign <- MCForeign
  NoPbo = NoPbo
  SizeBits = 5
  MaxSaves = 2
INVARIANTS
  ReadsWhatWasWritten
  ExtractedIsOriginal
