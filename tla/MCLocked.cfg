\* no flag above IF is set when without_interrupts reads RFLAGS
CONSTANTS
  Parts = {"lock", "screen", "heap"}
  OtherFlags = {{}, {0, 2, 6, 7}}
  MaxDepth = 4
  Width = 25
  Height = 17
  Stride = 26
  Char = {"a"}
  MaxLength = 7
  HEAP_SIZE = 10
  BLOCK_SIZES <- MCBlockSizes
  Layout <- MCLayout
SPECIFICATION Spec
INVARIANTS
  SpinsOnlyIfBrokenInto
  RecordsNotMixed
  FlagRestored
  ScreenShowsText
  PixelsInBounds
  MemoryIsPartitioned
PROPERTIES
  FaultReported
  HeapIsBlockStore
\* the text has reached its bound, or a panic has ended the writing
CHECK_DEADLOCK FALSE
