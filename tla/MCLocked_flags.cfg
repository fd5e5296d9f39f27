\* the overflow flag, bit 11, may be set when without_interrupts reads RFLAGS
CONSTANTS
  Parts = {"lock"}
  OtherFlags = {{}, {11}}
  MaxDepth = 3
  Width = 25
  Height = 17
  Stride = 26
  Char = {"a"}
  MaxLength = 7
  HEAP_SIZE = 10
  BLOCK_SIZES <- MCBlockSizes
  Layout <- MCLayout
SPECIFICATION Spec
INVARIANT
  ClosureRunsWithInterruptsDisabled
