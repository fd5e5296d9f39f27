CONSTANTS
  Parts = {"ide"}
  Machine <- MCMachine
  BYTE = 3
  HEAD = 2
  Drives <- MCDrives
  Lba <- MCLba
  ErrorBits <- MCErrorBits
  REQUESTS = 2
  Disk <- MCDisk
  U32_VALUES = 262144
  Input <- MCInput
  MaxChunk = 3
SPECIFICATION Spec
INVARIANT
  WriteOkIsWritten
\* no request is left
CHECK_DEADLOCK FALSE
