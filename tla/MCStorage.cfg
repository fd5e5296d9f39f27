CONSTANTS
  Parts = {"pci", "ide", "gpt", "crc"}
  Machine <- MCMachine
  BYTE = 3
  HEAD = 2
  Drives <- MCDrives
  Lba <- MCLba
  ErrorBits <- MCErrorBits
  REQUESTS = 2
  Disk <- MCDisk
  U32_VALUES = 262144
  Input <- MCInput
  MaxChunk = 3
SPECIFICATION Spec
INVARIANTS
  BusIsListed
  FoundAreDrives
  ReadReturnsSectors
  OnlyRequestedSectorsChange
  AcceptedIsListed
  GoodIsAccepted
  ChecksumIsRemainder
PROPERTY
  RequestsEnd
\* every part returns, and no request is left
CHECK_DEADLOCK FALSE
