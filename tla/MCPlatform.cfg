CONSTANTS
  Parts = {"descriptors", "acpi", "rtc", "apic"}
  TssAddress <- LowTss
  Handler <- Handlers
  Tables <- MCTables
  APIC_PAGES = 4
  Clock <- MCClock
  Mode <- Hours24
  Second = 16
  Delay = 2
  CountMax = 30
  TIMER_FREQUENCY = 2
  Redirect <- ResetEntries
  LocalId <- ApicId
SPECIFICATION Spec
INVARIANTS
  SelectorsFindDescriptors
  InterruptsReachHandlers
  ApicsMapped
  DateWasShown
  SourcesAreSetUp
PROPERTIES
  CalibrationEnds
\* the tables are built once, and every part returns
CHECK_DEADLOCK FALSE
