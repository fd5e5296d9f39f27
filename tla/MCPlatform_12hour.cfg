CONSTANTS
  Parts = {"rtc"}
  TssAddress <- LowTss
  Handler <- Handlers
  Tables <- MCTables
  APIC_PAGES = 4
  Clock <- MCClock
  Mode <- Hours12
  Second = 16
  Delay = 2
  CountMax = 30
  TIMER_FREQUENCY = 2
  Redirect <- ResetEntries
  LocalId <- ApicId
SPECIFICATION Spec
INVARIANT
  DateWasShown
\* read_rtc returns
CHECK_DEADLOCK FALSE
