SPECIFICATION Spec
CONSTANTS
  None = None
  timer_loop = timer_loop
  print_keypresses = print_keypresses
  init_task = init_task
  print_every_sec = print_every_sec
  Task <- MCTask2
  TimerTask = timer_loop
  KeyTask = print_keypresses
  Sleeper <- MCSleeper2
  Rounds <- MCRounds2
  Durations <- MCDurations
  Scancode = {"s", "newline", "silent"}
  ScancodeCap = 2
  ShutdownCmd <- MCShutdown
  QueueCap = 8
  MaxIrqs = 4
INVARIANTS
  TypeOK
  NoLostWakeup
  HaltOnlyWhenIdle
  WakersBelongToLiveTasks
  QueueBound
  NoPanic
  SleepNotEarly
