SPECIFICATION Spec
CONSTANTS
  None = None
  timer_loop = timer_loop
  print_keypresses = print_keypresses
  init_task = init_task
  print_every_sec = print_every_sec
  Task <- MCTask1
  TimerTask = timer_loop
  KeyTask = print_keypresses
  Sleeper <- MCSleeper1
  Rounds <- MCRounds1
  Durations <- MCDurations
  Scancode = {"s", "newline"}
  ScancodeCap = 2
  ShutdownCmd <- MCShutdown
  QueueCap = 6
  MaxIrqs = 3
PROPERTY OverrunReported
