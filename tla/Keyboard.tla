------------------------------ MODULE Keyboard ------------------------------
(***************************************************************************)
(* src/src/task/keyboard.rs and src/src/shell.rs: the keyboard interrupt,  *)
(* the queue of scancodes, the task print_keypresses, and the shell.       *)
(*                                                                         *)
(* A scancode is named after what the pc_keyboard crate makes of it:       *)
(* "silent" (no key event: a release, a prefix byte), "raw" (a             *)
(* DecodedKey::RawKey), "newline", or any other character.                 *)
(* print_keypresses uses the places of pc that Timer describes, and        *)
(*   key      a scancode was received and is being handled                 *)
(***************************************************************************)
EXTENDS Timer

CONSTANTS KeyTask,       \* the task running print_keypresses
          Scancode,      \* what the keyboard can send
          ScancodeCap,   \* capacity of SCANCODE_QUEUE (100)
          ShutdownCmd    \* the characters of the command "shutdown"

ASSUME KeyboardAssumption ==
  /\ KeyTask \in Task \ (Sleeper \cup {TimerTask})
  /\ None \notin Scancode
  /\ ScancodeCap \in Nat \ {0}
  /\ ShutdownCmd \in Seq(Scancode \ {"silent", "raw", "newline"})

VARIABLES key_ready,       \* SCANCODE_QUEUE is initialized
          scancode_queue,  \* its contents
          key_waker,       \* the static WAKER
          key,             \* the scancode print_keypresses is handling
          line             \* Shell.input_buffer

keyVars == <<key_ready, scancode_queue, key_waker, key, line>>

KeyboardTypeOK ==
  /\ key_ready \in BOOLEAN
  /\ scancode_queue \in Seq(Scancode)
  /\ Len(scancode_queue) <= ScancodeCap
  /\ key_waker \in Cell({KeyTask})
  /\ key \in Scancode \cup {None}
  /\ line \in Seq(Scancode)

KeyboardInit ==
  /\ key_ready = FALSE
  /\ scancode_queue = <<>>
  /\ key_waker = EmptyCell
  /\ key = None
  /\ line = <<>>

\* kernel_main sets logger_is_serial, so the framebuffer LOGGER that out!
\* unwraps is never initialized.
LOGGER_is_initialized == FALSE

----------------------------------------------------------------------------
\* Mutant: room for one scancode too many.
AddScancode_OffByOne(sc) ==
  /\ log' = "none"
  /\ IF key_ready /\ Len(scancode_queue) <= ScancodeCap
     THEN /\ scancode_queue' = Append(scancode_queue, sc)
          /\ key_waker' = Taken(key_waker)
          /\ WakeFromHandler(Woken(key_waker))
          /\ UNCHANGED <<key_ready, key, line>>
     ELSE WakeFromHandler(None) /\ UNCHANGED keyVars

\* add_scancode, called by the handler
AddScancode(sc) ==
  \/ /\ ~key_ready
     /\ log' = "scancode_queue_uninitialized"
     /\ WakeFromHandler(None)
     /\ UNCHANGED keyVars
  \/ /\ key_ready
     /\ Len(scancode_queue) = ScancodeCap
     /\ log' = "scancode_queue_full"
     /\ WakeFromHandler(None)
     /\ UNCHANGED keyVars
  \/ /\ key_ready
     /\ Len(scancode_queue) < ScancodeCap
     /\ log' = "none"
     /\ scancode_queue' = Append(scancode_queue, sc)
     /\ key_waker' = Taken(key_waker)
     /\ WakeFromHandler(Woken(key_waker))
     /\ UNCHANGED <<key_ready, key, line>>

\* ScancodeStream::new, on the first poll of print_keypresses
ScancodeStreamNew ==
  /\ At("poll", KeyTask)
  /\ ~key_ready
  /\ key_ready' = TRUE
  /\ GoTo("poll")
  /\ UNCHANGED <<scancode_queue, key_waker, key, line>>

\* Mutant: the newest scancode is taken first.
PopScancode_Lifo ==
  /\ key' = scancode_queue[Len(scancode_queue)]
  /\ scancode_queue' = SubSeq(scancode_queue, 1, Len(scancode_queue) - 1)

\* ArrayQueue::pop of a queue that is not empty
PopScancode ==
  /\ key' = Head(scancode_queue)
  /\ scancode_queue' = Tail(scancode_queue)

\* poll_next: the first pop
KeyFirstTry ==
  /\ At("poll", KeyTask)
  /\ key_ready
  /\ IF scancode_queue # <<>>
     THEN PopScancode /\ GoTo("key")
     ELSE GoTo("register") /\ UNCHANGED <<key, scancode_queue>>
  /\ UNCHANGED <<key_ready, key_waker, line>>

\* poll_next: WAKER.register, in its two steps
KeyRegister ==
  /\ At("register", KeyTask)
  /\ key_waker' = BeginRegister(key_waker)
  /\ GoTo("registering")
  /\ UNCHANGED <<key_ready, scancode_queue, key, line>>

KeyRegistered ==
  /\ At("registering", KeyTask)
  /\ key_waker' = EndRegister(key_waker, KeyTask)
  /\ IF RegisterWakes(key_waker)
     THEN /\ WakeTask(KeyTask, "recheck")
          /\ UNCHANGED <<tasks, waker_cache, STOP, cur, intr>>
     ELSE GoTo("recheck")
  /\ UNCHANGED <<key_ready, scancode_queue, key, line>>

\* poll_next: the second pop
KeySecondTry ==
  /\ At("recheck", KeyTask)
  /\ IF scancode_queue # <<>>
     THEN PopScancode /\ GoTo("take")
     ELSE ReturnPending /\ UNCHANGED <<key, scancode_queue>>
  /\ UNCHANGED <<key_ready, key_waker, line>>

\* poll_next: WAKER.take() and Poll::Ready
KeyTake ==
  /\ At("take", KeyTask)
  /\ key_waker' = Taken(key_waker)
  /\ GoTo("key")
  /\ UNCHANGED <<key_ready, scancode_queue, key, line>>

----------------------------------------------------------------------------
\* Shell::char_input.  A buffer longer than the command cannot equal it any
\* more however it goes on, so it is not lengthened further.
CharInput(c) ==
  IF c # "newline"
  THEN /\ line' = IF Len(line) > Len(ShutdownCmd) THEN line ELSE Append(line, c)
       /\ UNCHANGED STOP
  ELSE IF line = ShutdownCmd
       THEN STOP' = TRUE /\ UNCHANGED line
       ELSE line' = <<>> /\ UNCHANGED STOP

\* the body of the loop in print_keypresses
HandleKey ==
  /\ At("key", KeyTask)
  /\ key' = None
  /\ IF key \in {"silent", "raw"}
     THEN UNCHANGED <<line, STOP>>
     ELSE CharInput(key)
  /\ pc' = IF key = "raw" /\ ~LOGGER_is_initialized THEN "panic" ELSE "poll"
  /\ UNCHANGED <<tasks, task_queue, waker_cache, cur, intr,
                 key_ready, scancode_queue, key_waker>>

KeyboardStep ==
  \/ ScancodeStreamNew
  \/ KeyFirstTry
  \/ KeyRegister
  \/ KeyRegistered
  \/ KeySecondTry
  \/ KeyTake
  \/ HandleKey
============================================================================
