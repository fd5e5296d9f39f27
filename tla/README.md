# Verification of ferr_os

TLA+ modules, TLC runs and TLAPS proofs for the kernel in `src/`. The kernel
runs on one CPU: a cooperative executor polls tasks, and interrupt handlers
wake them. Most of what can go wrong quietly goes wrong between the two, so that
is the core of this project. Around it are modelled the log lock, the memory with
the boot loader that sets it up, the disk with its bus and partitions, and the
set-up of the processor's tables and timers.

## The system

| Part | State | Operations | What is hard about it |
|---|---|---|---|
| Executor (`task/executor.rs`, `task/mod.rs`) | tasks, task_queue (100), waker_cache, STOP | spawn, run, run_ready_tasks, sleep_if_idle, wake | lost wake-ups, `cli`/`hlt` race, queue overflow, stale ids |
| Timer (`task/timer.rs`) | TIMER_FLAG, WAKER, TIMER_TASKS_MANAGER | raise_timer, poll_next, decrement_all, Sleep::new, Sleep::poll | registration races the handler, ticks coalesce |
| Keyboard and shell (`task/keyboard.rs`, `shell.rs`) | SCANCODE_QUEUE (100), WAKER, input_buffer | add_scancode, poll_next, print_keypresses, char_input | the same races, a full queue, shutdown |
| Interrupt handlers (`interrupts.rs`) | APIC lock | timer, keyboard, exceptions | run at any point with interrupts enabled |
| Log lock (`serial_logger.rs`, `logger.rs`, `shared_lib/interrupts.rs`) | a spin lock, RFLAGS | without_interrupts, log, force_unlock | a handler spinning on a lock its own CPU holds |
| Screen (`logger.rs`) | framebuffer, char_buffer, cursor | write_char, newline, clear | pixels and text must agree after any scrolling |
| Heap (`allocator/fixed_size_block.rs`) | free lists, fallback heap | alloc, dealloc | a block in two hands |
| Page tables and frames (`page_table.rs`, `frame_allocator.rs`, `memory.rs`, `allocator.rs`) | four levels of tables, `next` | map, remap, translate, allocate_frame, init_heap | aliasing of frames, stale translations, partial failure |
| Loader (`loader/src/main.rs`) | memory map, page table | map_kernel, setup_mappings, hand-over | page arithmetic at segment ends, frames used twice |
| PCI, IDE, GPT, CRC (`pci.rs`, `ide.rs`, `gpt.rs`, `crc.rs`) | configuration space, drive registers | enumerate, identify, read, write, parse | order of register writes, busy waits, truncation |
| Clock (`chrono.rs`) | CMOS registers | read_rtc | torn reads, conversions |
| ACPI, APIC (`xsdt.rs`, `apic.rs`) | tables, local and I/O APIC | checksum, MADT walk, calibrate, route | termination, a misread field, measuring while time goes on |
| Descriptor tables (`gdt.rs`, `idt.rs`) | GDT, IDT, selectors | add_entry, init, set_handler | fields spread over bits, a gate made before its selector |
| Serial port, port access, disk image builder, tests | | | not modelled |

## The modules

| Module | Models |
|---|---|
| `AtomicWaker` | `futures_util::task::AtomicWaker` as the kernel uses it (external) |
| `Executor` | `task/executor.rs` |
| `Timer` | `task/timer.rs` and the tasks that call `sleep_for` |
| `Keyboard` | `task/keyboard.rs`, `shell.rs` |
| `Kernel` | the composition: one CPU, its thread of control and its handlers; all properties |
| `EventChannel` | the abstract promise of an interrupt-to-task path |
| `LogLock` | the log lock and `without_interrupts`, under tasks, handlers, faults and panics |
| `Screen` | `Logger`, the framebuffer terminal |
| `Heap`, `BlockStore` | the heap; what it promises its callers |
| `PageTables` | operators: the walk, `map_address`, `remap_address`, the frame allocator |
| `Memory`, `AddressSpace` | the tables in use by loader and kernel, with a TLB; what they promise |
| `Loader` | the loader from `exit_boot_services` to the kernel's heap, with the bytes in memory |
| `Pci` | `init_pci` and the configuration reads |
| `Ide` | the IDE driver, and drives that fail at any sector |
| `Gpt`, `Crc` | `parse_gpt`; the checksum, bit by bit |
| `Descriptors` | GDT and IDT as the kernel encodes and the processor decodes them |
| `Acpi` | `read_xsdt` |
| `Rtc` | `read_rtc`, and a clock that goes on |
| `Apic` | `initialize_apic`: calibration and routing |
| `Bits` | the bit helpers of `bits.rs`; a 64-bit word is a set of positions |
| `MCKernel`, `MCLocked`, `MCMemory`, `MCStorage`, `MCPlatform` | instances for TLC |
| `KernelProofs`, `KernelChannelProofs` | the theorems about `Kernel`: wake-ups and sleeps; the queue's bound and the channels |
| `LogLockProofs`, `RtcProofs`, `HeapProofs`, `MemoryProofs` | the theorems about `LogLock`, `Rtc`, `Heap` and `Memory` |

A definition called `X_Something` next to a definition `X` is a variant of `X`
with a bug in it; no specification uses it. A property is expected to fail when
it takes the place of `X`.

### The core

**State.** `tasks`, `task_queue`, `waker_cache` and `STOP` are the fields and the
static of the same name. `pc` and `cur` say where the CPU is when no handler
runs, and `intr` is the interrupt flag. The place list is at the top of
`Executor` and of `Timer`. `timer_flag` and `timer_waker` are the statics of
`timer.rs`; `ticks` and `armed` are the entries of TIMER_TASKS_MANAGER (ticks
left, waker present); `todo` is the iterator of `decrement_all`.
`scancode_queue`, `key_waker` and `line` are those of `keyboard.rs` and
`shell.rs`. Two history variables take no part in the code: `owed` counts the
timer interrupts a sleep has still to see, and `irqs` counts interrupts since
the queue was last found empty. `log` is what the last handler logged.

**Steps.** Each instruction or call after which an interrupt makes a difference
is a step: the first try of `poll_next`, both halves of `WAKER.register`, the
second try, `WAKER.take`, each entry of `decrement_all`, and in
`sleep_if_idle` `cli`, `is_empty`, and `sti; hlt`. `sti` takes effect after the
following instruction, so `sti; hlt` is one step. A handler runs with interrupts
disabled and to completion, so it is one action, and it may come before any step
while `intr` holds. The spin lock of TIMER_TASKS_MANAGER is never taken by a
handler and tasks do not preempt each other, so it is never contended and is
left out. The lock of APIC is taken only by handlers once they can run.

**Data.** A scancode is named after what pc_keyboard makes of it: nothing, a raw
key, a newline or another character. The shell's buffer is kept only as long as
it can still become the shutdown command; `help` changes nothing but the screen.

**Panics.** A failing `expect` on a full queue and the `unwrap` in `out!` lead to
the place `panic`, which is never left.

### The other parts

The parts around the core run with nothing else going on: each call of preinit
and of the loader returns before the next one begins, and the heap and the screen
are used under locks. What they share with others is part of their own module:
the handlers and faults that break into a log call (`LogLock`), the drive that
works while the driver polls (`Ide`), the clock that is updated between two reads
(`Rtc`), the time that passes during a measurement (`Apic`), the TLB (`Memory`).
So `MCLocked`, `MCMemory`, `MCStorage` and `MCPlatform` explore their parts one at
a time: `part` says which one works, and the others rest in an initial state.

- **LogLock.** A stack of contexts, of which the last runs. A log call is
  `ReadFlags`, `Cli`, `Lock`, `Unlock`, `Sti`; an interrupt, an exception, a page
  fault or a panic puts a context on top. A breakpoint is an instruction of the
  code outside log calls; a general protection fault may come anywhere, inside a
  record too. RFLAGS is a set of bits, because `get_bits` looks at more of them than
  it should. A record is its beginning and its end.
- **Screen.** The glyph in each cell and `char_buffer` with its cursor. One action
  writes a character, wraps and scrolls if need be, as `write_char` does.
- **Heap.** Memory in units of a ListNode. The lists are kept in the free memory
  itself, as in the code, so a write through a stale pointer would show. The
  fallback allocator, linked_list_allocator, is external: it rounds sizes up to
  two units, takes the first hole that fits, and refuses a hole that would leave a
  rest too small to be a hole.
- **Memory, Loader.** `PageTables` is shared by both. `Memory` lets the loader and
  then the kernel map pages in any order; `Loader` follows the loader's own
  sequence, one loop iteration per action, and keeps every byte of memory.
- **Ide.** One action per register access or group of accesses after which the
  drive's state matters; `Serve` is a drive. A drive that is in a transfer may
  ignore commands, so a read of 0 sectors, which the drive takes for 256, has
  consequences. Sums wrap, as in the release build that the scripts make. Bytes are
  scaled down to `BYTE` values, so that addresses of two and more bytes, LBA48 and
  the carry between registers occur.
- **Gpt.** The checks in their order, sector by sector and entry by entry. Of the
  contents only what a check reads is kept. The length of the array is cut to an
  u32, and its number of sectors to a byte.
- **Crc, Descriptors, Pci.** Words are sets of bits. `Crc` is compared with a
  division of polynomials, and `Descriptors` with what the processor's manual says
  of the fields.
- **Acpi, Rtc, Apic.** One action per check, record, register read or poll. A
  table is given by the sums of its parts; a date is its seven registers; time is
  counted in ticks of the APIC timer; the redirection entry of the keyboard is a
  set of bits.

## What TLC checks

| Run | Specification | Properties | Result |
|---|---|---|---|
| `safety` | `Spec` | `TypeOK`, `NoLostWakeup`, `HaltOnlyWhenIdle`, `WakersBelongToLiveTasks`, `QueueBound`, `NoPanic`, `SleepNotEarly` | hold, 955,993 states |
| `liveness` | `FairSpec` | `TimerIsChannel`, `KeyboardIsChannel`, `SleepersResume`, `ShutdownExits` | hold, 179,753 states |
| `overrun` | `Spec` | `OverrunReported` | violated, see below |
| `rawkey` | `Spec` | `UnwrapsSucceed` | violated, see below |
| `locked` | `Spec` | `SpinsOnlyIfBrokenInto`, `RecordsNotMixed`, `FlagRestored`, `FaultReported`; `ScreenShowsText`, `PixelsInBounds`; `MemoryIsPartitioned`, `HeapIsBlockStore` | hold, 131,704 states |
| `log_flags` | `Spec` | `ClosureRunsWithInterruptsDisabled` | violated |
| `memory` | `Spec` | `FramesUsedOnce`, `TlbCoherent`, `TablesAreAddressSpace`, `RefusedMapChangesNothing`; `ImageLoaded`, `KernelCanRun`, `HeapFramesFresh` | hold, 5,445 states |
| `loader_reuse` | `Spec` | `UsableFramesAreFree` | violated |
| `storage` | `Spec` | `BusIsListed`; `FoundAreDrives`, `ReadReturnsSectors`, `OnlyRequestedSectorsChange`, `RequestsEnd`; `AcceptedIsListed`, `GoodIsAccepted`; `ChecksumIsRemainder` | hold, 257,527 states |
| `ide_write` | `Spec` | `WriteOkIsWritten` | violated |
| `platform` | `Spec` | `SelectorsFindDescriptors`, `InterruptsReachHandlers`; `ApicsMapped`; `DateWasShown`; `SourcesAreSetUp`, `CalibrationEnds` | hold, 158,978 states |
| `rtc_12hour` | `Spec` | `DateWasShown` | violated |

Of the core:

- `NoLostWakeup`: a suspended task is queued, or has nothing to do and its waker
  is where the next event will find it.
- `HaltOnlyWhenIdle`: when the CPU is halted nothing is runnable or pending.
- `WakersBelongToLiveTasks`: ids and wakers never outlive their task, and a
  handler never drops the last reference to a TaskWaker (so it never frees
  memory).
- `QueueBound`, `NoPanic`: the queue holds at most one entry per task and one
  more per interrupt since it was last empty. The duplicates come from handlers
  that run between `register` and the second try. With the kernel's capacity of
  100 and five tasks, more than 95 interrupts would have to come in between.
- `SleepNotEarly`: a sleep ends at most one timer interrupt early, the one that
  was already pending when it began.
- `TimerIsChannel`, `KeyboardIsChannel`: each path implements `EventChannel`.
  The consumer parks only when there is nothing to consume, an event makes it
  runnable in the same step, and pending events are consumed in order.
- `SleepersResume`, `ShutdownExits`: every sleep ends unless the kernel shuts
  down; after the shutdown command the executor returns.

Of the parts under locks:

- `SpinsOnlyIfBrokenInto`: who finds the lock taken waits for ever, because the
  holder is below on the stack. This happens only when a general protection fault
  broke into a record, whose handler logs without opening the lock, or an interrupt
  that a misread flag let in (`log_flags`); the run has no such flags.
- `FaultReported`: a page fault or a panic is reported, even in the middle of a
  record, unless a general protection fault comes on top.
- `RecordsNotMixed`, `FlagRestored`: after `force_unlock` nobody goes on with the
  record that was broken into, and nested log calls leave the flag as it was.
- `ScreenShowsText`, `PixelsInBounds`: what is visible is the end of what was
  written, and every pixel is in the framebuffer.
- `MemoryIsPartitioned`, `HeapIsBlockStore`: each free list ends and visits no
  block twice; its blocks, the holes of the fallback heap and the blocks in use do
  not overlap and together are the whole heap; and the heap implements
  `BlockStore`.

Of memory:

- `TablesAreAddressSpace`: the tables implement a map from pages to frames, in
  which a page keeps its frame once the table is loaded.
  `RefusedMapChangesNothing`: an error leaves every translation as it was.
- `FramesUsedOnce`, `TlbCoherent`: no frame is both a table and data, and no
  cached translation is out of date, although `invlpg` gets the wrong address:
  `remap_address` is called only before the table is loaded.
- `ImageLoaded`, `KernelCanRun`, `HeapFramesFresh`: when the kernel starts, its
  segments hold the file's bytes and zeros, the page of the switching code, the
  stack, boot info and tables are mapped, and its heap gets frames the loader has
  not used.

Of storage:

- `BusIsListed`: each function that `check_device` is to visit is listed once, in
  order, with its own class and vendor. Function 0 of a multifunction device is
  only logged by the code, and is not expected.
- `FoundAreDrives`: exactly the ATA drives that answer IDENTIFY are found, with
  their sizes as far as 32 bits hold them.
- `ReadReturnsSectors`, `OnlyRequestedSectorsChange`, `RequestsEnd`: a read that
  returns Ok has the sectors asked for; writes touch no other sector and no other
  drive; requests end. A drive that was asked for 0 sectors is excepted from the
  first: the driver leaves it in a transfer, and it may ignore the next command and
  go on with the old sectors. `parse_gpt` asks for 0 sectors when the array has
  fewer than 512 bytes or a multiple of 256 sectors (`gpt.rs:143`). It then refuses
  the table, and `init` panics, unless the stored checksum is 0, that of an empty
  array.
- `AcceptedIsListed`, `GoodIsAccepted`: an accepted table is intact and its
  entries in use, of at most a sector, are listed. A good one is refused only when
  the drive fails, if its array is made of 1 to 255 whole sectors below 2^32 and
  its names are readable; the code refuses others.
- `ChecksumIsRemainder`: the table-driven CRC is the remainder of a division by the
  polynomial, for a message in any chunks and as a whole.

Of the platform:

- `SelectorsFindDescriptors`, `InterruptsReachHandlers`: decoding the tables gives
  back segments, TSS and handlers, in whatever order they were added; `cs`, `ss`
  and `tr` name entries of the loaded table. The gates are made after
  `gdt::init`, as in `preinit`.
- `ApicsMapped`: when `read_xsdt` returns, both APICs are mapped at the addresses of
  a table whose checksum held; the shift repairs the field that was misread, for
  an I/O APIC at a multiple of 64 kB with the interrupt base 0.
- `DateWasShown`: two equal rounds of register reads are never put together from
  two dates.
- `SourcesAreSetUp`, `CalibrationEnds`: from any phase of the clock, the measured
  period is right up to the delays of the polls, and the measurement ends; the
  keyboard's entry in the I/O APIC then delivers its vector to this CPU.

**Bounds.** Core: both consumers and two sleepers, one that ends and one that never
does, are all the kinds of task there are. `MaxIrqs` (3 or 4) lets each handler
hit every gap of a poll, more than once, and both in one poll; a queue of seven
is reached, with four entries of one task, one below what `QueueBound` allows
there. Durations of 3 ms and 8 ms are a sleep below one tick and one of two
ticks. A scancode queue of two is full in reachable states. `MaxIrqs` is also an
assumption about the hardware: the executor is not starved by handlers. The runs
do not explore an endless storm of interrupts.

Screen: 3 by 2 cells with a margin and a stride; texts of seven characters wrap
and scroll several times. Heap: ten units and three block sizes, enough to fill
it, to fragment it and to reuse blocks of every list. Page tables: two entries per
table, so that pages share all, some or none of their tables, with memory that
runs out at any of them. Loader: nine kernels whose segments share pages, end
inside or at the end of a page, have no bytes in the file, or are too large. Ide:
addresses around the limits of LBA28, of the drive and of 32 bits, and a drive
larger than 32 bits count. Gpt: arrays of a few sectors, of none, of more than a
single read can ask for and of more than 32 bits count (scaled to 2^18), and one
that begins beyond them. Crc: short messages, the two of the unit test,
and every split of them. Acpi, Rtc, Apic, Descriptors: the inputs are listed in
`MCPlatform`. `CHECK_DEADLOCK FALSE` is said where a part returns, or where the
machine has stopped after a fault.

**Fairness.** Weak fairness of `Thread`: the CPU executes its next instruction
when no handler runs. Strong fairness of `TimerInterrupt`: the local APIC timer
is periodic and keeps one interrupt pending while the flag is clear, so an
interrupt that can be delivered again and again is delivered. Nothing is assumed
of the keyboard. In `locked`, the CPU executes (weak fairness of `Step`), and a page
fault handler or a panic that is interrupted again and again goes on in between
(strong fairness of its steps). In `storage`, the driver goes on and a
busy drive ends being busy (weak fairness of `Driver` and `Serve`): the driver has
no timeout, and without this a request need not end. So `RequestsEnd` says that
the driver waits for nothing else; a drive that hangs stops the kernel. In
`platform`, `initialize_apic` waits for nothing but time.

**Findings.**
- `raise_timer` stores `true` before it compares, so the overrun message can
  never be logged (`overrun`).
- `out!` unwraps the framebuffer logger, which `kernel_main` does not
  initialize; the first raw key panics (`rawkey`).
- `without_interrupts` tests all bits of RFLAGS from IF up, so its closure runs
  with interrupts enabled when, say, the overflow flag is set (`log_flags`).
- `convert_memory_type` makes the loader's own memory free, so the frame allocator
  may hand out frames of the kernel image, the stack or the boot info
  (`loader_reuse`).
- `write_impl` polls without looking at the error bits, so a failed write returns
  Ok (`ide_write`).
- `read_rtc` never recognises the afternoon bit of a 12-hour clock
  (`rtc_12hour`).

**Left out of the instances.** These cases were met while modelling, are in the
modules, and are kept out of the inputs of the passing runs, because the code does
not handle them: GPT entries larger than a sector (`512 / entry_size` is 0,
`gpt.rs:164`); a redirection entry in which firmware left a vector or a delivery
mode (`set_bits` clears nothing, `apic.rs:416`); a TSS above 16 MB (`get_bits` keeps
40 bits, `gdt.rs:308`); an I/O APIC whose address is no multiple of 64 kB
(`xsdt.rs:244`); screens higher than wide (`logger.rs:52`). A MADT record of length
0 is in the instance: the walk never leaves it (`xsdt.rs:176`). Four more concern no
checked property: the last frame of memory is not mapped (`loader/src/main.rs:333`),
nor the last part of a framebuffer that is no whole number of pages (line 301); a
page-aligned segment without bytes in the file makes `map_kernel` panic (line 280),
as some of the kernels in `MCMemory` do; a partition's name is logged with the first
byte of the next entry (`gpt.rs:177`).

## What is proved

TLC checks small instances. The theorems hold for every value of the constants
that satisfies the named assumptions: any set of tasks, queue capacity, nesting of
handlers, clock, heap, memory map.

| Theorem | Statement |
|---|---|
| `KernelProofs!TypeCorrect` | `Spec => [](TypeOK /\ PlaceInv)` |
| `KernelProofs!WakersLive` | `Spec => [](TokenInv /\ WakersBelongToLiveTasks)` |
| `KernelProofs!NoWakeupIsLost` | `Spec => []NoLostWakeup` |
| `KernelProofs!HaltsOnlyWhenIdle` | `Spec => []HaltOnlyWhenIdle` |
| `KernelProofs!SleepsNotEarly` | `Spec => []SleepNotEarly` |
| `KernelChannelProofs!QueueIsBounded` | `Spec => []QueueBound` |
| `KernelChannelProofs!NothingPanics` | without raw keys, `Spec => []NoPanic` |
| `KernelChannelProofs!TimerImplementsChannel` | if `Roomy`, `Spec => TimerChannel!ChanSafety` |
| `KernelChannelProofs!KeyboardImplementsChannel` | if `Roomy`, `Spec => KeyChannel!ChanSafety` |
| `LogLockProofs!FlagIsRestored` | `LogLockSpec => []FlagRestored` |
| `LogLockProofs!RecordsAreNotMixed` | `LogLockSpec => []RecordsNotMixed` |
| `LogLockProofs!OnlyBrokenRecordsSpin` | `LogLockSpec => []SpinsOnlyIfBrokenInto` |
| `LogLockProofs!ClosureIsUninterrupted` | if `OnlyLowFlags`, `LogLockSpec => []ClosureRunsWithInterruptsDisabled` |
| `RtcProofs!DateReadWasShown` | if `Hours24Only`, `RtcSpec => []DateWasShown` |
| `HeapProofs!MemoryStaysPartitioned` | `HeapSpec => []MemoryIsPartitioned` |
| `HeapProofs!HeapImplementsBlockStore` | `HeapSpec => HeapIsBlockStore` |
| `MemoryProofs!FramesAreUsedOnce` | `MemorySpec => []FramesUsedOnce` |
| `MemoryProofs!TlbStaysCoherent` | `MemorySpec => []TlbCoherent` |
| `MemoryProofs!RefusedMapKeepsTables` | `MemorySpec => RefusedMapChangesNothing` |
| `MemoryProofs!TablesImplementAddressSpace` | `MemorySpec => TablesAreAddressSpace` |

### Assumptions

Each module with constants names what it assumes of them, and TLC evaluates it on
the instances.

- Core (`ExecutorAssumption`, `TimerAssumption`, `KeyboardAssumption`,
  `KernelAssumption`): capacities are positive, the tasks are the two consumers and
  finitely many sleepers, all different, and None is not a task. `Roomy`: the task
  queue has room for every task and `MaxIrqs` interrupts; a handler that finds it
  full panics with its event pending. `NothingPanics` also excludes raw keys, which
  panic whatever the queue (`rawkey`).
- `LogLock`: the depth is positive. `OnlyLowFlags` says that no bit above IF is set
  in RFLAGS. It is needed: `log_flags` shows what happens otherwise. The first three
  theorems about the lock do without it.
- `Rtc`: the clock shows dates, and no register comes back to an earlier value
  during one call, which takes far less than a minute. Without that, two rounds
  could agree a minute apart. `Hours24Only` is needed because of `rtc_12hour`.
- `Heap`: a block size that is at least an alignment is a multiple of it, as powers
  of two are.
- `PageTables`, `Memory`: pages have addresses below the end of the four levels; the
  loader maps frames of the machine; the regions of the memory map do not overlap
  and there is a frame for the first table (`UsableFramesAssumption`). That
  `usable_frames` is made of the frames of free regions is assumed with it, because
  it is a fact about a recursive function.

### The arguments

**Wake-ups.** The layers of `KernelProofs` rest on one another.

1. `TypeOK` alone is not inductive: the shell appends `key`, which must be a
   scancode. `PlaceInv` ties `cur` and `key` to `pc`.
2. `TokenInv`: whoever is queued, polled or registered is live, and a sleeper
   has exactly one token: a queue entry, a registered waker, or the CPU. The
   consumers may have several, so a count is not kept for them.
3. `WakeInv`: `CpuInv` (interrupts are off exactly between `cli` and `sti`, and a
   queue found empty stays empty until `hlt`), `StreamInv` for each stream (a
   handler that comes during or after the registration leaves something for the
   second try), `SleepInv` (a sleep that is not over has a live owner that will
   be polled). `TodoInv` says that `decrement_all` is not interleaved with other
   polls. A step that is not a task's own leaves that task `Undisturbed`, which
   reduces each part to the few actions that concern it.
4. `EarlyInv`: the ticks a sleep is owed plus those on their way to it exceed
   its counter by at most one.

**The queue and the channels.** `QueueBound` is not inductive: a step without an
interrupt may push. `QueueInv` counts, besides the entries, those that are
pledged: tasks not yet spawned, armed sleeps, the task being polled, and wakes
that came during a registration. Every push redeems a pledge or is paid for by an
interrupt. TLC checked `QueueInv` on the states of
`safety` before it was proved. `NoPanic` follows, and with it the two refinements:
a step of the kernel is `Open`, `Deliver`, `Consume`, `Park` or `Stop` of the
channel, or leaves it alone.

**The log lock.** `FlagInv` says for every context on the stack what its log call
has done to the interrupt flag so far, where the flag of an interrupted context is
the one that the handler above it will restore. `WriteInv` says that whoever is
inside a record holds the lock or was broken into by a fault that never returns.
`HeldInv` adds that while the lock is held some context is in the middle of its
record, with no dying context above, and that what comes next above such a context
is a fault, a panic or an interrupt let in by a misread flag. So who spins is above
a record that was broken into. With `OnlyLowFlags`, `SavedInv` says that no
flag is misread, so the closure runs with interrupts disabled.

**The clock.** The registers of a round show dates between the first and the last
of the clock during that round (`RoundInv`), and rounds follow each other. If two
rounds agree, a register that has the same value in both had it all the time in
between, in particular at the date between the rounds.

**The heap.** `HeapInv` gives the free lists as sequences that the words in free
memory spell, and an ownership relation: blocks of the lists, holes and blocks in
use, with the units they were rounded up to, are disjoint and cover the heap. An
`alloc` takes the head of a list or a part of a hole, a `dealloc` puts a block at
the head of the list it was, or could have been, taken from. A write by an owner
changes no list because it stays in the owner's block.

**The page tables.** `MemoryInv` says that there is a level for each frame such
that the tables are a tree (`Tree`): an entry of a table of level n points to a
table of level n - 1, no two entries to the same one, and all tables were given by
`allocate_frame`. Frames of the heap have no level. Adding a table keeps the tree
and all translations, so creating the missing tables of one page leaves every
other page alone (`Descended`, `Remapped`). The TLB holds only translations of the
tables, because after the tables are loaded a mapped page is never mapped again.

### Only model-checked

- Liveness, which is beyond the prover: the fairness of `TimerIsChannel` and
  `KeyboardIsChannel`, `SleepersResume`, `ShutdownExits`, `FaultReported`,
  `RequestsEnd`, `CalibrationEnds`.
- `ChecksumIsRemainder`: what a recursive definition computes needs an induction
  over the message.
- The screen, the loader's own sequence, the bus, the IDE driver, the partition
  table, the descriptor tables, ACPI and the calibration.

## Not modelled

- Serial port and port access: register writes without a state of their own. Who
  writes to the log, and when, is in `LogLock`.
- The calibration of the time-stamp counter (`apic.rs`, lines 97 to 309), which
  nothing calls.
- The loader before `exit_boot_services`: it asks the firmware for files, memory
  and a framebuffer, which are inputs of `Loader`.
- The disk image builder, the test runner and the tests; the tests are a source of
  expectations, and the two messages of the CRC's test are inputs of `Crc`.
- Wording, the greys of glyphs, the model string of a drive, the 400 ns delays.
- Writes of no sector or of more than 255: nothing in the kernel calls `write`. A
  breakpoint inside a log call: formatting executes no `int3`.
- The APICs' end-of-interrupt is part of the handlers in `Kernel`. The internals of
  crossbeam's ArrayQueue are left out: a push that interrupts a pop can wait on the
  popped slot only when the queue is full, which `QueueBound` rules out.
- The composition of the parts beyond what is described above: for instance, that
  `parse_gpt` reads through the IDE driver is modelled by a device that returns the
  sectors asked for or fails, which is what `ReadReturnsSectors` says of the driver.
  Each drive is parsed once, and a read of 0 sectors is the last one of its drive,
  so what `ReadReturnsSectors` excepts does not come up in this use.
